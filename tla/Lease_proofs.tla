--------------------------- MODULE Lease_proofs -----------------------------
(***************************************************************************)
(* Proofs that provisioning is a lease of plant numbers, for any number of *)
(* tabs, profiles, plant numbers and bounds: every step claims a row,      *)
(* releases one that no session is using, opens or closes a session, or is *)
(* invisible; and what the lease itself promises.                          *)
(***************************************************************************)
EXTENDS Provisioning_proofs

\* Two rows of the table are two claims.
LEMMA ClaimOfRow ==
  ASSUME SInv, NEW p \in plants, NEW q \in plants, p.id = q.id
  PROVE  p = q
BY DEF SInv, Safe, Ids, PlantIds

\* A session is what its tab shows: nothing changes as long as the tabs that
\* are ready stay so, with the same rows.
LEMMA SessionsKept ==
  ASSUME \A t \in Tabs : /\ Ready(t)' = Ready(t)
                         /\ Ready(t) => UNCHANGED <<row[t], want[t]>>
  PROVE  UNCHANGED [t \in Tabs |-> SessionOf(t)]
<1>1. ASSUME NEW t \in Tabs PROVE SessionOf(t)' = SessionOf(t)
  <2>1. CASE Ready(t)
    BY <2>1 DEF SessionOf
  <2>2. CASE ~Ready(t)
    BY <2>2 DEF SessionOf
  <2>3. QED
    BY <2>1, <2>2
<1>2. QED
  BY <1>1

\* Only the answer to the restart can open a session.
LEMMA AnsweredKeepsSessions ==
  ASSUME SInv, NEW t \in Tabs, NEW id \in Nat, NEW rest, Answered(t, id, rest),
         pc[t] = "restart" => id = Null
  PROVE  UNCHANGED [u \in Tabs |-> SessionOf(u)]
<1>1. TypeOK /\ UNCHANGED want /\ (Ready(t) => pc[t] = "idle")
  BY DEF SInv, TInv, Safe, Rows, Answered
<1>2. /\ UNCHANGED form /\ pc[t] \in Awaited
      /\ \A u \in Tabs \ {t} : UNCHANGED row[u]
  BY <1>1
  DEF Answered, GatewayAnswered, ControlAnswered, UncontrolAnswered, RollbackAnswered,
      RestartAnswered, TypeOK, Awaited
<1>3. \A u \in Tabs : /\ Ready(u)' = Ready(u)
                      /\ Ready(u) => UNCHANGED <<row[u], want[u]>>
  BY <1>1, <1>2 DEF Ready, Awaited
<1>4. QED
  BY <1>3, SessionsKept

LEMMA ReplyKeepsSessions ==
  ASSUME SInv, NEW r \in Requests, NEW id \in Nat, NEW rest, Reply(r, id, rest),
         r.step # "restart"
  PROVE  UNCHANGED [u \in Tabs |-> SessionOf(u)]
<1>1. r.tab \in Tabs /\ Null \in Nat
  BY DEF Requests, Null
<1>2. CASE ~Awaiting(r) /\ UNCHANGED tab
  BY <1>2, SessionsKept DEF tab, Ready
<1>3. CASE Awaiting(r) /\ Answered(r.tab, id, rest)
  BY <1>1, <1>3, AnsweredKeepsSessions DEF Awaiting
<1>4. CASE Awaiting(r) /\ Answered(r.tab, Null, rest)
  BY <1>1, <1>4, AnsweredKeepsSessions
<1>5. QED
  BY <1>2, <1>3, <1>4 DEF Reply

\* The report of the saga opens a session with the two rows it was given: they
\* are there, and they are nobody else's.
LEMMA RestartOpens ==
  ASSUME SInv, Typed, NEW t \in Tabs, NEW id \in Nat, NEW rest, Answered(t, id, rest),
         pc[t] = "restart", UNCHANGED plants
  PROVE  [Lease!Next]_(Lease!vars)
<1> USE DEF Roles, Null
<1> DEFINE claim(role) == [id |-> row[t][role], no |-> want[t][role]]
<1>1. /\ TypeOK /\ Rows /\ UNCHANGED <<want, row>> /\ ~Ready(t) /\ UNCHANGED Claims
      /\ form' = [form EXCEPT ![t] =
                   IF id = Null THEN @ ELSE \E role \in Roles : row[t][role] = Null]
  BY DEF SInv, TInv, Safe, Rows, Answered, GatewayAnswered, ControlAnswered,
     UncontrolAnswered, RollbackAnswered, RestartAnswered, Claims
<1>2. CASE ~Ready(t)' \/ ~Sole(t)
  <2>1. \A u \in Tabs : SessionOf(u)' = SessionOf(u)
    BY <1>1, <1>2 DEF SessionOf, Ready, TypeOK
  <2>2. QED
    BY <1>1, <2>1 DEF Lease!vars
<1>3. CASE Ready(t)' /\ Sole(t)
  <2>1. \A role \in Roles : row[t][role] # Null
    BY <1>1, <1>3 DEF Ready, TypeOK
  <2>2. \A role \in Roles : claim(role) \in Claims
    BY <1>1, <1>3, <2>1 DEF Rows, Holding, Claims
  <2>3. SessionOf(t) = {} /\ SessionOf(t)' = {claim("control"), claim("uncontrol")}
    BY <1>1, <1>3 DEF SessionOf
  <2>4. \A u \in Tabs \ {t} : SessionOf(u)' = SessionOf(u)
    BY <1>1 DEF SessionOf, Ready, TypeOK
  <2>5. \A u \in Tabs : {claim("control"), claim("uncontrol")} \cap SessionOf(u) = {}
    <3> SUFFICES ASSUME NEW u \in Tabs, NEW role \in Roles, claim(role) \in SessionOf(u)
                 PROVE  FALSE
      OBVIOUS
    <3>1. Ready(u) /\ \E other \in Roles : row[u][other] = row[t][role]
      BY DEF SessionOf
    <3>2. u = t
      BY <1>1, <2>1, <3>1 DEF Rows
    <3>3. QED
      BY <1>1, <3>1, <3>2
  <2>6. claim("control") # claim("uncontrol")
    BY <1>1, <2>1 DEF Rows
  <2>7. claim("control").no = ControlNo
    <3>1. PICK p \in plants : p.no = want[t]["control"]
      BY <1>1, <1>3, <2>1 DEF Rows, Holding
    <3>2. p.no \in PlantNos
      BY <1>1, <3>1 DEF TypeOK, PlantRows
    <3>3. QED
      BY <3>1, <3>2, NumberAssumption DEF Typed
  <2>8. [u \in Tabs |-> SessionOf(u)]'
          = [[u \in Tabs |-> SessionOf(u)] EXCEPT ![t] = {claim("control"), claim("uncontrol")}]
    BY <2>3, <2>4
  <2>9. Lease!Open(t, claim("control"), claim("uncontrol"))
    BY <1>1, <2>3, <2>5, <2>6, <2>7, <2>8 DEF Lease!Open
  <2>10. QED
    BY <2>2, <2>9 DEF Lease!Next
<1>4. QED
  BY <1>2, <1>3

-----------------------------------------------------------------------------
(* The steps.                                                              *)

LEMMA LeaseStep == SInv /\ Typed /\ [Next]_vars => [Lease!Next]_(Lease!vars)
<1> SUFFICES ASSUME SInv, Typed, [Next]_vars PROVE [Lease!Next]_(Lease!vars)
  OBVIOUS
<1> DEFINE S == [u \in Tabs |-> SessionOf(u)]
<1>0. /\ TypeOK /\ Ids /\ Rows /\ net \cup deleting \subseteq Requests /\ Null \in Nat
      /\ lastGw + 1 \in Nat /\ lastPlant \in Nat /\ lastPlant + 1 \in Nat
  BY DEF SInv, TInv, TypeOK, Safe, Null
<1>1. ASSUME UNCHANGED <<plants, S>> PROVE [Lease!Next]_(Lease!vars)
  BY <1>1 DEF Lease!vars, Claims
<1>2. ASSUME UNCHANGED <<plants, form, row, want>> PROVE [Lease!Next]_(Lease!vars)
  <2>1. UNCHANGED S
    BY <1>2, SessionsKept DEF Ready
  <2>2. QED
    BY <1>1, <1>2, <2>1
<1>3. ASSUME NEW r \in Requests, NEW id \in Nat, NEW rest, Reply(r, id, rest),
             UNCHANGED plants
      PROVE  [Lease!Next]_(Lease!vars)
  <2>1. CASE r.step # "restart"
    BY <1>1, <1>3, <2>1, ReplyKeepsSessions
  <2>2. CASE UNCHANGED tab
    BY <1>2, <1>3, <2>2 DEF tab
  <2>3. CASE r.step = "restart" /\ ~UNCHANGED tab
    <3>1. r.tab \in Tabs /\ pc[r.tab] = "restart"
      BY <1>3, <2>3 DEF Requests, Reply, Awaiting
    <3>2. Answered(r.tab, id, rest) \/ Answered(r.tab, Null, rest)
      BY <1>3, <2>3 DEF Reply
    <3>3. QED
      BY <1>0, <1>3, <3>1, <3>2, RestartOpens
  <2>4. QED
    BY <2>1, <2>2, <2>3
<1>4. ASSUME NEW t \in Tabs, Submit(t) PROVE [Lease!Next]_(Lease!vars)
  <2>1. UNCHANGED <<plants, form>> /\ ~Ready(t)
    BY <1>4 DEF Submit, db, Ready
  <2>2. \A u \in Tabs \ {t} : UNCHANGED <<row[u], want[u]>>
    BY <1>0, <1>4 DEF Submit, TypeOK
  <2>3. UNCHANGED S
    BY <2>1, <2>2, SessionsKept DEF Ready
  <2>4. QED
    BY <1>1, <2>1, <2>3
<1>5. ASSUME NEW t \in Tabs, Reload(t) PROVE [Lease!Next]_(Lease!vars)
  <2>1. /\ UNCHANGED plants /\ ~Ready(t)'
        /\ \A u \in Tabs \ {t} : UNCHANGED <<form[u], row[u], want[u]>>
    BY <1>0, <1>5 DEF Reload, db, Ready, TypeOK
  <2>2. SessionOf(t)' = {} /\ \A u \in Tabs \ {t} : SessionOf(u)' = SessionOf(u)
    <3>1. SessionOf(t)' = {}
      BY <2>1 DEF SessionOf
    <3>2. ASSUME NEW u \in Tabs \ {t} PROVE SessionOf(u)' = SessionOf(u)
      <4>1. UNCHANGED <<form[u], row[u], want[u]>>
        BY <2>1
      <4>2. QED
        BY <4>1 DEF SessionOf, Ready
    <3>3. QED
      BY <3>1, <3>2
  <2>3. CASE SessionOf(t) = {}
    <3>1. \A u \in Tabs : SessionOf(u)' = SessionOf(u)
      BY <2>2, <2>3
    <3>2. QED
      BY <1>1, <2>1, <3>1
  <2>4. CASE SessionOf(t) # {}
    <3>1. S' = [S EXCEPT ![t] = {}]
      BY <2>2
    <3>2. Lease!Close(t)
      BY <2>1, <2>4, <3>1 DEF Lease!Close, Claims
    <3>3. QED
      BY <3>2 DEF Lease!Next
  <2>5. QED
    BY <2>3, <2>4
<1>6. ASSUME NEW t \in Tabs, GiveUp(t) PROVE [Lease!Next]_(Lease!vars)
  <2>1. Answered(t, Null, net) /\ UNCHANGED plants
    BY <1>6 DEF GiveUp, db
  <2>2. UNCHANGED S
    BY <1>0, <2>1, AnsweredKeepsSessions
  <2>3. QED
    BY <1>1, <2>1, <2>2
<1>7. ASSUME NEW r \in net, ServeGateway(r) PROVE [Lease!Next]_(Lease!vars)
  <2>1. Reply(r, lastGw + 1, net \ {r}) /\ UNCHANGED plants
    BY <1>7 DEF ServeGateway
  <2>2. QED
    BY <1>0, <1>3, <2>1
<1>8. ASSUME NEW r \in net, ServePlant(r) PROVE [Lease!Next]_(Lease!vars)
  <2>1. r.step # "restart" /\ r \in Requests /\ r.no \in PlantNos
    BY <1>0, <1>8 DEF ServePlant, Roles, SInv, TInv, Numbered
  <2>2. CASE RefusePlant(r)
    BY <1>0, <1>3, <2>1, <2>2 DEF RefusePlant
  <2>3. CASE AddPlant(r)
    <3> DEFINE new == [id |-> lastPlant + 1, no |-> r.no]
    <3>1. UNCHANGED S
      BY <1>0, <2>1, <2>3, ReplyKeepsSessions DEF AddPlant
    <3>2. Claims' = Claims \cup {new}
      <4> DEFINE made == [id |-> lastPlant + 1, no |-> r.no, gw |-> r.gw]
      <4> HIDE DEF made
      <4>1. plants' = plants \cup {made}
        BY <2>3 DEF AddPlant, made
      <4>2. Claims' = Claims \cup {[id |-> made.id, no |-> made.no]}
        BY <4>1 DEF Claims
      <4>3. QED
        BY <4>2 DEF made
    <3>3. \A h \in Claims : h.id # new.id /\ h.no # new.no
      <4> SUFFICES ASSUME NEW p \in plants PROVE p.id # lastPlant + 1 /\ p.no # r.no
        BY DEF Claims
      <4>1. p.id \in Nat /\ p.id <= lastPlant
        BY <1>0 DEF Ids, PlantIds, TypeOK, PlantRows
      <4>2. QED
        BY <1>0, <2>3, <4>1 DEF AddPlant, Taken
    <3>4. Lease!Claim(new)
      BY <2>1, <3>1, <3>2, <3>3 DEF Lease!Claim
    <3>5. QED
      BY <3>2, <3>4 DEF Lease!Next
  <2>4. QED
    BY <1>8, <2>2, <2>3 DEF ServePlant
<1>9. ASSUME NEW r \in net, ServeRestart(r) PROVE [Lease!Next]_(Lease!vars)
  <2>1. Reply(r, r.att, net \ {r}) /\ UNCHANGED plants /\ r.att \in Nat
    BY <1>0, <1>9 DEF ServeRestart, db, Requests
  <2>2. QED
    BY <1>0, <1>3, <2>1
<1>10. ASSUME NEW r \in deleting, RemoveGateway(r) PROVE [Lease!Next]_(Lease!vars)
  <2>1. Reply(r, r.gw, net) /\ UNCHANGED plants /\ r.gw \in Nat
    BY <1>0, <1>10 DEF RemoveGateway, Requests
  <2>2. QED
    BY <1>0, <1>3, <2>1
<1>11. ASSUME NEW i \in doomed, DestroyPlant(i) PROVE [Lease!Next]_(Lease!vars)
  <2>1. plants' = {p \in plants : p.id # i} /\ UNCHANGED <<form, row, want>>
    BY <1>11 DEF DestroyPlant, tab
  <2>2. UNCHANGED S
    BY <2>1, SessionsKept DEF Ready
  <2>3. CASE \A p \in plants : p.id # i
    BY <1>2, <2>1, <2>3
  <2>4. CASE \E p \in plants : p.id = i
    <3>1. PICK p \in plants : p.id = i
      BY <2>4
    <3> DEFINE old == [id |-> p.id, no |-> p.no]
    <3>2. old \in Claims /\ Claims' = Claims \ {old}
      BY <2>1, <3>1, ClaimOfRow DEF Claims
    <3>3. ASSUME NEW t \in Tabs, old \in SessionOf(t) PROVE FALSE
      <4>1. Sole(t) /\ Ready(t) /\ \E role \in Roles : row[t][role] = i
        BY <3>1, <3>3 DEF SessionOf
      <4>2. PICK role \in Roles : row[t][role] = i
        BY <4>1
      <4>3. Holding(t) /\ row[t][role] # Null
        BY <1>0, <4>1 DEF Rows, Holding
      <4>4. i \notin doomed
        BY <1>0, <4>1, <4>2, <4>3 DEF Rows
      <4>5. QED
        BY <1>11, <4>4
    <3>4. Lease!Release(old)
      BY <2>2, <3>2, <3>3 DEF Lease!Release
    <3>5. QED
      BY <3>2, <3>4 DEF Lease!Next
  <2>5. QED
    BY <2>3, <2>4
<1>12. ASSUME \/ \E r \in net : ServeDelete(r)
              \/ \E n \in sweeps : SweepLogs(n)
              \/ MasterLoad
              \/ \E p \in polled : StoreTelemetry(p)
              \/ RestCrash \/ MasterCrash
              \/ UNCHANGED vars
       PROVE  [Lease!Next]_(Lease!vars)
  <2>1. UNCHANGED <<plants, form, row, want>>
    BY <1>12 DEF ServeDelete, SweepLogs, MasterLoad, StoreTelemetry, RestCrash, MasterCrash,
       vars, db, tab
  <2>2. QED
    BY <1>2, <2>1
<1>13. QED
  BY <1>4, <1>5, <1>6, <1>7, <1>8, <1>9, <1>10, <1>11, <1>12 DEF Next, Serve, Hook

\* Provisioning leases plant numbers: whatever attempts, rollbacks, late and
\* doubled deletes, page loads and crashes do, seen from the tabs that are alone
\* in their browsers they claim free numbers, release rows of no session, and
\* open and close sessions of rows that are there and nobody else's.
THEOREM ProvisioningImplementsLease == Spec => LeaseHolds
<1>1. Init => Lease!Init
  BY DEF Init, Lease!Init, Claims, SessionOf, Ready
<1>2. QED
  BY <1>1, LeaseStep, Safety, TypedKept, PTL DEF Spec, LeaseHolds, Lease!Spec

-----------------------------------------------------------------------------
(* What any lease promises, whoever keeps it.                              *)

\* Numbers are claimed once; the sessions share no row and each has one of the
\* control plant's number.
LeaseInv ==
  /\ \A h, k \in Claims : h.no = k.no => h = k
  /\ Lease!InForce
  /\ \A t, u \in Tabs : t # u => SessionOf(t) \cap SessionOf(u) = {}
  /\ \A t \in Tabs : SessionOf(t) # {} => \E h \in SessionOf(t) : h.no = ControlNo

LEMMA LeaseInvStep == LeaseInv /\ [Lease!Next]_(Lease!vars) => LeaseInv'
<1> SUFFICES ASSUME LeaseInv, [Lease!Next]_(Lease!vars) PROVE LeaseInv'
  OBVIOUS
<1> DEFINE S == [t \in Tabs |-> SessionOf(t)]
<1>0. /\ \A h, k \in Claims : h.no = k.no => h = k
      /\ \A t \in Tabs : SessionOf(t) \subseteq Claims
      /\ \A t, u \in Tabs : t # u => SessionOf(t) \cap SessionOf(u) = {}
      /\ \A t \in Tabs : SessionOf(t) # {} => \E h \in SessionOf(t) : h.no = ControlNo
  BY DEF LeaseInv, Lease!InForce
<1>1. ASSUME UNCHANGED S PROVE \A t \in Tabs : SessionOf(t)' = SessionOf(t)
  <2>1. \A t \in Tabs : S'[t] = SessionOf(t)' /\ S[t] = SessionOf(t)
    OBVIOUS
  <2>2. QED
    BY <1>1, <2>1
<1>2. CASE UNCHANGED Lease!vars
  <2>1. UNCHANGED <<Claims, S>>
    BY <1>2 DEF Lease!vars
  <2>2. QED
    BY <1>0, <1>1, <2>1 DEF LeaseInv, Lease!InForce
<1>3. ASSUME NEW new \in Claims', Lease!Claim(new) PROVE LeaseInv'
  <2>1. UNCHANGED S /\ Claims' = Claims \cup {new} /\ \A h \in Claims : h.no # new.no
    BY <1>3 DEF Lease!Claim
  <2>2. QED
    BY <1>0, <1>1, <2>1 DEF LeaseInv, Lease!InForce
<1>4. ASSUME NEW h \in Claims, Lease!Release(h) PROVE LeaseInv'
  <2>1. UNCHANGED S /\ Claims' = Claims \ {h} /\ \A t \in Tabs : h \notin SessionOf(t)
    BY <1>4 DEF Lease!Release
  <2>2. QED
    BY <1>0, <1>1, <2>1 DEF LeaseInv, Lease!InForce
<1>5. ASSUME NEW t \in Tabs, Lease!Close(t) PROVE LeaseInv'
  <2>1. S' = [S EXCEPT ![t] = {}] /\ UNCHANGED Claims
    BY <1>5 DEF Lease!Close
  <2>2. \A u \in Tabs : SessionOf(u)' = IF u = t THEN {} ELSE SessionOf(u)
    <3>1. \A u \in Tabs : S'[u] = SessionOf(u)' /\ S[u] = SessionOf(u)
      OBVIOUS
    <3>2. QED
      BY <2>1, <3>1
  <2>3. QED
    BY <1>0, <2>1, <2>2 DEF LeaseInv, Lease!InForce
<1>6. ASSUME NEW t \in Tabs, NEW c \in Claims, NEW d \in Claims, Lease!Open(t, c, d)
      PROVE  LeaseInv'
  <2>1. /\ S' = [S EXCEPT ![t] = {c, d}] /\ UNCHANGED Claims /\ c.no = ControlNo
        /\ \A u \in Tabs : {c, d} \cap SessionOf(u) = {}
    BY <1>6 DEF Lease!Open
  <2>2. \A u \in Tabs : SessionOf(u)' = IF u = t THEN {c, d} ELSE SessionOf(u)
    <3>1. \A u \in Tabs : S'[u] = SessionOf(u)' /\ S[u] = SessionOf(u)
      OBVIOUS
    <3>2. QED
      BY <2>1, <3>1
  <2>3. QED
    BY <1>0, <2>1, <2>2 DEF LeaseInv, Lease!InForce
<1>7. QED
  BY <1>2, <1>3, <1>4, <1>5, <1>6 DEF Lease!Next

\* A lease alone, whatever claims and releases, keeps the rows of every open
\* session in force and never has two sessions open: that one number is claimed
\* once is enough to keep a second tester out.
THEOREM LeaseExcludes == Lease!Spec => [](Lease!InForce /\ Lease!OneOpen)
<1>1. Lease!Init => LeaseInv
  <2> SUFFICES ASSUME Lease!Init PROVE LeaseInv
    OBVIOUS
  <2>1. Claims = {} /\ \A t \in Tabs : SessionOf(t) = {}
    <3>1. Claims = {} /\ [t \in Tabs |-> SessionOf(t)] = [t \in Tabs |-> {}]
      BY DEF Lease!Init
    <3>2. \A t \in Tabs : SessionOf(t) = [u \in Tabs |-> SessionOf(u)][t]
      OBVIOUS
    <3>3. QED
      BY <3>1, <3>2
  <2>2. QED
    BY <2>1 DEF LeaseInv, Lease!InForce
<1>2. LeaseInv => Lease!InForce /\ Lease!OneOpen
  <2> SUFFICES ASSUME LeaseInv, NEW t \in Tabs, NEW u \in Tabs,
                      SessionOf(t) # {}, SessionOf(u) # {}
               PROVE  t = u
    BY DEF LeaseInv, Lease!OneOpen
  <2>1. PICK h \in SessionOf(t) : h.no = ControlNo
    BY DEF LeaseInv
  <2>2. PICK k \in SessionOf(u) : k.no = ControlNo
    BY DEF LeaseInv
  <2>3. h \in Claims /\ k \in Claims
    BY DEF LeaseInv, Lease!InForce
  <2>4. QED
    BY <2>1, <2>2, <2>3 DEF LeaseInv
<1>3. QED
  BY <1>1, <1>2, LeaseInvStep, PTL DEF Lease!Spec

=============================================================================
