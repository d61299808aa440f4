-------------------------- MODULE Attempts_proofs ---------------------------
(***************************************************************************)
(* Proofs about what becomes of an attempt as long as nothing fails: its   *)
(* saga awaits no answer that cannot come, and its rollback leaves no      *)
(* plant behind.  These are the safety halves of SubmitResolves and        *)
(* RollbackReleases.                                                       *)
(***************************************************************************)
EXTENDS Provisioning_proofs

\* Requests bear a gateway there has been and an attempt there has been.  The
\* rollback of a tab's present attempt is of its gateway, and is sent after both
\* of its plants have been answered.
Stamped ==
  /\ \A r \in net \cup deleting :
       /\ r.gw <= lastGw /\ r.att <= atts
       /\ r.step \in {"rollback", "restart"} => r.att # 0
       /\ r.step = "rollback" /\ r.att = att[r.tab] =>
            r.gw = gwId[r.tab] /\ pc[r.tab] \notin {"gateway", "control", "uncontrol"}
  /\ \A t \in Tabs :
       pc[t] \in {"gateway", "control", "uncontrol"} => "exists" \notin errs[t]

\* No plant is being created in a tab's gateway but the one its saga awaits:
\* requests of earlier attempts are for other gateways.
OwnPlants ==
  \A r \in net, t \in Tabs : r.step \in Roles /\ gwId[t] # Null /\ r.gw = gwId[t] =>
    r.tab = t /\ Awaiting(r)

Swept(t) == \A p \in Condemned(gwId[t]) : p.id \in doomed

\* The rollback being served has found all the plants of its gateway.
Sweeping == \A r \in deleting : Awaiting(r) /\ gwId[r.tab] # Null => Swept(r.tab)

Free == OwnPlants /\ Sweeping /\ AnswerComes /\ RolledBack

AInv == Stamped /\ (faults = 0 => Free)

-----------------------------------------------------------------------------
(* Stamped, which faults do not break.                                     *)

\* What a step that answers may do beside the tab's reaction.
Grown ==
  /\ lastGw' \in Nat /\ lastGw <= lastGw' /\ UNCHANGED atts
  /\ deleting' \subseteq deleting

LEMMA AnsweredStamped ==
  ASSUME SInv, Stamped, NEW t \in Tabs, NEW id \in Nat, NEW rest, rest \subseteq net,
         Answered(t, id, rest), Grown, pc[t] = "gateway" => id <= lastGw'
  PROVE  Stamped'
<1> USE DEF Roles, Null
<1>0. /\ TypeOK /\ UNCHANGED <<att, want>> /\ gwId[t] <= lastGw /\ att[t] <= atts
      /\ pc[t] \in Awaited => att[t] # 0
  BY DEF SInv, TInv, Safe, Ids, Asks, Answered
<1>1. CASE GatewayAnswered(t, id, rest) /\ UNCHANGED form
  BY <1>0, <1>1 DEF GatewayAnswered, Stamped, Grown, TypeOK, Request, Requests, Awaited
<1>2. CASE ControlAnswered(t, id, rest) /\ UNCHANGED form
  BY <1>0, <1>2 DEF ControlAnswered, Stamped, Grown, TypeOK, Request, Requests, Awaited
<1>3. CASE UncontrolAnswered(t, id, rest) /\ UNCHANGED form
  BY <1>0, <1>3 DEF UncontrolAnswered, Stamped, Grown, TypeOK, Request, Requests, Awaited
<1>4. CASE RollbackAnswered(t, rest) /\ UNCHANGED form
  BY <1>0, <1>4 DEF RollbackAnswered, Stamped, Grown, TypeOK, Request, Requests, Awaited
<1>5. CASE RestartAnswered(t, id, rest)
  BY <1>0, <1>5 DEF RestartAnswered, Stamped, Grown, TypeOK, Requests, Awaited
<1>6. QED
  BY <1>1, <1>2, <1>3, <1>4, <1>5 DEF Answered

LEMMA ReplyStamped ==
  ASSUME SInv, Stamped, NEW r \in Requests, NEW id \in Nat, NEW rest, rest \subseteq net,
         Reply(r, id, rest), Grown, r.step = "gateway" => id <= lastGw'
  PROVE  Stamped'
<1>1. r.tab \in Tabs /\ Null \in Nat /\ lastGw' \in Nat /\ Null <= lastGw'
  BY DEF Requests, Null, Grown
<1>2. CASE ~Awaiting(r) /\ net' = rest /\ UNCHANGED <<tab, counts>>
  <2>1. UNCHANGED <<pc, att, gwId, errs>> /\ net' \subseteq net
    BY <1>2 DEF tab
  <2>2. lastGw \in Nat /\ net \cup deleting \subseteq Requests
    BY DEF SInv, TInv, TypeOK
  <2>3. QED
    BY <2>1, <2>2 DEF Stamped, Grown, Requests
<1>3. CASE Awaiting(r) /\ Answered(r.tab, id, rest)
  BY <1>1, <1>3, AnsweredStamped DEF Awaiting
<1>4. CASE Awaiting(r) /\ Answered(r.tab, Null, rest)
  BY <1>1, <1>4, AnsweredStamped
<1>5. QED
  BY <1>2, <1>3, <1>4 DEF Reply

LEMMA StampedStep == SInv /\ Stamped /\ [Next]_vars => Stamped'
<1> SUFFICES ASSUME SInv, Stamped, [Next]_vars PROVE Stamped'
  OBVIOUS
<1> USE DEF Roles, Null
<1>0. /\ TypeOK /\ lastGw \in Nat /\ lastGw + 1 \in Nat /\ Null <= lastGw
      /\ net \cup deleting \subseteq Requests /\ Null \in Nat
  BY DEF SInv, TInv, TypeOK
<1>1. ASSUME NEW t \in Tabs, Submit(t) PROVE Stamped'
  BY <1>0, <1>1 DEF Submit, Stamped, TypeOK, Requests, db, hooks
<1>2. ASSUME NEW t \in Tabs, Reload(t) PROVE Stamped'
  <2>1. ProfileOf[t] \in Profiles /\ store[ProfileOf[t]] <= lastGw
    BY <1>0, ProfileAssumption DEF SInv, Safe, Ids
  <2>2. QED
    BY <1>0, <1>2, <2>1 DEF Reload, Stamped, TypeOK, Requests, db, hooks
<1>3. ASSUME NEW t \in Tabs, GiveUp(t) PROVE Stamped'
  <2>1. Grown /\ Answered(t, Null, net)
    BY <1>0, <1>3 DEF GiveUp, Grown, db, hooks
  <2>2. QED
    BY <1>0, <2>1, AnsweredStamped DEF Grown
<1>4. ASSUME NEW r \in net, ServeGateway(r) PROVE Stamped'
  <2>1. Grown /\ Reply(r, lastGw + 1, net \ {r}) /\ lastGw' = lastGw + 1
    BY <1>0, <1>4 DEF ServeGateway, Grown, hooks, Reply, counts
  <2>2. QED
    BY <1>0, <2>1, ReplyStamped
<1>5. ASSUME NEW r \in net, ServePlant(r) PROVE Stamped'
  <2>1. lastPlant + 1 \in Nat /\ r.step # "gateway"
    BY <1>0, <1>5 DEF TypeOK, ServePlant
  <2>2. /\ Reply(r, lastPlant + 1, net \ {r}) \/ Reply(r, Null, net \ {r})
        /\ UNCHANGED <<lastGw, deleting>>
    BY <1>5 DEF ServePlant, AddPlant, RefusePlant, hooks
  <2>3. Grown
    BY <1>0, <2>2 DEF Grown, Reply, counts
  <2>4. QED
    BY <1>0, <2>1, <2>2, <2>3, ReplyStamped
<1>6. ASSUME NEW r \in net, ServeDelete(r) PROVE Stamped'
  BY <1>0, <1>6 DEF ServeDelete, Stamped, db, tab, counts
<1>7. ASSUME NEW r \in net, ServeRestart(r) PROVE Stamped'
  <2>1. Grown /\ Reply(r, r.att, net \ {r}) /\ r.att \in Nat /\ r.step = "restart"
    BY <1>0, <1>7 DEF ServeRestart, Grown, db, hooks, Reply, counts, Requests
  <2>2. QED
    BY <1>0, <2>1, ReplyStamped
<1>8. ASSUME NEW r \in deleting, RemoveGateway(r) PROVE Stamped'
  <2>1. Grown /\ Reply(r, r.gw, net) /\ r.gw \in Nat /\ r.step # "gateway"
    BY <1>0, <1>8
    DEF RemoveGateway, Grown, Reply, counts, Requests, SInv, Safe, Owners, Deletes
  <2>2. QED
    BY <1>0, <2>1, ReplyStamped
<1>9. ASSUME \/ \E i \in doomed : DestroyPlant(i)
             \/ \E n \in sweeps : SweepLogs(n)
             \/ MasterLoad
             \/ \E p \in polled : StoreTelemetry(p)
             \/ MasterCrash \/ RestCrash
             \/ UNCHANGED vars
      PROVE  Stamped'
  <2>1. UNCHANGED <<lastGw, atts, tab>> /\ net' \subseteq net /\ deleting' \subseteq deleting
    BY <1>9 DEF DestroyPlant, SweepLogs, MasterLoad, StoreTelemetry, MasterCrash, RestCrash,
       vars, db, hooks, counts
  <2>2. UNCHANGED <<pc, att, gwId, errs>>
    BY <2>1 DEF tab
  <2>3. QED
    BY <2>1, <2>2 DEF Stamped
<1>10. QED
  BY <1>1, <1>2, <1>3, <1>4, <1>5, <1>6, <1>7, <1>8, <1>9 DEF Next, Serve, Hook

-----------------------------------------------------------------------------
(* What a reaction to an answer does to the tab, seen from outside.        *)

\* The next request of the tab's saga, if there is one, is the awaited one.
LEMMA NextRequest ==
  ASSUME SInv, NEW t \in Tabs, NEW id \in Nat, NEW rest, rest \subseteq net,
         Answered(t, id, rest), pc[t] = "restart" => id # Null
  PROVE  /\ UNCHANGED att /\ \A u \in Tabs \ {t} : UNCHANGED <<pc[u], gwId[u], errs[u]>>
         /\ \/ pc'[t] = "idle" /\ net' = rest
            \/ \E n \in Numbers :
                 /\ pc'[t] \in {"control", "uncontrol", "rollback", "restart"}
                 /\ net' = rest \cup {[step |-> pc'[t], tab |-> t, att |-> att[t],
                                      gw |-> gwId'[t], no |-> n]}
<1> USE DEF Roles, Null, Numbers, Request
<1>0. /\ TypeOK /\ UNCHANGED <<att, want>> /\ NoNumber \in Numbers
      /\ \A role \in Roles : want[t][role] \in Numbers
  BY DEF SInv, TInv, TypeOK, Answered
<1>1. CASE GatewayAnswered(t, id, rest) /\ UNCHANGED form
  BY <1>0, <1>1 DEF GatewayAnswered, TypeOK
<1>2. CASE ControlAnswered(t, id, rest) /\ UNCHANGED form
  BY <1>0, <1>2 DEF ControlAnswered, TypeOK
<1>3. CASE UncontrolAnswered(t, id, rest) /\ UNCHANGED form
  BY <1>0, <1>3 DEF UncontrolAnswered, TypeOK
<1>4. CASE RollbackAnswered(t, rest) /\ UNCHANGED form
  BY <1>0, <1>4 DEF RollbackAnswered, TypeOK
<1>5. CASE RestartAnswered(t, id, rest)
  BY <1>0, <1>5 DEF RestartAnswered, TypeOK
<1>6. QED
  BY <1>1, <1>2, <1>3, <1>4, <1>5 DEF Answered

\* The saga's places, in their order; the rollback is left out only if nothing
\* has failed or there is no gateway to delete.
LEMMA NextPlace ==
  ASSUME SInv, NEW t \in Tabs, NEW id \in Nat, NEW rest, Answered(t, id, rest)
  PROVE  \/ pc[t] = "gateway" /\ pc'[t] = "control" /\ gwId'[t] = id
         \/ pc[t] = "control" /\ pc'[t] = "uncontrol" /\ UNCHANGED gwId[t]
         \/ /\ pc[t] = "uncontrol" /\ UNCHANGED gwId[t]
            /\ \/ pc'[t] = "rollback"
               \/ pc'[t] = "restart" /\ (gwId[t] # Null => UNCHANGED errs[t])
         \/ /\ pc[t] \in {"rollback", "restart"} /\ UNCHANGED <<gwId[t], errs[t]>>
            /\ pc'[t] # "rollback"
<1> USE DEF Roles, Null
<1>0. TypeOK /\ UNCHANGED <<att, want>>
  BY DEF SInv, TInv, Answered
<1>1. CASE GatewayAnswered(t, id, rest) /\ UNCHANGED form
  BY <1>0, <1>1 DEF GatewayAnswered, TypeOK
<1>2. CASE ControlAnswered(t, id, rest) /\ UNCHANGED form
  BY <1>0, <1>2 DEF ControlAnswered, TypeOK
<1>3. CASE UncontrolAnswered(t, id, rest) /\ UNCHANGED form
  BY <1>0, <1>3 DEF UncontrolAnswered, TypeOK
<1>4. CASE RollbackAnswered(t, rest) /\ UNCHANGED form
  BY <1>0, <1>4 DEF RollbackAnswered, TypeOK
<1>5. CASE RestartAnswered(t, id, rest)
  BY <1>0, <1>5 DEF RestartAnswered, TypeOK
<1>6. QED
  BY <1>1, <1>2, <1>3, <1>4, <1>5 DEF Answered

-----------------------------------------------------------------------------
(* Steps without a fault.                                                  *)

\* What the server's side of a step does that answers request r, or finds that
\* nobody waits for it: it takes r off the network or out of the hook's hands,
\* and may create the plant r asks for.
Handled(r, rest) ==
  /\ rest \subseteq net /\ net \ {r} \subseteq rest /\ (r.step \in Roles => r \notin rest)
  /\ deleting' \subseteq deleting /\ deleting \ {r} \subseteq deleting'
  /\ UNCHANGED doomed
  /\ \A p \in plants' : p \in plants \/ (r.step \in Roles /\ r \in net /\ p.gw = r.gw)

LEMMA AnsweredFree ==
  ASSUME SInv, Stamped, Stamped', Free, faults = 0,
         NEW r \in net \cup deleting, Awaiting(r), r.step \in Deletes => r \in deleting,
         NEW id \in Nat, NEW rest, Handled(r, rest), Answered(r.tab, id, rest),
         r.step = "restart" => id # Null,
         r.step = "gateway" => lastGw < id
  PROVE  Free'
<1> DEFINE t == r.tab
<1> USE DEF Roles, Null
<1>1. /\ TypeOK /\ t \in Tabs /\ r \in Requests /\ net \subseteq Requests
      /\ pc[t] = r.step /\ att[t] = r.att /\ lastGw \in Nat /\ rest \subseteq net
  BY DEF SInv, TInv, TypeOK, Requests, Awaiting, Handled
<1>2. /\ UNCHANGED att /\ \A u \in Tabs \ {t} : UNCHANGED <<pc[u], gwId[u], errs[u]>>
      /\ \/ pc'[t] = "idle" /\ net' = rest
         \/ \E n \in Numbers :
              /\ pc'[t] \in {"control", "uncontrol", "rollback", "restart"}
              /\ net' = rest \cup {[step |-> pc'[t], tab |-> t, att |-> att[t],
                                   gw |-> gwId'[t], no |-> n]}
  BY <1>1, NextRequest
<1>3. \/ pc[t] = "gateway" /\ pc'[t] = "control" /\ gwId'[t] = id
      \/ pc[t] = "control" /\ pc'[t] = "uncontrol" /\ UNCHANGED gwId[t]
      \/ /\ pc[t] = "uncontrol" /\ UNCHANGED gwId[t]
         /\ \/ pc'[t] = "rollback"
            \/ pc'[t] = "restart" /\ (gwId[t] # Null => UNCHANGED errs[t])
      \/ /\ pc[t] \in {"rollback", "restart"} /\ UNCHANGED <<gwId[t], errs[t]>>
         /\ pc'[t] # "rollback"
  BY <1>1, NextPlace
<1>4. AnswerComes'
  <2> SUFFICES ASSUME NEW u \in Tabs, Loading(u)'
               PROVE  \E q \in net' \cup deleting' : q.tab = u /\ Awaiting(q)'
    BY DEF AnswerComes
  <2>1. CASE u = t
    <3>1. PICK n \in Numbers :
            net' = rest \cup {[step |-> pc'[t], tab |-> t, att |-> att[t],
                              gw |-> gwId'[t], no |-> n]}
      BY <1>2, <2>1 DEF Loading
    <3> DEFINE q == [step |-> pc'[t], tab |-> t, att |-> att[t], gw |-> gwId'[t], no |-> n]
    <3>2. q \in net' /\ q.tab = t /\ q.step = pc'[t] /\ q.att = att'[t]
      BY <1>2, <3>1
    <3>3. QED
      BY <2>1, <3>2 DEF Awaiting
  <2>2. CASE u # t
    <3>1. PICK q \in net \cup deleting : q.tab = u /\ Awaiting(q)
      BY <1>2, <2>2 DEF Free, AnswerComes, Loading
    <3>2. q \in net' \cup deleting'
      BY <1>2, <2>2, <3>1 DEF Handled
    <3>3. QED
      BY <1>2, <2>2, <3>1, <3>2 DEF Awaiting
  <2>3. QED
    BY <2>1, <2>2
<1>5. OwnPlants'
  <2> SUFFICES ASSUME NEW q \in net', NEW u \in Tabs, q.step \in Roles,
                      gwId'[u] # Null, q.gw = gwId'[u]
               PROVE  q.tab = u /\ Awaiting(q)'
    BY DEF OwnPlants
  <2>1. \A v \in Tabs \ {t} : gwId'[v] # gwId'[t] \/ gwId'[v] = Null
    BY <1>1, <1>2, <1>3 DEF SInv, Safe, Owners, Ids, TypeOK
  <2>2. CASE q \in rest
    <3>1. q \in net /\ q.gw <= lastGw /\ q.gw \in Nat
      BY <1>1, <2>2 DEF Stamped, Requests
    <3>2. gwId[u] = gwId'[u]
      BY <1>1, <1>2, <1>3, <3>1
    <3>3. q.tab = u /\ Awaiting(q)
      BY <3>1, <3>2 DEF Free, OwnPlants
    <3>4. CASE u # t
      BY <1>2, <3>3, <3>4 DEF Awaiting
    <3>5. CASE u = t
      <4>1. r.step = q.step /\ r.att = q.att /\ r \in net
        BY <1>1, <3>3, <3>5 DEF Awaiting, SInv, Safe, Owners, Deletes
      <4>2. r.gw = q.gw /\ r.no = q.no
        BY <1>1, <3>1, <3>3, <3>5, <4>1 DEF SInv, Safe, Asks, Awaiting
      <4>3. r = q
        BY <1>1, <3>1, <3>3, <3>5, <4>1, <4>2 DEF Requests
      <4>4. QED
        BY <2>2, <4>3 DEF Handled
    <3>6. QED
      BY <3>4, <3>5
  <2>3. CASE q \notin rest
    <3>1. q.tab = t /\ q.step = pc'[t] /\ q.att = att[t] /\ q.gw = gwId'[t]
      BY <1>2, <2>3
    <3>2. u = t
      BY <2>1, <3>1
    <3>3. QED
      BY <1>2, <3>1, <3>2 DEF Awaiting
  <2>4. QED
    BY <2>2, <2>3
<1>6. ASSUME NEW u \in Tabs, u # t \/ r.step \notin Roles, Swept(u), gwId'[u] # Null,
             UNCHANGED gwId[u]
      PROVE  Swept(u)'
  <2>1. ASSUME NEW p \in plants', p.gw = gwId[u] PROVE p \in plants
    <3>1. CASE r.step \in Roles /\ r \in net /\ p.gw = r.gw
      BY <1>6, <2>1, <3>1 DEF Free, OwnPlants
    <3>2. QED
      BY <2>1, <3>1 DEF Handled
  <2>2. QED
    BY <1>6, <2>1 DEF Swept, Condemned, Handled
<1>7. Sweeping'
  <2> SUFFICES ASSUME NEW q \in deleting', Awaiting(q)', gwId'[q.tab] # Null
               PROVE  Swept(q.tab)'
    BY DEF Sweeping
  <2>1. q \in deleting /\ q.tab \in Tabs /\ q.step \in Deletes
    BY <1>1 DEF Handled, SInv, Safe, Owners, TypeOK, Requests
  <2>2. q.tab # t
    BY <1>2, <1>3, <2>1 DEF Awaiting, Deletes, Stamped
  <2>3. Awaiting(q) /\ UNCHANGED gwId[q.tab]
    BY <1>2, <2>1, <2>2 DEF Awaiting
  <2>4. Swept(q.tab)
    BY <2>1, <2>3 DEF Free, Sweeping
  <2>5. QED
    BY <1>6, <2>1, <2>2, <2>3, <2>4
<1>8. RolledBack'
  <2> SUFFICES ASSUME NEW u \in Tabs, "exists" \in errs'[u], gwId'[u] # Null, pc'[u] # "rollback"
               PROVE  Swept(u)'
    BY DEF RolledBack, Swept
  <2>1. CASE u # t
    <3>1. Swept(u)
      BY <1>2, <2>1 DEF Free, RolledBack, Swept
    <3>2. QED
      BY <1>2, <1>6, <2>1, <3>1
  <2>2. CASE u = t
    <3>1. CASE pc[t] = "rollback"
      <4>1. r \in deleting /\ UNCHANGED gwId[t]
        BY <1>1, <1>3, <3>1 DEF Deletes
      <4>2. Swept(t)
        BY <2>2, <4>1 DEF Free, Sweeping
      <4>3. QED
        BY <1>1, <1>6, <2>2, <3>1, <4>1, <4>2
    <3>2. CASE pc[t] = "restart"
      <4>1. Swept(t)
        BY <1>1, <1>3, <2>2, <3>2 DEF Free, RolledBack, Swept
      <4>2. QED
        BY <1>1, <1>3, <1>6, <2>2, <3>2, <4>1
    <3>3. CASE pc'[t] \in {"control", "uncontrol"}
      BY <1>1, <2>2, <3>3 DEF Stamped
    <3>4. CASE pc[t] = "uncontrol"
      BY <1>1, <1>3, <2>2, <3>4 DEF Stamped
    <3>5. QED
      BY <1>1, <1>3, <2>2, <3>1, <3>2, <3>3, <3>4
  <2>3. QED
    BY <2>1, <2>2
<1>9. QED
  BY <1>4, <1>5, <1>7, <1>8 DEF Free

\* An answer nobody waits for: the saga of its tab was started again.
LEMMA IgnoredFree ==
  ASSUME SInv, Free, faults = 0, NEW r \in net \cup deleting, ~Awaiting(r),
         Handled(r, net'), UNCHANGED tab
  PROVE  Free'
<1>1. UNCHANGED <<pc, att, gwId, errs>>
  BY DEF tab
<1>2. AnswerComes'
  BY <1>1 DEF Free, AnswerComes, Handled, Loading, Awaiting
<1>3. OwnPlants'
  BY <1>1 DEF Free, OwnPlants, Handled, Awaiting
<1>4. ASSUME NEW u \in Tabs, Swept(u), gwId[u] # Null PROVE Swept(u)'
  <2>1. \A p \in plants' : p.gw = gwId[u] => p \in plants
    BY <1>4 DEF Free, OwnPlants, Handled
  <2>2. QED
    BY <1>1, <1>4, <2>1 DEF Swept, Condemned, Handled
<1>5. \A q \in deleting : q.tab \in Tabs
  BY DEF SInv, TInv, TypeOK, Requests
<1>6. Sweeping'
  BY <1>1, <1>4, <1>5 DEF Free, Sweeping, Handled, Awaiting
<1>7. RolledBack'
  <2> SUFFICES ASSUME NEW u \in Tabs, "exists" \in errs[u], gwId[u] # Null, pc[u] # "rollback"
               PROVE  Swept(u)'
    BY <1>1 DEF RolledBack, Swept
  <2>1. Swept(u)
    BY DEF Free, RolledBack, Swept
  <2>2. QED
    BY <1>4, <2>1
<1>8. QED
  BY <1>2, <1>3, <1>6, <1>7 DEF Free

\* The third way to reply is a fault.
LEMMA ReplyFree ==
  ASSUME SInv, Stamped, Stamped', Free, faults = 0, faults' = 0,
         NEW r \in net \cup deleting, r.step \in Deletes => r \in deleting,
         NEW id \in Nat, NEW rest, Handled(r, rest), Reply(r, id, rest),
         r.step = "restart" => id # Null,
         r.step = "gateway" => lastGw < id
  PROVE  Free'
<1>1. CASE ~Awaiting(r) /\ net' = rest /\ UNCHANGED tab
  BY <1>1, IgnoredFree
<1>2. CASE Awaiting(r) /\ Answered(r.tab, id, rest)
  BY <1>2, AnsweredFree
<1>3. QED
  BY <1>1, <1>2 DEF Reply

LEMMA FreeStep ==
  ASSUME SInv, Stamped, Stamped', Free, faults = 0, faults' = 0, [Next]_vars
  PROVE  Free'
<1> USE DEF Roles, Null
<1>0. /\ TypeOK /\ net \cup deleting \subseteq Requests /\ lastGw \in Nat /\ lastGw + 1 \in Nat
      /\ \A q \in deleting : q.step \in Deletes
      /\ \A p \in plants : p \in PlantRows
  BY DEF SInv, TInv, TypeOK, Safe, Owners
<1>1. ASSUME NEW t \in Tabs, Submit(t) PROVE Free'
  <2> DEFINE new == [step |-> "gateway", tab |-> t, att |-> atts + 1, gw |-> Null, no |-> NoNumber]
  <2>1. /\ pc'[t] = "gateway" /\ att'[t] = atts + 1 /\ gwId'[t] = Null /\ errs'[t] = {}
        /\ \A u \in Tabs \ {t} : UNCHANGED <<pc[u], att[u], gwId[u], errs[u]>>
        /\ net' = net \cup {new} /\ UNCHANGED <<plants, doomed, deleting>>
    BY <1>0, <1>1 DEF Submit, TypeOK, db, hooks
  <2>2. AnswerComes'
    <3> SUFFICES ASSUME NEW u \in Tabs, Loading(u)'
                 PROVE  \E q \in net' \cup deleting' : q.tab = u /\ Awaiting(q)'
      BY DEF AnswerComes
    <3>1. CASE u = t
      <4>1. new \in net' /\ new.tab = t /\ new.step = pc'[t] /\ new.att = att'[t]
        BY <2>1
      <4>2. QED
        BY <3>1, <4>1 DEF Awaiting
    <3>2. CASE u # t
      BY <2>1, <3>2 DEF Free, AnswerComes, Loading, Awaiting
    <3>3. QED
      BY <3>1, <3>2
  <2>3. OwnPlants'
    BY <2>1 DEF Free, OwnPlants, Awaiting
  <2>4. Sweeping'
    BY <1>0, <2>1 DEF Free, Sweeping, Swept, Condemned, Awaiting, Requests
  <2>5. RolledBack'
    BY <2>1 DEF Free, RolledBack, Condemned
  <2>6. QED
    BY <2>2, <2>3, <2>4, <2>5 DEF Free
<1>2. ASSUME NEW t \in Tabs, Reload(t) PROVE Free'
  <2>1. /\ pc'[t] = "idle" /\ att'[t] = 0 /\ gwId'[t] = Null /\ errs'[t] = {}
        /\ \A u \in Tabs \ {t} : UNCHANGED <<pc[u], att[u], gwId[u], errs[u]>>
        /\ net \subseteq net' /\ \A q \in net' \ net : q.step = "unmount"
        /\ UNCHANGED <<plants, doomed, deleting>>
    BY <1>0, <1>2 DEF Reload, TypeOK, db, hooks
  <2>2. AnswerComes'
    BY <2>1 DEF Free, AnswerComes, Loading, Awaiting
  <2>3. OwnPlants'
    BY <2>1 DEF Free, OwnPlants, Awaiting
  <2>4. Sweeping'
    BY <1>0, <2>1 DEF Free, Sweeping, Swept, Condemned, Awaiting, Requests
  <2>5. RolledBack'
    BY <2>1 DEF Free, RolledBack, Condemned
  <2>6. QED
    BY <2>2, <2>3, <2>4, <2>5 DEF Free
<1>3. ASSUME NEW t \in Tabs, GiveUp(t) PROVE FALSE
  <2>1. Loading(t)
    BY <1>3
    DEF GiveUp, Answered, GatewayAnswered, ControlAnswered, UncontrolAnswered,
        RollbackAnswered, RestartAnswered, Loading
  <2>2. \E q \in net \cup deleting : Awaiting(q)
    BY <2>1 DEF Free, AnswerComes
  <2>3. faults' = faults + 1
    BY <1>3, <2>2 DEF GiveUp
  <2>4. QED
    BY <2>3
<1>4. ASSUME NEW r \in net, ServeGateway(r) PROVE Free'
  <2>1. /\ Reply(r, lastGw + 1, net \ {r}) /\ r.step = "gateway"
        /\ UNCHANGED <<plants, doomed, deleting>>
    BY <1>4 DEF ServeGateway, hooks
  <2>2. Handled(r, net \ {r})
    BY <2>1 DEF Handled
  <2>3. QED
    BY <1>0, <2>1, <2>2, ReplyFree DEF Deletes
<1>5. ASSUME NEW r \in net, ServePlant(r) PROVE Free'
  <2>1. r.step \in Roles /\ UNCHANGED <<doomed, deleting>> /\ lastPlant + 1 \in Nat
    BY <1>0, <1>5 DEF ServePlant, hooks, TypeOK
  <2>2. CASE AddPlant(r)
    <3>1. Handled(r, net \ {r})
      BY <2>1, <2>2 DEF Handled, AddPlant
    <3>2. QED
      BY <2>1, <2>2, <3>1, ReplyFree DEF AddPlant, Deletes
  <2>3. CASE RefusePlant(r)
    <3>1. Handled(r, net \ {r})
      BY <2>1, <2>3 DEF Handled, RefusePlant
    <3>2. QED
      BY <2>1, <2>3, <3>1, ReplyFree DEF RefusePlant, Deletes
  <2>4. QED
    BY <1>5, <2>2, <2>3 DEF ServePlant
<1>6. ASSUME NEW r \in net, ServeDelete(r) PROVE Free'
  <2>1. /\ r.step \in Deletes /\ net' = net \ {r} /\ deleting' = deleting \cup {r}
        /\ doomed' = doomed \cup {p.id : p \in Condemned(r.gw)}
        /\ UNCHANGED <<plants, pc, att, gwId, errs>>
    BY <1>6 DEF ServeDelete, db, tab
  <2>2. AnswerComes'
    BY <2>1 DEF Free, AnswerComes, Loading, Awaiting
  <2>3. OwnPlants'
    BY <2>1 DEF Free, OwnPlants, Awaiting
  <2>4. \A u \in Tabs : Swept(u) => Swept(u)'
    BY <2>1 DEF Swept, Condemned
  <2>5. Sweeping'
    <3>1. ASSUME Awaiting(r) PROVE Swept(r.tab)'
      <4>1. r.step = "rollback" /\ r.att = att[r.tab]
        BY <1>0, <2>1, <3>1 DEF Awaiting, Deletes, TypeOK, Awaited, Requests
      <4>2. r.gw = gwId[r.tab]
        BY <4>1 DEF Stamped
      <4>3. QED
        BY <2>1, <4>2 DEF Swept, Condemned
    <3>2. \A q \in deleting : q.tab \in Tabs
      BY <1>0 DEF Requests
    <3>3. QED
      BY <2>1, <2>4, <3>1, <3>2 DEF Free, Sweeping, Awaiting
  <2>6. RolledBack'
    BY <2>1, <2>4 DEF Free, RolledBack, Swept
  <2>7. QED
    BY <2>2, <2>3, <2>5, <2>6 DEF Free
<1>7. ASSUME NEW r \in net, ServeRestart(r) PROVE Free'
  <2>1. /\ Reply(r, r.att, net \ {r}) /\ r.step = "restart" /\ r.att # Null /\ r.att \in Nat
        /\ UNCHANGED <<plants, doomed, deleting>>
    BY <1>0, <1>7 DEF ServeRestart, hooks, db, Stamped, Requests
  <2>2. Handled(r, net \ {r})
    BY <2>1 DEF Handled
  <2>3. QED
    BY <2>1, <2>2, ReplyFree DEF Deletes
<1>8. ASSUME NEW r \in deleting, RemoveGateway(r) PROVE Free'
  <2>1. /\ Reply(r, r.gw, net) /\ r.step \in Deletes /\ r.gw \in Nat
        /\ deleting' = deleting \ {r} /\ UNCHANGED <<plants, doomed>>
    BY <1>0, <1>8 DEF RemoveGateway, Requests
  <2>2. Handled(r, net)
    BY <2>1 DEF Handled, Deletes
  <2>3. QED
    BY <2>1, <2>2, ReplyFree DEF Deletes
<1>9. ASSUME NEW i \in doomed, DestroyPlant(i) PROVE Free'
  <2>1. /\ doomed' = doomed \ {i} /\ plants' = {p \in plants : p.id # i}
        /\ UNCHANGED <<net, deleting, pc, att, gwId, errs>>
    BY <1>9 DEF DestroyPlant, tab
  <2>2. \A u \in Tabs : Swept(u) => Swept(u)'
    BY <2>1 DEF Swept, Condemned
  <2>3. \A q \in deleting : q.tab \in Tabs
    BY <1>0 DEF Requests
  <2>4. QED
    BY <2>1, <2>2, <2>3
    DEF Free, OwnPlants, Sweeping, AnswerComes, RolledBack, Swept, Loading, Awaiting
<1>10. ASSUME \/ \E n \in sweeps : SweepLogs(n)
              \/ MasterLoad
              \/ \E p \in polled : StoreTelemetry(p)
              \/ UNCHANGED vars
       PROVE  Free'
  <2>1. UNCHANGED <<net, deleting, doomed, plants, pc, att, gwId, errs>>
    BY <1>10 DEF SweepLogs, MasterLoad, StoreTelemetry, vars, db, hooks, tab
  <2>2. QED
    BY <2>1
    DEF Free, OwnPlants, Sweeping, AnswerComes, RolledBack, Swept, Condemned, Loading, Awaiting
<1>11. ASSUME RestCrash \/ MasterCrash PROVE FALSE
  BY <1>11 DEF RestCrash, MasterCrash
<1>12. QED
  BY <1>1, <1>2, <1>3, <1>4, <1>5, <1>6, <1>7, <1>8, <1>9, <1>10, <1>11 DEF Next, Serve, Hook

\* Faults are counted, so a run without them so far was without them before.
LEMMA FaultsGrow == TypeOK /\ [Next]_vars /\ faults' = 0 => faults = 0
<1> SUFFICES ASSUME TypeOK, [Next]_vars PROVE faults' = faults \/ faults' = faults + 1
  BY DEF TypeOK
<1>1. ASSUME NEW r, NEW id, NEW rest, Reply(r, id, rest)
      PROVE  faults' = faults \/ faults' = faults + 1
  BY <1>1 DEF Reply, counts
<1>2. ASSUME NEW r \in net, \/ ServeGateway(r) \/ ServePlant(r)
                            \/ ServeDelete(r) \/ ServeRestart(r)
      PROVE  faults' = faults \/ faults' = faults + 1
  BY <1>1, <1>2
  DEF ServeGateway, ServePlant, AddPlant, RefusePlant, ServeDelete, ServeRestart, counts
<1>3. ASSUME Hook PROVE faults' = faults \/ faults' = faults + 1
  BY <1>1, <1>3 DEF Hook, RemoveGateway, DestroyPlant, SweepLogs, counts
<1>4. ASSUME \/ \E t \in Tabs : Submit(t) \/ Reload(t) \/ GiveUp(t)
             \/ MasterLoad \/ (\E p \in polled : StoreTelemetry(p))
             \/ RestCrash \/ MasterCrash \/ UNCHANGED vars
      PROVE  faults' = faults \/ faults' = faults + 1
  BY <1>4 DEF Submit, Reload, GiveUp, MasterLoad, StoreTelemetry, RestCrash, MasterCrash,
     vars, counts
<1>5. QED
  BY <1>2, <1>3, <1>4 DEF Next, Serve

LEMMA AttemptsInv == Spec => []AInv
<1>1. Init => AInv
  BY DEF Init, AInv, Stamped, Free, OwnPlants, Sweeping, AnswerComes, RolledBack, Loading, Roles
<1>2. SInv /\ AInv /\ [Next]_vars => AInv'
  <2> SUFFICES ASSUME SInv, AInv, [Next]_vars PROVE AInv'
    OBVIOUS
  <2>1. Stamped'
    BY StampedStep DEF AInv
  <2>2. ASSUME faults' = 0 PROVE Free'
    <3>1. faults = 0
      BY <2>2, FaultsGrow DEF SInv, TInv
    <3>2. QED
      BY <2>1, <2>2, <3>1, FreeStep DEF AInv
  <2>3. QED
    BY <2>1, <2>2 DEF AInv
<1>3. QED
  BY <1>1, <1>2, Safety, PTL DEF Spec

\* As long as nothing fails, no saga waits for an answer that cannot come, and
\* none has thrown: what each saga awaits is on its way or being served, whatever
\* pages were loaded or attempts given up around it.  With the fairness of the
\* server this is why SubmitResolves holds.
THEOREM AnswersCome == Spec => []AnswerComes
<1>1. AInv => AnswerComes
  BY DEF AInv, Free, AnswerComes
<1>2. QED
  BY <1>1, AttemptsInv, PTL

\* As long as nothing fails, the rollback of a failed attempt misses none of its
\* plants: saga.js asks for it after both plants were answered, and gateway.js
\* answers it after the plants were found.
THEOREM RollbacksMissNothing == Spec => []RolledBack
<1>1. AInv => RolledBack
  BY DEF AInv, Free, RolledBack
<1>2. QED
  BY <1>1, AttemptsInv, PTL

=============================================================================
