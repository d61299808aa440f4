------------------------ MODULE Provisioning_proofs -------------------------
(***************************************************************************)
(* Proofs about Provisioning, for any number of tabs, profiles, plant      *)
(* numbers and bounds: type correctness, and that the Plant rows of a      *)
(* ready session stay its own if its tab shares its browser profile with   *)
(* no other, whatever the other tabs share.                                *)
(***************************************************************************)
EXTENDS Provisioning, TLAPS

\* The part of TypeOK that a tab's reaction to an answer can touch.
TabType ==
  /\ net \subseteq Requests
  /\ pc \in [Tabs -> Awaited \cup {"idle", "dead"}]
  /\ att \in [Tabs -> Nat]
  /\ want \in [Tabs -> [Roles -> Numbers]]
  /\ gwId \in [Tabs -> Nat]
  /\ row \in [Tabs -> [Roles -> Nat]]
  /\ form \in [Tabs -> BOOLEAN]
  /\ errs \in [Tabs -> SUBSET {"noWrite", "exists"}]
  /\ store \in [Profiles -> Nat]

\* A plant request carries a number the user typed.
Numbered ==
  /\ \A r \in net : r.step \in Roles => r.no \in PlantNos
  /\ \A t \in Tabs : pc[t] \in {"gateway", "control"} => want[t] \in [Roles -> PlantNos]

TInv == TypeOK /\ Numbered

-----------------------------------------------------------------------------

LEMMA AnsweredType ==
  ASSUME TabType, Numbered, NEW t \in Tabs, NEW id \in Nat, NEW rest,
         rest \subseteq net, Answered(t, id, rest)
  PROVE  TabType' /\ Numbered'
<1> USE ProfileAssumption, NumberAssumption
    DEF TabType, Numbered, Requests, Awaited, Deletes, Roles, Numbers, Null, Request
<1>0. UNCHANGED <<att, want>>
  BY DEF Answered
<1>1. CASE GatewayAnswered(t, id, rest) /\ UNCHANGED form
  BY <1>0, <1>1 DEF GatewayAnswered
<1>2. CASE ControlAnswered(t, id, rest) /\ UNCHANGED form
  BY <1>0, <1>2 DEF ControlAnswered
<1>3. CASE UncontrolAnswered(t, id, rest) /\ UNCHANGED form
  BY <1>0, <1>3 DEF UncontrolAnswered
<1>4. CASE RollbackAnswered(t, rest) /\ UNCHANGED form
  BY <1>0, <1>4 DEF RollbackAnswered
<1>5. CASE RestartAnswered(t, id, rest)
  BY <1>0, <1>5 DEF RestartAnswered
<1>6. QED
  BY <1>1, <1>2, <1>3, <1>4, <1>5 DEF Answered

LEMMA ReplyType ==
  ASSUME TInv, NEW r \in Requests, NEW id \in Nat, NEW rest,
         rest \subseteq net, Reply(r, id, rest)
  PROVE  TabType' /\ Numbered' /\ atts' \in Nat /\ reloads' \in Nat /\ faults' \in Nat
<1>1. TabType /\ Numbered /\ r.tab \in Tabs /\ Null \in Nat
  BY DEF TInv, TypeOK, TabType, Requests, Null
<1>2. CASE ~Awaiting(r) /\ net' = rest /\ UNCHANGED <<tab, counts>>
  BY <1>1, <1>2 DEF TInv, TypeOK, TabType, Numbered, tab, counts
<1>3. CASE Awaiting(r) /\ Answered(r.tab, id, rest) /\ UNCHANGED counts
  BY <1>1, <1>3, AnsweredType DEF TInv, TypeOK, counts
<1>4. CASE /\ Answered(r.tab, Null, rest)
           /\ faults' = faults + 1
           /\ UNCHANGED <<atts, reloads>>
  BY <1>1, <1>4, AnsweredType DEF TInv, TypeOK
<1>5. QED
  BY <1>2, <1>3, <1>4 DEF Reply

LEMMA TInvStep == TInv /\ [Next]_vars => TInv'
<1> SUFFICES ASSUME TInv, [Next]_vars PROVE TInv'
  OBVIOUS
<1> USE NumberAssumption, ProfileAssumption DEF Forms
<1>0. TypeOK /\ Numbered
  BY DEF TInv
<1>1. ASSUME NEW t \in Tabs, Submit(t) PROVE TInv'
  <2>1. TypeOK'
    BY <1>0, <1>1 DEF Submit, TypeOK, Requests, Awaited, Deletes, Roles, Numbers, Null,
       db, hooks, master
  <2>2. Numbered'
    BY <1>0, <1>1 DEF Submit, TypeOK, Numbered, Roles
  <2>3. QED
    BY <2>1, <2>2 DEF TInv
<1>2. ASSUME NEW t \in Tabs, Reload(t) PROVE TInv'
  <2>1. TypeOK'
    BY <1>0, <1>2 DEF Reload, TypeOK, Requests, Awaited, Deletes, Roles, Numbers, Null,
       db, hooks, master
  <2>2. Numbered'
    BY <1>0, <1>2 DEF Reload, TypeOK, Numbered, Roles
  <2>3. QED
    BY <2>1, <2>2 DEF TInv
<1>3. ASSUME NEW t \in Tabs, GiveUp(t) PROVE TInv'
  <2>1. TabType /\ Null \in Nat /\ Answered(t, Null, net)
    BY <1>0, <1>3 DEF TypeOK, TabType, GiveUp, Null
  <2>2. TabType' /\ Numbered'
    BY <1>0, <2>1, AnsweredType
  <2>3. QED
    BY <1>0, <1>3, <2>2 DEF TInv, TypeOK, TabType, GiveUp, db, hooks, master
<1>4. ASSUME NEW r \in net, ServeGateway(r) PROVE TInv'
  <2>1. r \in Requests /\ lastGw + 1 \in Nat /\ net \ {r} \subseteq net
    BY <1>0 DEF TypeOK
  <2>2. TabType' /\ Numbered' /\ atts' \in Nat /\ reloads' \in Nat /\ faults' \in Nat
    BY <1>4, <2>1, ReplyType DEF ServeGateway
  <2>3. QED
    BY <1>0, <1>4, <2>1, <2>2 DEF TInv, TypeOK, TabType, ServeGateway, hooks, master
<1>5. ASSUME NEW r \in net, ServePlant(r) PROVE TInv'
  <2>1. /\ r \in Requests /\ lastPlant + 1 \in Nat \ {Null} /\ Null \in Nat
        /\ net \ {r} \subseteq net /\ r.no \in PlantNos /\ r.gw \in Nat
    BY <1>0, <1>5 DEF TypeOK, Numbered, ServePlant, Requests, Null
  <2>2. TabType' /\ Numbered' /\ atts' \in Nat /\ reloads' \in Nat /\ faults' \in Nat
    BY <1>5, <2>1, ReplyType DEF ServePlant, AddPlant, RefusePlant
  <2>3. plants' \subseteq PlantRows /\ lastPlant' \in Nat
    BY <1>0, <1>5, <2>1 DEF TypeOK, ServePlant, AddPlant, RefusePlant, PlantRows
  <2>4. QED
    BY <1>0, <1>5, <2>2, <2>3 DEF TInv, TypeOK, TabType, ServePlant, hooks, master
<1>6. ASSUME NEW r \in net, ServeDelete(r) PROVE TInv'
  <2>1. {p.id : p \in Condemned(r.gw)} \subseteq Nat
    BY <1>0 DEF TypeOK, Condemned, PlantRows
  <2>2. QED
    BY <1>0, <1>6, <2>1 DEF TInv, TypeOK, Numbered, ServeDelete, db, master, tab, counts
<1>7. ASSUME NEW r \in net, ServeRestart(r) PROVE TInv'
  <2>1. r \in Requests /\ r.att \in Nat /\ net \ {r} \subseteq net
    BY <1>0 DEF TypeOK, Requests
  <2>2. TabType' /\ Numbered' /\ atts' \in Nat /\ reloads' \in Nat /\ faults' \in Nat
    BY <1>7, <2>1, ReplyType DEF ServeRestart
  <2>3. QED
    BY <1>0, <1>7, <2>2 DEF TInv, TypeOK, TabType, ServeRestart, db, hooks
<1>8. ASSUME NEW r \in deleting, RemoveGateway(r) PROVE TInv'
  <2>1. r \in Requests /\ r.gw \in Nat
    BY <1>0 DEF TypeOK, Requests
  <2>2. TabType' /\ Numbered' /\ atts' \in Nat /\ reloads' \in Nat /\ faults' \in Nat
    BY <1>8, <2>1, ReplyType DEF RemoveGateway
  <2>3. QED
    BY <1>0, <1>8, <2>2 DEF TInv, TypeOK, TabType, RemoveGateway, master
<1>9. ASSUME NEW i \in doomed, DestroyPlant(i) PROVE TInv'
  BY <1>0, <1>9 DEF TInv, TypeOK, Numbered, DestroyPlant, master, tab, counts
<1>10. ASSUME NEW n \in sweeps, SweepLogs(n) PROVE TInv'
  BY <1>0, <1>10 DEF TInv, TypeOK, Numbered, SweepLogs, db, master, tab, counts, Null
<1>11. CASE MasterLoad
  BY <1>0, <1>11 DEF TInv, TypeOK, Numbered, MasterLoad, db, hooks, tab, counts
<1>12. ASSUME NEW p \in polled, StoreTelemetry(p) PROVE TInv'
  <2>1. p.id \in Nat
    BY <1>0 DEF TypeOK, PlantRows
  <2>2. QED
    BY <1>0, <1>12, <2>1
    DEF TInv, TypeOK, Numbered, StoreTelemetry, db, hooks, master, tab, counts
<1>13. CASE RestCrash
  BY <1>0, <1>13 DEF TInv, TypeOK, Numbered, RestCrash, db, master, tab
<1>14. CASE MasterCrash
  <2>1. TypeOK'
    <3>1. loaded' = FALSE /\ polled' = {}
      BY <1>14 DEF MasterCrash
    <3>2. loaded' \in BOOLEAN /\ polled' \subseteq PlantRows
      BY <3>1
    <3>3. faults' \in Nat
      BY <1>0, <1>14 DEF TypeOK, MasterCrash
    <3>4. UNCHANGED <<db, hooks, logOf, net, tab, atts, reloads>>
      BY <1>14 DEF MasterCrash
    <3>5. QED
      BY <1>0, <3>2, <3>3, <3>4 DEF TypeOK, db, hooks, tab
  <2>2. Numbered'
    BY <1>0, <1>14 DEF Numbered, MasterCrash, tab
  <2>3. QED
    BY <2>1, <2>2 DEF TInv
<1>15. CASE UNCHANGED vars
  BY <1>0, <1>15
  DEF TInv, TypeOK, Numbered, vars, db, hooks, master, tab, counts
<1>16. QED
  BY <1>1, <1>2, <1>3, <1>4, <1>5, <1>6, <1>7, <1>8, <1>9, <1>10, <1>11, <1>12,
     <1>13, <1>14, <1>15 DEF Next, Serve, Hook

LEMMA TInvInit == Init => TInv
  BY NumberAssumption DEF Init, TInv, TypeOK, Numbered, Awaited, Deletes, Roles, Numbers,
     Null, Requests, PlantRows

\* Type correctness: ids stay numbers and the requests stay requests, whatever
\* order answers, reloads and crashes come in.
THEOREM TypeCorrect == Spec => []TypeOK
<1>1. TInv => TypeOK
  BY DEF TInv
<1>2. QED
  BY <1>1, TInvInit, TInvStep, PTL DEF Spec

-----------------------------------------------------------------------------
(* The safety of ready sessions.  A tab is in possession of its gateway    *)
(* from the moment it submits the form until one of its plants is refused; *)
(* if no other page can forget the gateway for it, nobody asks for that    *)
(* gateway to be deleted as long as it is, so its plants stay.             *)

Holding(t) ==
  \/ pc[t] \in {"gateway", "control", "uncontrol"}
  \/ \A role \in Roles : row[t][role] # Null

\* Ids are handed out once, and plantNo is unique.
PlantIds ==
  /\ \A p \in plants : p.id <= lastPlant
  /\ \A p, q \in plants : p.id = q.id \/ p.no = q.no => p = q

Ids ==
  /\ PlantIds
  /\ \A i \in doomed : i <= lastPlant
  /\ \A t \in Tabs, role \in Roles : row[t][role] <= lastPlant
  /\ \A t \in Tabs : gwId[t] <= lastGw /\ att[t] <= atts
  /\ \A b \in Profiles : store[b] <= lastGw

\* Whom a gateway id belongs to.
Owners ==
  /\ \A t, u \in Tabs : t # u /\ gwId[t] = gwId[u] => gwId[t] = Null
  /\ \A t \in Tabs, b \in Profiles :
       store[b] = gwId[t] /\ gwId[t] # Null => b = ProfileOf[t]
  /\ \A r \in deleting : r.step \in Deletes
  /\ \A r \in net : r.step \in Deletes =>
       /\ r.gw # Null /\ r.gw <= lastGw
       /\ \A t \in Tabs : Sole(t) /\ Holding(t) => r.gw # gwId[t]

\* A plant request still awaited asks for what its tab's attempt wants.
Asks ==
  /\ \A r \in net : r.step \in Roles =>
       /\ r.att # 0 /\ r.att <= atts
       /\ r.att = att[r.tab] =>
            /\ pc[r.tab] # "gateway"
            /\ r.gw = gwId[r.tab] /\ r.no = want[r.tab][r.step]
  /\ \A t \in Tabs : pc[t] \in Awaited => att[t] # 0

\* A tab that holds its gateway has the plants it has been given.
Rows ==
  /\ \A t \in Tabs, role \in Roles : Sole(t) /\ Holding(t) /\ row[t][role] # Null =>
       \E p \in plants : /\ p.id = row[t][role] /\ p.no = want[t][role]
                         /\ p.gw = gwId[t] /\ p.id \notin doomed
  /\ \A t, u \in Tabs, r1, r2 \in Roles :
       row[t][r1] = row[u][r2] /\ row[t][r1] # Null => t = u /\ r1 = r2
  /\ \A t \in Tabs : pc[t] \in {"gateway", "control"} => row[t]["uncontrol"] = Null
  /\ \A t \in Tabs : pc[t] = "gateway" => row[t]["control"] = Null
  /\ \A t \in Tabs : Ready(t) =>
       pc[t] = "idle" /\ \A role \in Roles : row[t][role] # Null

Safe == Ids /\ Owners /\ Asks /\ Rows /\ ReadyIsPolled
SInv == TInv /\ Safe

\* What the server's side of a step that answers a tab may do to the tables.
Served ==
  /\ plants \subseteq plants' /\ PlantIds'
  /\ UNCHANGED <<doomed, atts>> /\ deleting' \subseteq deleting
  /\ lastPlant' \in Nat /\ lastPlant <= lastPlant'
  /\ lastGw' \in Nat /\ lastGw <= lastGw'
  /\ loaded' = FALSE \/ UNCHANGED <<loaded, polled>>

\* An id the tab is given is a new one, and stands for what it asked for.
Granted(t, id) ==
  /\ pc[t] = "gateway" => id = Null \/ (lastGw < id /\ id <= lastGw')
  /\ pc[t] \in Roles => id = Null \/
       /\ lastPlant < id /\ id <= lastPlant'
       /\ \E p \in plants' : p.id = id /\ p.no = want[t][pc[t]] /\ p.gw = gwId[t]
  /\ pc[t] = "restart" => id = Null \/ loaded' = FALSE

\* Sessions that were ready before, with the same rows, are still polled.
LEMMA PolledKept ==
  ASSUME ReadyIsPolled, loaded' = FALSE \/ UNCHANGED <<loaded, polled>>,
         \A t \in Tabs : Ready(t)' => Ready(t) /\ UNCHANGED row[t]
  PROVE  ReadyIsPolled'
<1>1. CASE loaded' = FALSE
  BY <1>1 DEF ReadyIsPolled
<1>2. CASE UNCHANGED <<loaded, polled>>
  BY <1>2 DEF ReadyIsPolled
<1>3. QED
  BY <1>1, <1>2

LEMMA AnsweredSafe ==
  ASSUME SInv, NEW t \in Tabs, NEW id \in Nat, NEW rest, rest \subseteq net,
         Answered(t, id, rest), Served, Granted(t, id)
  PROVE  Safe'
<1> USE DEF Roles, Null
<1>0. TypeOK /\ Ids /\ Owners /\ Asks /\ Rows /\ ReadyIsPolled
  BY DEF SInv, Safe, TInv
<1>1. UNCHANGED <<att, want>> /\ att[t] \in Nat /\ atts \in Nat /\ ProfileOf[t] \in Profiles
  BY <1>0, ProfileAssumption DEF Answered, TypeOK
<1>2. CASE GatewayAnswered(t, id, rest) /\ UNCHANGED form
  <2>1. Ids'
    BY <1>0, <1>1, <1>2 DEF GatewayAnswered, Ids, TypeOK, Served, Granted
  <2>2. Owners'
    BY <1>0, <1>1, <1>2
    DEF GatewayAnswered, Owners, Ids, Holding, TypeOK, Served, Granted, Request, Deletes,
        Requests
  <2>3. Asks'
    BY <1>0, <1>1, <1>2
    DEF GatewayAnswered, Asks, Ids, TypeOK, Request, Requests, Awaited, Served
  <2>4. Rows'
    <3>1. \A role \in Roles : row[t][role] = Null
      BY <1>0, <1>2 DEF GatewayAnswered, Rows
    <3>2. UNCHANGED <<row, form, doomed>> /\ \A u \in Tabs \ {t} : UNCHANGED <<pc[u], gwId[u]>>
      BY <1>0, <1>2 DEF GatewayAnswered, TypeOK, Served
    <3>3. \A u \in Tabs \ {t} : Holding(u)' = Holding(u)
      BY <3>2 DEF Holding
    <3>4. pc[t] = "gateway" /\ pc'[t] = "control"
      BY <1>0, <1>2 DEF GatewayAnswered, TypeOK
    <3>5. QED
      BY <1>0, <1>1, <3>1, <3>2, <3>3, <3>4 DEF Rows, Ready, Served
  <2>5. ReadyIsPolled'
    <3>1. \A u \in Tabs : Ready(u)' => Ready(u) /\ UNCHANGED row[u]
      BY <1>0, <1>2 DEF GatewayAnswered, Rows, Ready, TypeOK
    <3>2. QED
      BY <1>0, <3>1, PolledKept DEF Served
  <2>6. QED
    BY <2>1, <2>2, <2>3, <2>4, <2>5 DEF Safe
<1>3. CASE ControlAnswered(t, id, rest) /\ UNCHANGED form
  <2>1. Ids'
    BY <1>0, <1>1, <1>3 DEF ControlAnswered, Ids, TypeOK, Served, Granted
  <2>2. Owners'
    BY <1>0, <1>1, <1>3
    DEF ControlAnswered, Owners, Ids, Holding, TypeOK, Served, Request, Deletes, Requests
  <2>3. Asks'
    BY <1>0, <1>1, <1>3
    DEF ControlAnswered, Asks, Ids, TypeOK, Request, Requests, Awaited, Served
  <2>4. Rows'
    BY <1>0, <1>1, <1>3
    DEF ControlAnswered, Rows, Ids, Holding, TypeOK, Ready, Served, Granted
  <2>5. ReadyIsPolled'
    <3>1. \A u \in Tabs : Ready(u)' => Ready(u) /\ UNCHANGED row[u]
      BY <1>0, <1>3 DEF ControlAnswered, Rows, Ready, TypeOK
    <3>2. QED
      BY <1>0, <3>1, PolledKept DEF Served
  <2>6. QED
    BY <2>1, <2>2, <2>3, <2>4, <2>5 DEF Safe
<1>4. CASE UncontrolAnswered(t, id, rest) /\ UNCHANGED form
  <2>1. Ids'
    BY <1>0, <1>1, <1>4 DEF UncontrolAnswered, Ids, TypeOK, Served, Granted
  <2>2. Owners'
    BY <1>0, <1>1, <1>4
    DEF UncontrolAnswered, Owners, Ids, Holding, TypeOK, Served, Request, Deletes, Requests
  <2>3. Asks'
    BY <1>0, <1>1, <1>4
    DEF UncontrolAnswered, Asks, Ids, TypeOK, Request, Requests, Awaited, Served
  <2>4. Rows'
    <3>1. /\ pc[t] = "uncontrol" /\ pc'[t] \in {"rollback", "restart"}
          /\ UNCHANGED <<gwId, form, doomed>>
          /\ row'[t]["control"] = row[t]["control"] /\ row'[t]["uncontrol"] = id
          /\ \A u \in Tabs \ {t} : UNCHANGED <<pc[u], row[u]>>
      BY <1>0, <1>4 DEF UncontrolAnswered, TypeOK, Served
    <3>2. \A u \in Tabs \ {t} : Holding(u)' = Holding(u)
      BY <3>1 DEF Holding
    <3>3. id = Null \/ (lastPlant < id /\
            \E p \in plants' : p.id = id /\ p.no = want[t]["uncontrol"] /\ p.gw = gwId[t])
      BY <3>1 DEF Granted
    <3>4. \A i \in doomed : i <= lastPlant /\ i \in Nat
      BY <1>0 DEF Ids, TypeOK
    <3>5. \A u \in Tabs, role \in Roles : row[u][role] \in Nat /\ row[u][role] <= lastPlant
      BY <1>0 DEF Ids, TypeOK
    <3>6. Holding(t)
      BY <3>1 DEF Holding
    <3>7. ASSUME NEW u \in Tabs, NEW role \in Roles, Sole(u), Holding(u)', row'[u][role] # Null
          PROVE  \E p \in plants' : /\ p.id = row'[u][role] /\ p.no = want[u][role]
                                    /\ p.gw = gwId[u] /\ p.id \notin doomed
      <4>1. CASE u # t \/ role = "control"
        BY <1>0, <3>1, <3>2, <3>6, <3>7, <4>1 DEF Rows, Served
      <4>2. CASE u = t /\ role = "uncontrol"
        <5>1. lastPlant \in Nat /\ id # Null
          BY <1>0, <3>1, <3>7, <4>2 DEF TypeOK
        <5>2. PICK p \in plants' : p.id = id /\ p.no = want[t]["uncontrol"] /\ p.gw = gwId[t]
          BY <3>3, <5>1
        <5>3. p.id \notin doomed
          BY <3>3, <3>4, <5>1, <5>2
        <5>4. QED
          BY <3>1, <4>2, <5>2, <5>3
      <4>3. QED
        BY <4>1, <4>2
    <3>8. ASSUME NEW u \in Tabs, NEW v \in Tabs, NEW r1 \in Roles, NEW r2 \in Roles,
                 row'[u][r1] = row'[v][r2], row'[u][r1] # Null
          PROVE  u = v /\ r1 = r2
      <4>1. \A w \in Tabs, role \in Roles : w # t \/ role = "control" =>
               /\ row'[w][role] = row[w][role] /\ row'[w][role] \in Nat
               /\ row'[w][role] <= lastPlant
        BY <3>1, <3>5
      <4>2. lastPlant \in Nat
        BY <1>0 DEF TypeOK
      <4>3. QED
        BY <1>0, <3>1, <3>3, <3>8, <4>1, <4>2 DEF Rows
    <3>9. \A u \in Tabs : Ready(u)' =>
             pc'[u] = "idle" /\ \A role \in Roles : row'[u][role] # Null
      BY <1>0, <3>1 DEF Rows, Ready
    <3>10. \A u \in Tabs :
             /\ pc'[u] \in {"gateway", "control"} => row'[u]["uncontrol"] = Null
             /\ pc'[u] = "gateway" => row'[u]["control"] = Null
      BY <1>0, <3>1 DEF Rows
    <3>11. QED
      BY <1>1, <3>1, <3>7, <3>8, <3>9, <3>10 DEF Rows
  <2>5. ReadyIsPolled'
    <3>1. \A u \in Tabs : Ready(u)' => Ready(u) /\ UNCHANGED row[u]
      BY <1>0, <1>4 DEF UncontrolAnswered, Rows, Ready, TypeOK
    <3>2. QED
      BY <1>0, <3>1, PolledKept DEF Served
  <2>6. QED
    BY <2>1, <2>2, <2>3, <2>4, <2>5 DEF Safe
<1>5. CASE RollbackAnswered(t, rest) /\ UNCHANGED form
  <2>1. Ids'
    BY <1>0, <1>1, <1>5 DEF RollbackAnswered, Ids, TypeOK, Served
  <2>2. Owners'
    BY <1>0, <1>1, <1>5
    DEF RollbackAnswered, Owners, Ids, Holding, TypeOK, Served, Request, Deletes, Requests
  <2>3. Asks'
    BY <1>0, <1>1, <1>5
    DEF RollbackAnswered, Asks, Ids, TypeOK, Request, Requests, Awaited, Served
  <2>4. Rows'
    BY <1>0, <1>1, <1>5
    DEF RollbackAnswered, Rows, Holding, TypeOK, Ready, Served
  <2>5. ReadyIsPolled'
    <3>1. \A u \in Tabs : Ready(u)' => Ready(u) /\ UNCHANGED row[u]
      BY <1>0, <1>5 DEF RollbackAnswered, Rows, Ready, TypeOK
    <3>2. QED
      BY <1>0, <3>1, PolledKept DEF Served
  <2>6. QED
    BY <2>1, <2>2, <2>3, <2>4, <2>5 DEF Safe
<1>6. CASE RestartAnswered(t, id, rest)
  <2>1. Ids'
    BY <1>0, <1>1, <1>6 DEF RestartAnswered, Ids, TypeOK, Served
  <2>2. Owners'
    BY <1>0, <1>1, <1>6
    DEF RestartAnswered, Owners, Ids, Holding, TypeOK, Served, Deletes, Requests
  <2>3. Asks'
    BY <1>0, <1>1, <1>6
    DEF RestartAnswered, Asks, Ids, TypeOK, Requests, Awaited, Served
  <2>4. Rows'
    BY <1>0, <1>1, <1>6
    DEF RestartAnswered, Rows, Holding, TypeOK, Ready, Served
  <2>5. ReadyIsPolled'
    <3>1. CASE id = Null
      <4>1. \A u \in Tabs : Ready(u)' => Ready(u) /\ UNCHANGED row[u]
        BY <1>0, <1>6, <3>1 DEF RestartAnswered, Ready, TypeOK
      <4>2. QED
        BY <1>0, <4>1, PolledKept DEF Served
    <3>2. CASE id # Null
      <4>1. loaded' = FALSE
        BY <1>6, <3>2 DEF RestartAnswered, Granted
      <4>2. QED
        BY <4>1 DEF ReadyIsPolled
    <3>3. QED
      BY <3>1, <3>2
  <2>6. QED
    BY <2>1, <2>2, <2>3, <2>4, <2>5 DEF Safe
<1>7. QED
  BY <1>2, <1>3, <1>4, <1>5, <1>6 DEF Answered

\* A step that concerns no tab: answers get lost, tables grow.
LEMMA QuietSafe ==
  ASSUME SInv, UNCHANGED tab, net' \subseteq net, Served
  PROVE  Safe'
<1>0. TypeOK /\ Ids /\ Owners /\ Asks /\ Rows /\ ReadyIsPolled
  BY DEF SInv, Safe, TInv
<1>1. UNCHANGED <<pc, att, want, gwId, row, form, store>>
  BY DEF tab
<1>2. \A t \in Tabs : /\ Holding(t)' = Holding(t) /\ UNCHANGED row[t]
                      /\ Ready(t)' => Ready(t)
  BY <1>1 DEF Holding, Ready
<1>3. Ids'
  BY <1>0, <1>1 DEF Ids, Served, TypeOK, Roles
<1>4. Owners'
  BY <1>0, <1>1, <1>2 DEF Owners, Served, TypeOK, Requests
<1>5. Asks'
  BY <1>0, <1>1 DEF Asks, Served
<1>6. Rows'
  BY <1>0, <1>1, <1>2 DEF Rows, Served, Ready
<1>7. ReadyIsPolled'
  BY <1>0, <1>2, PolledKept DEF Served
<1>8. QED
  BY <1>3, <1>4, <1>5, <1>6, <1>7 DEF Safe

LEMMA ReplySafe ==
  ASSUME SInv, NEW r \in Requests, NEW id \in Nat, NEW rest, rest \subseteq net,
         Reply(r, id, rest), Served, Awaiting(r) => Granted(r.tab, id)
  PROVE  Safe'
<1>1. r.tab \in Tabs /\ Null \in Nat
  BY DEF Requests, Null
<1>2. CASE ~Awaiting(r) /\ net' = rest /\ UNCHANGED <<tab, counts>>
  BY <1>2, QuietSafe
<1>3. CASE Awaiting(r) /\ Answered(r.tab, id, rest) /\ UNCHANGED counts
  BY <1>1, <1>3, AnsweredSafe
<1>4. CASE Awaiting(r) /\ Answered(r.tab, Null, rest)
  <2>1. Granted(r.tab, Null)
    BY DEF Granted
  <2>2. QED
    BY <1>1, <1>4, <2>1, AnsweredSafe
<1>5. QED
  BY <1>2, <1>3, <1>4 DEF Reply

\* The first part of Rows, which deletes and crashes might break.
RowsKept ==
  \A t \in Tabs, role \in Roles : Sole(t) /\ Holding(t) /\ row[t][role] # Null =>
    \E p \in plants : /\ p.id = row[t][role] /\ p.no = want[t][role]
                      /\ p.gw = gwId[t] /\ p.id \notin doomed

\* A tab that starts again has no rows: the others' stay as they are.
LEMMA RowsForgotten ==
  ASSUME Rows, NEW t \in Tabs, UNCHANGED <<plants, doomed>>,
         \A role \in Roles : row'[t][role] = Null, ~Ready(t)',
         \A u \in Tabs \ {t} : UNCHANGED <<pc[u], want[u], gwId[u], row[u], form[u]>>
  PROVE  Rows'
<1> USE DEF Roles, Null
<1>1. \A u \in Tabs \ {t} : Holding(u)' = Holding(u) /\ Ready(u)' = Ready(u)
  BY DEF Holding, Ready
<1>2. ASSUME NEW u \in Tabs, NEW role \in Roles, Sole(u), Holding(u)', row'[u][role] # Null
      PROVE  \E p \in plants : /\ p.id = row'[u][role] /\ p.no = want'[u][role]
                               /\ p.gw = gwId'[u] /\ p.id \notin doomed
  <2>1. u \in Tabs \ {t}
    BY <1>2
  <2>2. QED
    BY <1>1, <1>2, <2>1 DEF Rows
<1>3. ASSUME NEW u \in Tabs, NEW v \in Tabs, NEW r1 \in Roles, NEW r2 \in Roles,
             row'[u][r1] = row'[v][r2], row'[u][r1] # Null
      PROVE  u = v /\ r1 = r2
  <2>1. u \in Tabs \ {t} /\ v \in Tabs \ {t}
    BY <1>3
  <2>2. QED
    BY <1>3, <2>1 DEF Rows
<1>4. ASSUME NEW u \in Tabs
      PROVE  /\ pc'[u] \in {"gateway", "control"} => row'[u]["uncontrol"] = Null
             /\ pc'[u] = "gateway" => row'[u]["control"] = Null
             /\ Ready(u)' => pc'[u] = "idle" /\ \A role \in Roles : row'[u][role] # Null
  BY <1>1 DEF Rows
<1>5. QED
  BY <1>2, <1>3, <1>4 DEF Rows

\* Starting an attempt: nothing is owned yet, and its number is new.
LEMMA SubmitSafe ==
  ASSUME SInv, NEW t \in Tabs, Submit(t)
  PROVE  Safe'
<1> USE DEF Roles, Null
<1>0. TypeOK /\ Ids /\ Owners /\ Asks /\ Rows /\ ReadyIsPolled
  BY DEF SInv, Safe, TInv
<1>1. UNCHANGED <<plants, lastPlant, lastGw, doomed, deleting, loaded, polled, form, store>>
  BY DEF Submit, db, hooks, master
<1>2. Ids'
  BY <1>0, <1>1 DEF Submit, Ids, PlantIds, TypeOK
<1>3. Owners'
  BY <1>0, <1>1 DEF Submit, Owners, Ids, Holding, TypeOK, Deletes, Requests
<1>4. Asks'
  BY <1>0, <1>1 DEF Submit, Asks, Ids, TypeOK, Requests, Awaited
<1>5. Rows'
  <2>1. \A role \in Roles : row'[t][role] = Null
    BY <1>0 DEF Submit, TypeOK
  <2>2. ~Ready(t)'
    BY <1>1 DEF Submit, Ready
  <2>3. \A u \in Tabs \ {t} : UNCHANGED <<pc[u], want[u], gwId[u], row[u], form[u]>>
    BY <1>0, <1>1 DEF Submit, TypeOK
  <2>4. QED
    BY <1>0, <1>1, <2>1, <2>2, <2>3, RowsForgotten
<1>6. ReadyIsPolled'
  <2>1. \A u \in Tabs : Ready(u)' => Ready(u) /\ UNCHANGED row[u]
    BY <1>0, <1>1 DEF Submit, Ready, TypeOK
  <2>2. QED
    BY <1>0, <1>1, <2>1, PolledKept
<1>7. QED
  BY <1>2, <1>3, <1>4, <1>5, <1>6 DEF Safe

\* Loading the page gives the remembered gateway up: no tab of another browser
\* has it, and a tab of this browser that does is not the only one.
LEMMA ReloadSafe ==
  ASSUME SInv, NEW t \in Tabs, Reload(t)
  PROVE  Safe'
<1> USE DEF Roles, Null
<1>0. TypeOK /\ Ids /\ Owners /\ Asks /\ Rows /\ ReadyIsPolled
  BY DEF SInv, Safe, TInv
<1>1. UNCHANGED <<plants, lastPlant, lastGw, doomed, deleting, loaded, polled, atts>>
  BY DEF Reload, db, hooks, master
<1>2. ProfileOf[t] \in Profiles
  BY ProfileAssumption
<1>3. Ids'
  BY <1>0, <1>1, <1>2 DEF Reload, Ids, PlantIds, TypeOK
<1>4. Owners'
  <2>1. ~Holding(t)' /\ gwId'[t] = Null /\ store'[ProfileOf[t]] = Null
    BY <1>0, <1>2 DEF Reload, Holding, TypeOK
  <2>2. /\ \A u \in Tabs \ {t} : UNCHANGED <<pc[u], row[u], gwId[u]>>
        /\ \A b \in Profiles \ {ProfileOf[t]} : UNCHANGED store[b]
    BY <1>0, <1>2 DEF Reload, TypeOK
  <2>3. \A u \in Tabs \ {t} : Holding(u)' = Holding(u)
    BY <2>2 DEF Holding
  <2>4. ASSUME NEW r \in net', r.step \in Deletes
        PROVE  /\ r.gw # Null /\ r.gw <= lastGw
               /\ \A u \in Tabs : Sole(u) /\ Holding(u)' => r.gw # gwId'[u]
    <3>1. CASE r \in net
      BY <1>0, <2>1, <2>2, <2>3, <2>4, <3>1 DEF Owners
    <3>2. CASE r \notin net
      <4>1. r.gw = store[ProfileOf[t]] /\ r.gw # Null
        BY <2>4, <3>2 DEF Reload
      <4>2. \A u \in Tabs \ {t} : Sole(u) => gwId[u] # store[ProfileOf[t]]
        BY <1>0, <1>2, <4>1 DEF Owners, Sole
      <4>3. QED
        BY <1>0, <1>2, <2>1, <2>2, <4>1, <4>2 DEF Ids
    <3>3. QED
      BY <3>1, <3>2
  <2>5. QED
    BY <1>0, <1>1, <1>2, <2>1, <2>2, <2>4 DEF Owners
<1>5. Asks'
  BY <1>0, <1>1 DEF Reload, Asks, TypeOK, Requests, Awaited
<1>6. Rows'
  <2>1. \A role \in Roles : row'[t][role] = Null
    BY <1>0 DEF Reload, TypeOK
  <2>2. ~Ready(t)'
    BY <1>0 DEF Reload, Ready, TypeOK
  <2>3. \A u \in Tabs \ {t} : UNCHANGED <<pc[u], want[u], gwId[u], row[u], form[u]>>
    BY <1>0 DEF Reload, TypeOK
  <2>4. QED
    BY <1>0, <1>1, <2>1, <2>2, <2>3, RowsForgotten
<1>7. ReadyIsPolled'
  <2>1. \A u \in Tabs : Ready(u)' => Ready(u) /\ UNCHANGED row[u]
    BY <1>0, <1>1 DEF Reload, Ready, TypeOK
  <2>2. QED
    BY <1>0, <1>1, <2>1, PolledKept
<1>8. QED
  BY <1>3, <1>4, <1>5, <1>6, <1>7 DEF Safe

LEMMA HookSafe ==
  ASSUME SInv, UNCHANGED <<tab, atts, lastPlant, lastGw>>, net' \subseteq net,
         plants' \subseteq plants, \A i \in doomed' : i <= lastPlant,
         \A r \in deleting' : r.step \in Deletes, RowsKept', ReadyIsPolled'
  PROVE  Safe'
<1>0. TypeOK /\ Ids /\ Owners /\ Asks /\ Rows
  BY DEF SInv, Safe, TInv
<1>1. UNCHANGED <<pc, att, want, gwId, row, form, store>>
  BY DEF tab
<1>2. \A t \in Tabs : Holding(t)' = Holding(t) /\ Ready(t)' = Ready(t)
  BY <1>1 DEF Holding, Ready
<1>3. Ids'
  BY <1>0, <1>1 DEF Ids, PlantIds
<1>4. Owners'
  BY <1>0, <1>1, <1>2 DEF Owners
<1>5. Asks'
  BY <1>0, <1>1 DEF Asks
<1>6. Rows'
  BY <1>0, <1>1, <1>2 DEF Rows, RowsKept, Ready
<1>7. QED
  BY <1>3, <1>4, <1>5, <1>6 DEF Safe

LEMMA SafeStep == SInv /\ [Next]_vars => Safe'
<1> SUFFICES ASSUME SInv, [Next]_vars PROVE Safe'
  OBVIOUS
<1>0. TypeOK /\ Numbered /\ Ids /\ Owners /\ Asks /\ Rows /\ ReadyIsPolled
  BY DEF SInv, Safe, TInv
<1>1. ASSUME NEW t \in Tabs, Submit(t) PROVE Safe'
  BY <1>1, SubmitSafe
<1>2. ASSUME NEW t \in Tabs, Reload(t) PROVE Safe'
  BY <1>2, ReloadSafe
<1>3. ASSUME NEW t \in Tabs, GiveUp(t) PROVE Safe'
  <2>1. Answered(t, Null, net) /\ Null \in Nat /\ Granted(t, Null)
    BY <1>3 DEF GiveUp, Null, Granted
  <2>2. Served
    BY <1>0, <1>3 DEF GiveUp, Served, db, hooks, master, TypeOK, Ids, PlantIds
  <2>3. QED
    BY <2>1, <2>2, AnsweredSafe
<1>4. ASSUME NEW r \in net, ServeGateway(r) PROVE Safe'
  <2>1. r \in Requests /\ lastGw \in Nat /\ lastGw + 1 \in Nat /\ net \ {r} \subseteq net
    BY <1>0 DEF TypeOK
  <2>2. Reply(r, lastGw + 1, net \ {r}) /\ UNCHANGED atts
    BY <1>4 DEF ServeGateway, Reply, counts
  <2>3. Served
    BY <1>0, <1>4, <2>2 DEF ServeGateway, Served, hooks, master, TypeOK, Ids, PlantIds
  <2>4. Awaiting(r) => Granted(r.tab, lastGw + 1)
    BY <1>4, <2>1 DEF Awaiting, Granted, ServeGateway, Roles
  <2>5. QED
    BY <2>1, <2>2, <2>3, <2>4, ReplySafe
<1>5. ASSUME NEW r \in net, ServePlant(r) PROVE Safe'
  <2>1. /\ r \in Requests /\ r.step \in Roles /\ lastPlant \in Nat /\ Null \in Nat
        /\ lastPlant + 1 \in Nat /\ net \ {r} \subseteq net
        /\ UNCHANGED <<lastGw, doomed, deleting, loaded, polled>>
    BY <1>0, <1>5 DEF TypeOK, ServePlant, Null, hooks, master
  <2>2. lastGw \in Nat /\ Ids /\ plants \subseteq PlantRows
    BY <1>0 DEF TypeOK
  <2>3. CASE AddPlant(r)
    <3>1. Reply(r, lastPlant + 1, net \ {r}) /\ UNCHANGED atts
      BY <2>3 DEF AddPlant, Reply, counts
    <3>2. PlantIds'
      BY <2>1, <2>2, <2>3 DEF AddPlant, Taken, Ids, PlantIds, PlantRows
    <3>3. Served
      BY <2>1, <2>2, <2>3, <3>1, <3>2 DEF AddPlant, Served
    <3>4. Awaiting(r) => Granted(r.tab, lastPlant + 1)
      <4>1. Awaiting(r) => /\ pc[r.tab] = r.step /\ r.gw = gwId[r.tab]
                           /\ r.no = want[r.tab][r.step]
        BY <1>0, <2>1 DEF Awaiting, Asks
      <4>2. [id |-> lastPlant + 1, no |-> r.no, gw |-> r.gw] \in plants'
        BY <2>3 DEF AddPlant
      <4>3. QED
        <5> SUFFICES ASSUME Awaiting(r) PROVE Granted(r.tab, lastPlant + 1)
          OBVIOUS
        <5>1. pc[r.tab] \in Roles /\ pc[r.tab] \notin {"gateway", "restart"}
          BY <2>1, <4>1 DEF Roles
        <5>2. \E p \in plants' : /\ p.id = lastPlant + 1 /\ p.no = want[r.tab][pc[r.tab]]
                                 /\ p.gw = gwId[r.tab]
          BY <4>1, <4>2
        <5>3. lastPlant < lastPlant + 1 /\ lastPlant + 1 <= lastPlant'
          BY <2>1, <2>3 DEF AddPlant
        <5>4. QED
          BY <5>1, <5>2, <5>3 DEF Granted
    <3>5. QED
      BY <2>1, <3>1, <3>3, <3>4, ReplySafe
  <2>4. CASE RefusePlant(r)
    <3>1. Reply(r, Null, net \ {r}) /\ UNCHANGED atts
      BY <2>4 DEF RefusePlant, Reply, counts
    <3>2. Served
      BY <2>1, <2>2, <2>4, <3>1 DEF RefusePlant, Served, Ids, PlantIds
    <3>3. Granted(r.tab, Null)
      BY DEF Granted
    <3>4. QED
      BY <2>1, <3>1, <3>2, <3>3, ReplySafe
  <2>5. QED
    BY <1>5, <2>3, <2>4 DEF ServePlant
<1>6. ASSUME NEW r \in net, ServeDelete(r) PROVE Safe'
  <2>1. /\ UNCHANGED <<tab, atts, plants, lastPlant, lastGw, loaded, polled>>
        /\ net' = net \ {r} /\ r.step \in Deletes /\ deleting' = deleting \cup {r}
        /\ doomed' = doomed \cup {p.id : p \in Condemned(r.gw)}
    BY <1>6 DEF ServeDelete, db, master, counts
  <2>2. UNCHANGED <<pc, att, want, gwId, row, form, store>>
    BY <2>1 DEF tab
  <2>3. \A i \in doomed' : i <= lastPlant
    BY <1>0, <2>1 DEF Ids, PlantIds, Condemned
  <2>4. RowsKept'
    <3> SUFFICES ASSUME NEW t \in Tabs, NEW role \in Roles, Sole(t), Holding(t),
                        row[t][role] # Null
                 PROVE  \E p \in plants : /\ p.id = row[t][role] /\ p.no = want[t][role]
                                          /\ p.gw = gwId[t] /\ p.id \notin doomed'
      BY <2>1, <2>2 DEF RowsKept, Holding
    <3>1. PICK p \in plants : /\ p.id = row[t][role] /\ p.no = want[t][role]
                              /\ p.gw = gwId[t] /\ p.id \notin doomed
      BY <1>0 DEF Rows
    <3>2. r.gw # gwId[t]
      BY <1>0, <2>1 DEF Owners
    <3>3. p.id \notin {q.id : q \in Condemned(r.gw)}
      BY <1>0, <3>1, <3>2 DEF Condemned, Ids, PlantIds
    <3>4. QED
      BY <2>1, <3>1, <3>3
  <2>5. ReadyIsPolled'
    BY <1>0, <2>1, <2>2, PolledKept DEF Ready
  <2>6. \A q \in deleting' : q.step \in Deletes
    BY <1>0, <2>1 DEF Owners
  <2>7. QED
    BY <2>1, <2>3, <2>4, <2>5, <2>6, HookSafe
<1>7. ASSUME NEW r \in net, ServeRestart(r) PROVE Safe'
  <2>1. r \in Requests /\ r.att \in Nat /\ net \ {r} \subseteq net /\ r.step = "restart"
    BY <1>0, <1>7 DEF TypeOK, Requests, ServeRestart
  <2>2. Reply(r, r.att, net \ {r}) /\ UNCHANGED atts
    BY <1>7 DEF ServeRestart, Reply, counts
  <2>3. Served
    BY <1>0, <1>7, <2>2 DEF ServeRestart, Served, db, hooks, TypeOK, Ids, PlantIds
  <2>4. Awaiting(r) => Granted(r.tab, r.att)
    BY <1>7, <2>1 DEF Awaiting, Granted, ServeRestart, Roles
  <2>5. QED
    BY <2>1, <2>2, <2>3, <2>4, ReplySafe
<1>8. ASSUME NEW r \in deleting, RemoveGateway(r) PROVE Safe'
  <2>1. r \in Requests /\ r.gw \in Nat /\ net \subseteq net /\ r.step \in Deletes
    BY <1>0 DEF TypeOK, Requests, Owners
  <2>2. Reply(r, r.gw, net) /\ UNCHANGED atts
    BY <1>8 DEF RemoveGateway, Reply, counts
  <2>3. Served
    BY <1>0, <1>8, <2>2 DEF RemoveGateway, Served, master, TypeOK, Ids, PlantIds
  <2>4. Awaiting(r) => Granted(r.tab, r.gw)
    BY <2>1 DEF Awaiting, Granted, Deletes, Roles
  <2>5. QED
    BY <2>1, <2>2, <2>3, <2>4, ReplySafe
<1>9. ASSUME NEW i \in doomed, DestroyPlant(i) PROVE Safe'
  <2>1. /\ UNCHANGED <<tab, atts, lastPlant, lastGw, loaded, polled, deleting, net>>
        /\ doomed' = doomed \ {i} /\ plants' = {p \in plants : p.id # i}
    BY <1>9 DEF DestroyPlant, master, counts
  <2>2. UNCHANGED <<pc, att, want, gwId, row, form, store>>
    BY <2>1 DEF tab
  <2>3. RowsKept'
    BY <1>0, <1>9, <2>1, <2>2 DEF RowsKept, Rows, Holding
  <2>4. ReadyIsPolled'
    BY <1>0, <2>1, <2>2, PolledKept DEF Ready
  <2>5. QED
    BY <1>0, <2>1, <2>3, <2>4, HookSafe DEF Ids, Owners
<1>10. CASE \/ \E n \in sweeps : SweepLogs(n)
            \/ \E p \in polled : StoreTelemetry(p)
            \/ UNCHANGED vars
  <2>1. UNCHANGED <<plants, lastPlant, lastGw, doomed, deleting, loaded, polled, net, tab, counts>>
    BY <1>10 DEF SweepLogs, StoreTelemetry, vars, db, hooks, master
  <2>2. Served
    BY <1>0, <2>1 DEF Served, TypeOK, Ids, PlantIds, counts
  <2>3. QED
    BY <2>1, <2>2, QuietSafe
<1>11. CASE MasterLoad
  <2>1. UNCHANGED <<tab, atts, plants, lastPlant, lastGw, doomed, deleting, net>> /\ polled' = plants
    BY <1>11 DEF MasterLoad, db, hooks, counts
  <2>2. UNCHANGED <<pc, att, want, gwId, row, form, store>>
    BY <2>1 DEF tab
  <2>3. RowsKept'
    BY <1>0, <2>1, <2>2 DEF RowsKept, Rows, Holding
  <2>4. ReadyIsPolled'
    BY <1>0, <2>1, <2>2 DEF ReadyIsPolled, Rows, Ready, Holding
  <2>5. QED
    BY <1>0, <2>1, <2>3, <2>4, HookSafe DEF Ids, Owners
<1>12. CASE RestCrash
  <2>1. /\ UNCHANGED <<tab, atts, plants, lastPlant, lastGw, loaded, polled>>
        /\ net' = {} /\ doomed' = {} /\ deleting' = {}
    BY <1>12 DEF RestCrash, db, master
  <2>2. UNCHANGED <<pc, att, want, gwId, row, form, store>>
    BY <2>1 DEF tab
  <2>3. RowsKept'
    BY <1>0, <2>1, <2>2 DEF RowsKept, Rows, Holding
  <2>4. ReadyIsPolled'
    BY <1>0, <2>1, <2>2, PolledKept DEF Ready
  <2>5. QED
    BY <2>1, <2>3, <2>4, HookSafe
<1>13. CASE MasterCrash
  <2>1. UNCHANGED <<plants, lastPlant, lastGw, doomed, deleting, net, tab, atts>> /\ loaded' = FALSE
    BY <1>13 DEF MasterCrash, db, hooks
  <2>2. Served
    BY <1>0, <2>1 DEF Served, TypeOK, Ids, PlantIds
  <2>3. QED
    BY <2>1, <2>2, QuietSafe
<1>14. QED
  BY <1>1, <1>2, <1>3, <1>4, <1>5, <1>6, <1>7, <1>8, <1>9, <1>10, <1>11, <1>12, <1>13
  DEF Next, Serve, Hook

LEMMA Safety == Spec => []SInv
<1>1. Init => SInv
  <2> SUFFICES ASSUME Init PROVE SInv
    OBVIOUS
  <2>1. TInv
    BY TInvInit
  <2>2. Safe
    BY DEF Init, Safe, Ids, PlantIds, Owners, Asks, Rows, ReadyIsPolled, Holding, Ready,
       Roles, Null, Awaited
  <2>3. QED
    BY <2>1, <2>2 DEF SInv
<1>2. SInv /\ [Next]_vars => SInv'
  BY TInvStep, SafeStep DEF SInv
<1>3. QED
  BY <1>1, <1>2, PTL DEF Spec

\* The Plant rows of a ready session whose tab is the only one of its browser
\* exist and no delete that is still to come takes them: gateway.js's hook
\* removes plants of its own gateway only, and saga.js gives a gateway up only
\* after the session has.  Pages of other browsers may do as they like.
THEOREM ReadyRowsStay == Spec => []ReadyRowsExist
<1>1. SInv => ReadyRowsExist
  <2> SUFFICES ASSUME SInv, NEW t \in Tabs, Sole(t), Ready(t), NEW role \in Roles
               PROVE  \E p \in plants : /\ p.id = row[t][role] /\ p.no = want[t][role]
                                        /\ p.id \notin doomed
    BY DEF ReadyRowsExist
  <2>1. Holding(t) /\ row[t][role] # Null
    BY DEF SInv, Safe, Rows, Holding
  <2>2. QED
    BY <2>1 DEF SInv, Safe, Rows
<1>2. QED
  BY <1>1, Safety, PTL

\* A tab's control number is the form's, from its first attempt on.
Typed == \A t \in Tabs : want[t]["control"] \in {NoNumber, ControlNo}

LEMMA TypedKept == Spec => []Typed
<1>1. Init => Typed
  BY DEF Init, Typed, Roles
<1>2. TInv /\ Typed /\ [Next]_vars => Typed'
  <2> SUFFICES ASSUME TInv, Typed, [Next]_vars PROVE Typed'
    OBVIOUS
  <2>1. ASSUME NEW t \in Tabs, Submit(t) PROVE Typed'
    BY <2>1 DEF Submit, Forms, Typed, TInv, TypeOK, Roles
  <2>2. ASSUME NEW t \in Tabs, Reload(t) PROVE Typed'
    BY <2>2 DEF Reload, Typed, TInv, TypeOK, Roles
  <2>3. ASSUME UNCHANGED want PROVE Typed'
    BY <2>3 DEF Typed
  <2>4. ASSUME NEW t \in Tabs, GiveUp(t) PROVE UNCHANGED want
    BY <2>4 DEF GiveUp, Answered
  <2>5. ASSUME NEW r, NEW id, NEW left, Reply(r, id, left) PROVE UNCHANGED want
    BY <2>5 DEF Reply, Answered, tab
  <2>6. ASSUME NEW r \in net, \/ ServeGateway(r) \/ ServePlant(r)
                              \/ ServeDelete(r) \/ ServeRestart(r)
        PROVE  UNCHANGED want
    BY <2>5, <2>6
    DEF ServeGateway, ServePlant, AddPlant, RefusePlant, ServeDelete, ServeRestart, tab
  <2>7. ASSUME Hook PROVE UNCHANGED want
    BY <2>5, <2>7 DEF Hook, RemoveGateway, DestroyPlant, SweepLogs, tab
  <2>8. ASSUME \/ MasterLoad \/ (\E p \in polled : StoreTelemetry(p))
               \/ RestCrash \/ MasterCrash \/ UNCHANGED vars
        PROVE  UNCHANGED want
    BY <2>8 DEF MasterLoad, StoreTelemetry, RestCrash, MasterCrash, vars, tab
  <2>9. QED
    BY <2>1, <2>2, <2>3, <2>4, <2>6, <2>7, <2>8 DEF Next, Serve
<1>3. QED
  BY <1>1, <1>2, TInvInit, TInvStep, PTL DEF Spec

\* At most one of the sessions that are alone in their browsers is ready: all of them need the
\* control plant's number (BaseData.js disables its input), and plant.json's
\* unique index keeps it exclusive however attempts, retries and rollbacks
\* interleave.
THEOREM OneSessionAtATime == Spec => []OneSession
<1>1. SInv /\ Typed => OneSession
  <2> SUFFICES ASSUME SInv, Typed, NEW t \in Tabs, NEW u \in Tabs,
                      Sole(t), Sole(u), Ready(t), Ready(u)
               PROVE  t = u
    BY DEF OneSession
  <2> DEFINE c == "control"
  <2>1. c \in Roles
    BY DEF Roles
  <2>2. Holding(t) /\ Holding(u) /\ row[t][c] # Null
    BY <2>1 DEF SInv, Safe, Rows, Holding
  <2>3. PICK p \in plants : p.id = row[t][c] /\ p.no = want[t][c]
    BY <2>1, <2>2 DEF SInv, Safe, Rows
  <2>4. PICK q \in plants : q.id = row[u][c] /\ q.no = want[u][c]
    BY <2>1, <2>2 DEF SInv, Safe, Rows, Holding
  <2>5. p.no = ControlNo /\ q.no = ControlNo
    <3>1. p.no \in PlantNos /\ q.no \in PlantNos
      BY DEF SInv, TInv, TypeOK, PlantRows
    <3>2. QED
      BY <2>3, <2>4, <3>1, NumberAssumption DEF Typed
  <2>6. p = q
    BY <2>5 DEF SInv, Safe, Ids, PlantIds
  <2>7. QED
    BY <2>1, <2>2, <2>3, <2>4, <2>6 DEF SInv, Safe, Rows
<1>2. QED
  BY <1>1, Safety, TypedKept, PTL

\* The master that runs has loaded the plants of every ready session: saga.js
\* restarts it between the last plant and the ready report, and reports only
\* if that succeeded.
THEOREM ReadyStaysPolled == Spec => []ReadyIsPolled
<1>1. SInv => ReadyIsPolled
  BY DEF SInv, Safe
<1>2. QED
  BY <1>1, Safety, PTL

=============================================================================
