---------------------------- MODULE Provisioning ----------------------------
(***************************************************************************)
(* How a browser tab of the tester claims the two plant numbers of a test  *)
(* session: the saga that answers "start the test"                         *)
(* (store/sagas/saga.js), the localStorage entry that remembers the        *)
(* session's gateway (App.js), the Gateway and Plant tables with the       *)
(* "before delete" hook of gateway.js, whose deletes nobody awaits, and    *)
(* the DNP3 master, which reads the Plant table once after each restart.   *)
(*                                                                         *)
(* Requests and answers travel over a network that may lose an answer or   *)
(* deliver a request after its sender gave up or reloaded the page.        *)
(***************************************************************************)
EXTENDS Naturals, FiniteSets

CONSTANTS
  Tabs,         \* pages of the tester that are, or will be, open
  Profiles,     \* browser profiles: the tabs of one share a localStorage
  ProfileOf,    \* the profile each tab runs in
  PlantNos,     \* plant numbers
  ControlNo,    \* the controllable plant's number, which the form does not let edit
  NoNumber,     \* no plant number
  Recorded,     \* the plant numbers whose stored telemetry is followed
  MaxSubmits,   \* bound: clicks on "start the test", over all tabs
  MaxReloads,   \* bound: page loads, over all tabs
  MaxFaults     \* bound: lost answers, crashes

Roles == {"control", "uncontrol"}   \* the two plants of a session

ASSUME ProfileAssumption == ProfileOf \in [Tabs -> Profiles]
ASSUME NumberAssumption == NoNumber \notin PlantNos /\ Recorded \subseteq PlantNos
ASSUME BoundAssumption == MaxSubmits \in Nat /\ MaxReloads \in Nat /\ MaxFaults \in Nat

\* What the form may hold: the uncontrollable plant's number is the user's, and
\* nothing keeps it from being the same.
Forms == {numbers \in [Roles -> PlantNos] : numbers["control"] = ControlNo}

Null == 0                           \* a null id; MySQL's ids start at 1
Numbers == PlantNos \cup {NoNumber}

VARIABLES
  gateways,   \* ids of the rows of table Gateway
  plants,     \* rows of table Plant
  lastGw,     \* AUTO_INCREMENT of Gateway
  lastPlant,  \* AUTO_INCREMENT of Plant
  doomed,     \* ids of plants whose destroyById is started and not awaited
  sweeps,     \* plant numbers whose log destroyAll is started and not awaited
  logOf,      \* whose telemetry the log tables hold under a number: a plant id
  net,        \* requests on their way to the REST server
  deleting,   \* gateway deletes between the hook and the row's removal
  loaded,     \* the master has read the Plant table since it started
  polled,     \* the plants the master polls
  pc,         \* the answer the tab's saga awaits; "idle", or "dead" after a throw
  att,        \* number of the tab's current attempt
  want,       \* the numbers typed in the form
  gwId,       \* the saga's gatewayId
  row,        \* the saga's plant ids
  form,       \* isShowBaseDataForm
  errs,       \* errMsgArray
  store,      \* localStorage.GWid of each profile
  atts,       \* submissions so far
  reloads,    \* page loads so far
  faults      \* faults so far

db      == <<gateways, plants, lastGw, lastPlant>>
hooks   == <<doomed, sweeps, deleting>>
master  == <<loaded, polled>>
tab     == <<pc, att, want, gwId, row, form, errs, store>>
counts  == <<atts, reloads, faults>>
vars    == <<db, hooks, logOf, net, master, tab, counts>>

Awaited  == {"gateway", "control", "uncontrol", "rollback", "restart"}
Deletes  == {"rollback", "unmount"}
Requests == [step : Awaited \cup Deletes, tab : Tabs, att : Nat, gw : Nat, no : Numbers]
PlantRows == [id : Nat \ {Null}, no : PlantNos, gw : Nat]

Init ==
  /\ gateways = {} /\ plants = {} /\ lastGw = 0 /\ lastPlant = 0
  /\ doomed = {} /\ sweeps = {} /\ deleting = {}
  /\ logOf = [n \in Recorded |-> Null]
  /\ net = {}
  /\ loaded = TRUE /\ polled = {}
  /\ pc = [t \in Tabs |-> "idle"] /\ att = [t \in Tabs |-> 0]
  /\ want = [t \in Tabs |-> [role \in Roles |-> NoNumber]]
  /\ gwId = [t \in Tabs |-> Null]
  /\ row = [t \in Tabs |-> [role \in Roles |-> Null]]
  /\ form = [t \in Tabs |-> TRUE] /\ errs = [t \in Tabs |-> {}]
  /\ store = [b \in Profiles |-> Null]
  /\ atts = 0 /\ reloads = 0 /\ faults = 0

-----------------------------------------------------------------------------
(* The tab.  isSetBaseDataLoading is TRUE from the saga's first put to its *)
(* READY_FOR_TEST, that is while pc is not "idle".                         *)

Loading(t) == pc[t] # "idle"
Ready(t) == ~form[t]

\* Mutant of Request: the payload leaves the number out.
RequestBlank(step, t, gw, no) ==
  [step |-> step, tab |-> t, att |-> att[t], gw |-> gw, no |-> NoNumber]

Request(step, t, gw, no) ==
  [step |-> step, tab |-> t, att |-> att[t], gw |-> gw, no |-> no]

\* The user starts the test.
Submit(t) ==
  /\ atts < MaxSubmits
  /\ form[t] /\ ~Loading(t)
  /\ \E numbers \in Forms : want' = [want EXCEPT ![t] = numbers]
  /\ atts' = atts + 1
  /\ att' = [att EXCEPT ![t] = atts + 1]
  /\ pc' = [pc EXCEPT ![t] = "gateway"]
  /\ gwId' = [gwId EXCEPT ![t] = Null]
  /\ row' = [row EXCEPT ![t] = [role \in Roles |-> Null]]
  /\ errs' = [errs EXCEPT ![t] = {}]
  /\ net' = net \cup
       {[step |-> "gateway", tab |-> t, att |-> atts + 1, gw |-> Null, no |-> NoNumber]}
  /\ UNCHANGED <<db, hooks, logOf, master, form, store, reloads, faults>>

\* The saga's reactions to an answer: `id` is Null when the call failed, and
\* `rest` is what remains on the network once the answer is taken off it.
GatewayAnswered(t, id, rest) ==
  /\ pc[t] = "gateway"
  /\ gwId' = [gwId EXCEPT ![t] = id]
  /\ store' = IF id = Null THEN store ELSE [store EXCEPT ![ProfileOf[t]] = id]
  /\ errs' = IF id = Null THEN [errs EXCEPT ![t] = @ \cup {"noWrite"}] ELSE errs
  /\ pc' = [pc EXCEPT ![t] = "control"]
  /\ net' = rest \cup {Request("control", t, id, want[t]["control"])}
  /\ UNCHANGED row

ControlAnswered(t, id, rest) ==
  /\ pc[t] = "control"
  /\ row' = [row EXCEPT ![t]["control"] = id]
  /\ pc' = [pc EXCEPT ![t] = "uncontrol"]
  /\ net' = rest \cup {Request("uncontrol", t, gwId[t], want[t]["uncontrol"])}
  /\ UNCHANGED <<gwId, store, errs>>

\* Mutant of UncontrolAnswered: the rollback is sent and not awaited.
UncontrolAnsweredAtOnce(t, id, rest) ==
  LET failed == id = Null \/ row[t]["control"] = Null
  IN  /\ pc[t] = "uncontrol"
      /\ row' = [row EXCEPT ![t]["uncontrol"] = id]
      /\ errs' = IF failed THEN [errs EXCEPT ![t] = @ \cup {"exists"}] ELSE errs
      /\ pc' = [pc EXCEPT ![t] = "restart"]
      /\ net' = rest \cup {Request("restart", t, gwId[t], NoNumber)}
           \cup IF failed /\ gwId[t] # Null
                THEN {Request("rollback", t, gwId[t], NoNumber)} ELSE {}
      /\ UNCHANGED <<gwId, store>>

UncontrolAnswered(t, id, rest) ==
  LET failed == id = Null \/ row[t]["control"] = Null
      next   == IF failed /\ gwId[t] # Null THEN "rollback" ELSE "restart"
  IN  /\ pc[t] = "uncontrol"
      /\ row' = [row EXCEPT ![t]["uncontrol"] = id]
      /\ errs' = IF failed THEN [errs EXCEPT ![t] = @ \cup {"exists"}] ELSE errs
      /\ pc' = [pc EXCEPT ![t] = next]
      /\ net' = rest \cup {Request(next, t, gwId[t], NoNumber)}
      /\ UNCHANGED <<gwId, store>>

\* A failed rollback is caught and forgotten.
RollbackAnswered(t, rest) ==
  /\ pc[t] = "rollback"
  /\ pc' = [pc EXCEPT ![t] = "restart"]
  /\ net' = rest \cup {Request("restart", t, gwId[t], NoNumber)}
  /\ UNCHANGED <<gwId, store, errs, row>>

\* Mutant of RestartAnswered: the form goes away whenever the restart succeeds.
RestartAnsweredAnyhow(t, id, rest) ==
  /\ pc[t] = "restart"
  /\ pc' = [pc EXCEPT ![t] = IF id = Null THEN "dead" ELSE "idle"]
  /\ form' = [form EXCEPT ![t] = id = Null]
  /\ net' = rest
  /\ UNCHANGED <<gwId, store, errs, row>>

\* restartTester has no catch: a rejection ends the saga, and with it the root.
RestartAnswered(t, id, rest) ==
  /\ pc[t] = "restart"
  /\ pc' = [pc EXCEPT ![t] = IF id = Null THEN "dead" ELSE "idle"]
  /\ form' = [form EXCEPT ![t] =
                IF id = Null THEN @ ELSE \E role \in Roles : row[t][role] = Null]
  /\ net' = rest
  /\ UNCHANGED <<gwId, store, errs, row>>

Answered(t, id, rest) ==
  /\ \/ GatewayAnswered(t, id, rest) /\ UNCHANGED form
     \/ ControlAnswered(t, id, rest) /\ UNCHANGED form
     \/ UncontrolAnswered(t, id, rest) /\ UNCHANGED form
     \/ RollbackAnswered(t, rest) /\ UNCHANGED form
     \/ RestartAnswered(t, id, rest)
  /\ UNCHANGED <<att, want>>

\* componentDidMount after a page load: the remembered gateway is deleted and
\* forgotten at once, whatever becomes of the delete.
Reload(t) ==
  LET old == store[ProfileOf[t]]
  IN  /\ reloads < MaxReloads
      /\ reloads' = reloads + 1
      /\ net' = IF old = Null THEN net
                ELSE net \cup {[step |-> "unmount", tab |-> t, att |-> 0,
                                gw |-> old, no |-> NoNumber]}
      /\ store' = [store EXCEPT ![ProfileOf[t]] = Null]
      /\ pc' = [pc EXCEPT ![t] = "idle"]
      /\ att' = [att EXCEPT ![t] = 0]
      /\ want' = [want EXCEPT ![t] = [role \in Roles |-> NoNumber]]
      /\ gwId' = [gwId EXCEPT ![t] = Null]
      /\ row' = [row EXCEPT ![t] = [role \in Roles |-> Null]]
      /\ form' = [form EXCEPT ![t] = TRUE]
      /\ errs' = [errs EXCEPT ![t] = {}]
      /\ UNCHANGED <<db, hooks, logOf, master, atts, faults>>

-----------------------------------------------------------------------------
(* The REST server and its tables.                                         *)

Awaiting(r) == pc[r.tab] = r.step /\ att[r.tab] = r.att

\* The server answers r with `id`: nobody may be waiting, and the answer may
\* get lost, which the tab takes for a failure.
Reply(r, id, rest) ==
  \/ /\ ~Awaiting(r)
     /\ net' = rest
     /\ UNCHANGED <<tab, counts>>
  \/ /\ Awaiting(r)
     /\ Answered(r.tab, id, rest)
     /\ UNCHANGED counts
  \/ /\ Awaiting(r) /\ id # Null /\ faults < MaxFaults
     /\ Answered(r.tab, Null, rest)
     /\ faults' = faults + 1
     /\ UNCHANGED <<atts, reloads>>

ServeGateway(r) ==
  /\ r \in net /\ r.step = "gateway"
  /\ lastGw' = lastGw + 1
  /\ gateways' = gateways \cup {lastGw + 1}
  /\ Reply(r, lastGw + 1, net \ {r})
  /\ UNCHANGED <<plants, lastPlant, hooks, logOf, master>>

Taken(no) == \E p \in plants : p.no = no

\* Mutant of AddPlant: the index is unique within a gateway only.
AddPlantPerGateway(r) ==
  /\ \A p \in plants : p.no = r.no => p.gw # r.gw
  /\ lastPlant' = lastPlant + 1
  /\ plants' = plants \cup {[id |-> lastPlant + 1, no |-> r.no, gw |-> r.gw]}
  /\ Reply(r, lastPlant + 1, net \ {r})

\* plantNo is a unique index of table Plant.
AddPlant(r) ==
  /\ ~Taken(r.no)
  /\ lastPlant' = lastPlant + 1
  /\ plants' = plants \cup {[id |-> lastPlant + 1, no |-> r.no, gw |-> r.gw]}
  /\ Reply(r, lastPlant + 1, net \ {r})

\* Mutant of RefusePlant: the duplicate-key error is not passed on.
RefusePlantSilently(r) ==
  /\ Taken(r.no)
  /\ net' = net \ {r}
  /\ UNCHANGED <<plants, lastPlant, tab, counts>>

RefusePlant(r) ==
  /\ Taken(r.no)
  /\ Reply(r, Null, net \ {r})
  /\ UNCHANGED <<plants, lastPlant>>

ServePlant(r) ==
  /\ r \in net /\ r.step \in Roles
  /\ AddPlant(r) \/ RefusePlant(r)
  /\ UNCHANGED <<gateways, lastGw, hooks, logOf, master>>

\* Mutant of Condemned: the filter of Plant.find is undefined, so ignored.
CondemnedAll(g) == plants

\* Mutant of ServeDelete: the hook does not run.
ServeDeleteNoHook(r) ==
  /\ r \in net /\ r.step \in Deletes
  /\ deleting' = deleting \cup {r}
  /\ net' = net \ {r}
  /\ UNCHANGED <<db, doomed, sweeps, logOf, master, tab, counts>>

\* Gateway "before delete": finds the gateway's plants, then starts their
\* deletes without awaiting them; the logs go by plant number.
Condemned(g) == {p \in plants : p.gw = g}

ServeDelete(r) ==
  /\ r \in net /\ r.step \in Deletes
  /\ doomed' = doomed \cup {p.id : p \in Condemned(r.gw)}
  /\ sweeps' = sweeps \cup ({p.no : p \in Condemned(r.gw)} \cap Recorded)
  /\ deleting' = deleting \cup {r}
  /\ net' = net \ {r}
  /\ UNCHANGED <<db, logOf, master, tab, counts>>

\* Mutant of RemoveGateway: the hook never comes to its end.
RemoveGatewayMute(r) ==
  /\ r \in deleting
  /\ deleting' = deleting \ {r}
  /\ gateways' = gateways \ {r.gw}
  /\ UNCHANGED <<net, tab, counts, plants, lastGw, lastPlant, doomed, sweeps, logOf, master>>

RemoveGateway(r) ==
  /\ r \in deleting
  /\ deleting' = deleting \ {r}
  /\ gateways' = gateways \ {r.gw}
  /\ Reply(r, r.gw, net)
  /\ UNCHANGED <<plants, lastGw, lastPlant, doomed, sweeps, logOf, master>>

DestroyPlant(i) ==
  /\ i \in doomed
  /\ doomed' = doomed \ {i}
  /\ plants' = {p \in plants : p.id # i}
  /\ UNCHANGED <<gateways, lastGw, lastPlant, sweeps, deleting, logOf, net, master, tab, counts>>

SweepLogs(n) ==
  /\ n \in sweeps
  /\ sweeps' = sweeps \ {n}
  /\ logOf' = [logOf EXCEPT ![n] = Null]
  /\ UNCHANGED <<db, doomed, deleting, net, master, tab, counts>>

\* Mutant of ServeRestart: "start", which leaves a running container alone.
ServeStart(r) ==
  /\ r \in net /\ r.step = "restart"
  /\ Reply(r, r.att, net \ {r})
  /\ UNCHANGED <<db, hooks, logOf, master>>

\* controlDnp3Master "restart" returns once the container has started again.
ServeRestart(r) ==
  /\ r \in net /\ r.step = "restart"
  /\ loaded' = FALSE /\ polled' = {}
  /\ Reply(r, r.att, net \ {r})
  /\ UNCHANGED <<db, hooks, logOf>>

-----------------------------------------------------------------------------
(* The master and the log pipeline, as far as a session depends on them.   *)

\* The master fetches /api/Plants once, after it has started.
MasterLoad ==
  /\ ~loaded
  /\ loaded' = TRUE /\ polled' = plants
  /\ UNCHANGED <<db, hooks, logOf, net, tab, counts>>

\* A polled plant's data reaches the log tables: the consumer looks the plant
\* up by number.
StoreTelemetry(p) ==
  /\ p \in polled /\ p.no \in Recorded /\ Taken(p.no)
  /\ logOf' = [logOf EXCEPT ![p.no] = p.id]
  /\ UNCHANGED <<db, hooks, net, master, tab, counts>>

-----------------------------------------------------------------------------
(* Faults.                                                                 *)

\* The tab sees its call fail while the request may still be under way; a
\* request that vanished with the server costs no further fault.
GiveUp(t) ==
  /\ Answered(t, Null, net)
  /\ IF \E r \in net \cup deleting : Awaiting(r)
     THEN faults < MaxFaults /\ faults' = faults + 1
     ELSE UNCHANGED faults
  /\ UNCHANGED <<db, hooks, logOf, master, atts, reloads>>

\* The server restarts: what it was doing and had not finished is lost.
RestCrash ==
  /\ faults < MaxFaults
  /\ faults' = faults + 1
  /\ net' = {} /\ doomed' = {} /\ sweeps' = {} /\ deleting' = {}
  /\ UNCHANGED <<db, logOf, master, tab, atts, reloads>>

\* The master's container restarts by itself.
MasterCrash ==
  /\ faults < MaxFaults
  /\ faults' = faults + 1
  /\ loaded' = FALSE /\ polled' = {}
  /\ UNCHANGED <<db, hooks, logOf, net, tab, atts, reloads>>

-----------------------------------------------------------------------------

Serve == \E r \in net :
  ServeGateway(r) \/ ServePlant(r) \/ ServeDelete(r) \/ ServeRestart(r)

Hook ==
  \/ \E r \in deleting : RemoveGateway(r)
  \/ \E i \in doomed : DestroyPlant(i)
  \/ \E n \in sweeps : SweepLogs(n)

Next ==
  \/ \E t \in Tabs : Submit(t) \/ Reload(t) \/ GiveUp(t)
  \/ Serve
  \/ Hook
  \/ MasterLoad
  \/ \E p \in polled : StoreTelemetry(p)
  \/ RestCrash
  \/ MasterCrash

Spec == Init /\ [][Next]_vars

\* The server, the database and the master keep working; users do as they like.
Fairness ==
  /\ WF_vars(Serve)
  /\ WF_vars(Hook)
  /\ WF_vars(MasterLoad)
  /\ \A n \in Recorded : WF_vars(\E p \in polled : p.no = n /\ StoreTelemetry(p))

FairSpec == Spec /\ Fairness

-----------------------------------------------------------------------------

TypeOK ==
  /\ gateways \subseteq Nat /\ plants \subseteq PlantRows
  /\ lastGw \in Nat /\ lastPlant \in Nat
  /\ doomed \subseteq Nat /\ sweeps \subseteq Recorded
  /\ logOf \in [Recorded -> Nat]
  /\ net \subseteq Requests /\ deleting \subseteq Requests
  /\ loaded \in BOOLEAN /\ polled \subseteq PlantRows
  /\ pc \in [Tabs -> Awaited \cup {"idle", "dead"}]
  /\ att \in [Tabs -> Nat]
  /\ want \in [Tabs -> [Roles -> Numbers]]
  /\ gwId \in [Tabs -> Nat]
  /\ row \in [Tabs -> [Roles -> Nat]]
  /\ form \in [Tabs -> BOOLEAN]
  /\ errs \in [Tabs -> SUBSET {"noWrite", "exists"}]
  /\ store \in [Profiles -> Nat]
  /\ atts \in Nat /\ reloads \in Nat /\ faults \in Nat

\* No other page of the tester shares the tab's localStorage.  App.js deletes the
\* gateway the entry names, whichever page's it is, so only such a tab can rely
\* on its rows; what the others do must not matter to it.
Sole(t) == \A u \in Tabs : ProfileOf[u] = ProfileOf[t] => u = t

\* A session that is ready, in a browser of its own, still owns its two Plant
\* rows, and no delete that an earlier session or another browser's pages left
\* behind is about to take them (gateway.js deletes by id, saga.js rolls back its
\* own gateway only).
ReadyRowsExist ==
  \A t \in Tabs : Sole(t) /\ Ready(t) => \A role \in Roles :
    \E p \in plants : /\ p.id = row[t][role] /\ p.no = want[t][role]
                      /\ p.id \notin doomed

\* At most one session of all testers is ready at a time: every session needs
\* the control plant's number, and the unique index on plantNo is all that keeps
\* a second one out while the first one's rows exist.
OneSession ==
  \A t, u \in Tabs : Sole(t) /\ Sole(u) /\ Ready(t) /\ Ready(u) => t = u

\* Once the master has read its plants, it polls those of every ready session:
\* the saga restarts it after the plants are written and before it reports.
ReadyIsPolled ==
  \A t \in Tabs : Sole(t) /\ Ready(t) /\ loaded =>
    \A role \in Roles : \E p \in polled : p.id = row[t][role]

\* The sessions of tabs that are alone in their browsers lease their plants: the
\* rows of table Plant are the claims, a session opens with the report of its
\* saga and closes with the next page load.  Attempts, rollbacks, late deletes
\* and the other tabs only ever claim rows and release those of no session.
Claims == {[id |-> p.id, no |-> p.no] : p \in plants}

SessionOf(t) ==
  IF Sole(t) /\ Ready(t)
  THEN {[id |-> row[t][role], no |-> want[t][role]] : role \in Roles}
  ELSE {}

Lease == INSTANCE LeaseSpec
  WITH Testers <- Tabs, rows <- Claims, sessions <- [t \in Tabs |-> SessionOf(t)]

LeaseHolds == Lease!Spec

\* As long as nothing fails, no tab waits in vain: the request whose answer its
\* saga awaits is on its way or being served, though a page load may have left
\* requests of earlier attempts behind, and no saga has thrown.
AnswerComes ==
  faults = 0 => \A t \in Tabs : Loading(t) =>
    \E r \in net \cup deleting : r.tab = t /\ Awaiting(r)

\* As long as nothing fails, an attempt that has failed, or goes on to restart
\* the master after its rollback, leaves no plant behind that the hook has not
\* found: none of its plants was still being created when the hook looked.
RolledBack ==
  faults = 0 => \A t \in Tabs :
    "exists" \in errs[t] /\ gwId[t] # Null /\ pc[t] # "rollback" =>
      \A p \in Condemned(gwId[t]) : p.id \in doomed

\* Without faults every click on "start the test" is answered: the loading
\* mark goes away, with the tests or with an error message.
SubmitResolves == \A t \in Tabs : Loading(t) ~> ~Loading(t)

\* Without faults a failed attempt gives its numbers back: the hook finds every
\* plant the attempt created and the deletes it does not await still happen.
Failed(t, g) == form[t] /\ ~Loading(t) /\ "exists" \in errs[t] /\ gwId[t] = g

RollbackReleases ==
  \A t \in Tabs, g \in 1..MaxSubmits : Failed(t, g) ~> Condemned(g) = {}

\* A session that stays ready ends up with its own telemetry in the log tables
\* for good: old sweeps die out and the master polls the session's plants.
SessionTelemetry ==
  \A t \in Tabs, role \in Roles :
    <>[]Ready(t) =>
      <>[](want[t][role] \in Recorded => logOf[want[t][role]] = row[t][role])

-----------------------------------------------------------------------------
(* What the code's own messages say, and the code does not do.             *)

\* saga.js:104 has a message for a master that could not be restarted: while
\* a tab shows the loading mark, its saga is still running.
LoadingMeansRunning == \A t \in Tabs : Loading(t) => pc[t] # "dead"


=============================================================================
