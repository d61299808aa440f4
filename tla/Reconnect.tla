----------------------------- MODULE Reconnect ------------------------------
(***************************************************************************)
(* Test 4-1 (TestFourOne.js): the page stops the DNP3 master's container,  *)
(* starts it again 31 minutes later and waits for the records the plants   *)
(* kept meanwhile.  The container is stopped and started by control.js,    *)
(* through Docker, which refuses to stop what is stopped and to start what *)
(* runs.                                                                   *)
(*                                                                         *)
(* Only the page knows that the master is to be started again: a timeout   *)
(* whose handle is never stored, so that nothing can cancel it.            *)
(***************************************************************************)
EXTENDS TestPage

CONSTANTS
  MaxUpsets,   \* bound: lost answers, and tabs closed
  MaxSessions  \* bound: sessions that begin while this one runs

ASSUME BudgetAssumption == MaxUpsets \in Nat /\ MaxSessions \in Nat

VARIABLES
  tab,       \* "open" or "closed"
  master,    \* the container: "up" or "down"
  requests,  \* calls of controlDnp3Master that have not been answered
  waiting,   \* runs whose 31 minutes have not elapsed
  upsets,    \* what has gone wrong so far
  sessions   \* sessions begun so far

vars == <<page, timing, polls, run, tab, master, requests, waiting, upsets, sessions>>
budget == <<upsets, sessions>>

Requests == [run : Nat \ {0}, op : {"stop", "start"}, reply : {"none", "ok", "error"}]

Request(r, op) == [run |-> r, op |-> op, reply |-> "none"]
Reply(q, what) == requests' = (requests \ {q}) \cup {[q EXCEPT !.reply = what]}

Init ==
  /\ PageInit
  /\ tab = "open" /\ master = "up"
  /\ requests = {} /\ waiting = {}
  /\ upsets = 0 /\ sessions = 0

-----------------------------------------------------------------------------
(* The page.                                                               *)

\* Mutant of Begin: the flag is not reset, as in 2-3.
BeginKept ==
  /\ tab = "open" /\ MayBegin
  /\ run' = run + 1
  /\ Show(Busy, {}) /\ Verdict("none")
  /\ requests' = requests \cup {Request(run + 1, "stop")}
  /\ UNCHANGED <<timing, polls, tab, master, waiting, budget>>

Begin ==
  /\ tab = "open" /\ MayBegin
  /\ run' = run + 1
  /\ Show(Busy, {"wanted"}) /\ Verdict("none")
  /\ requests' = requests \cup {Request(run + 1, "stop")}
  /\ UNCHANGED <<timing, polls, tab, master, waiting, budget>>

\* The request failed, or its answer is lost, whatever became of it.
Fails(q) ==
  \/ q.reply = "error" /\ UNCHANGED upsets
  \/ upsets < MaxUpsets /\ upsets' = upsets + 1

\* setDreamsRestartTimeout
StopAnswered(q) ==
  /\ q.op = "stop" /\ q.reply = "ok"
  /\ requests' = requests \ {q}
  /\ waiting' = waiting \cup {q.run}
  /\ UNCHANGED <<page, timing, polls, run, tab, master, budget>>

StopFailed(q) ==
  /\ q.op = "stop" /\ Fails(q)
  /\ requests' = requests \ {q}
  /\ Show({}, Busy)
  /\ UNCHANGED <<pass, result, timing, polls, run, tab, master, waiting, sessions>>

\* Mutants of RestartDue: the restart waits for a run to be on; the wrong operation.
RestartDueIfBusy(r) ==
  /\ r \in waiting /\ waiting' = waiting \ {r}
  /\ "loading" \in marks
  /\ requests' = requests \cup {Request(r, "start")}
  /\ UNCHANGED <<page, timing, polls, run, tab, master, budget>>
RestartDueWrong(r) ==
  /\ r \in waiting /\ waiting' = waiting \ {r}
  /\ requests' = requests \cup {Request(r, "restart")}
  /\ UNCHANGED <<page, timing, polls, run, tab, master, budget>>

\* The 31 minutes of a run are over.
RestartDue(r) ==
  /\ r \in waiting /\ waiting' = waiting \ {r}
  /\ requests' = requests \cup {Request(r, "start")}
  /\ UNCHANGED <<page, timing, polls, run, tab, master, budget>>

StartAnswered(q) ==
  /\ q.op = "start" /\ q.reply = "ok"
  /\ requests' = requests \ {q}
  /\ SetTimeout /\ Show({"ticking"}, {})
  /\ UNCHANGED <<pass, result, polls, run, tab, master, waiting, budget>>

\* Mutant of StartFailed: the spinner of the outcome stays.
StartFailedBusy(q) ==
  /\ q.op = "start" /\ Fails(q)
  /\ requests' = requests \ {q}
  /\ Show({}, {"loading"})
  /\ UNCHANGED <<pass, result, timing, polls, run, tab, master, waiting, sessions>>

StartFailed(q) ==
  /\ q.op = "start" /\ Fails(q)
  /\ requests' = requests \ {q}
  /\ Show({}, Busy)
  /\ UNCHANGED <<pass, result, timing, polls, run, tab, master, waiting, sessions>>

Tick(p) ==
  /\ "ticking" \in marks
  /\ p \in Slots \ polls /\ polls' = polls \cup {p}
  /\ UNCHANGED <<page, timing, run, tab, master, requests, waiting, budget>>

\* Mutant of PollPasses: clearAllTimeSet reaches the timeout of the restart.
PollPassesClean(p) ==
  /\ Answers(p)
  /\ ClearTimeout
  /\ Show({"wanted"}, Busy \cup {"ticking"}) /\ Verdict("pass")
  /\ waiting' = {}
  /\ UNCHANGED <<tab, master, requests, budget>>

\* Three complete records of each plant since the stop.
PollPasses(p) ==
  /\ Answers(p)
  /\ ClearTimeout
  /\ Show({"wanted"}, Busy \cup {"ticking"}) /\ Verdict("pass")
  /\ UNCHANGED <<tab, master, requests, waiting, budget>>

\* The sidebar is told FAIL by every poll that finds less.
PollFails(p) ==
  /\ Answers(p)
  /\ result' = "fail"
  /\ UNCHANGED <<marks, pass, timing, tab, master, requests, waiting, budget>>

PollLost(p) == Wasted(p) /\ UNCHANGED <<tab, master, requests, waiting, budget>>

\* After ten minutes; the sidebar is not told.
Timeout(i) ==
  /\ Expires(i, {})
  /\ pass' = "fail"
  /\ UNCHANGED <<result, tab, master, requests, waiting, budget>>

TimeoutIgnored(i) == Ignored(i) /\ UNCHANGED <<tab, master, requests, waiting, budget>>

-----------------------------------------------------------------------------
(* The REST server and Docker, and what else happens to them.              *)

\* Mutant of ServeStop: a stop that Docker refuses is a success.
ServeStopAgain(q) ==
  /\ q.op = "stop" /\ q.reply = "none"
  /\ master' = "down"
  /\ Reply(q, "ok")
  /\ UNCHANGED <<page, timing, polls, run, tab, waiting, budget>>

ServeStop(q) ==
  /\ q.op = "stop" /\ q.reply = "none"
  /\ master' = "down"
  /\ Reply(q, IF master = "up" THEN "ok" ELSE "error")
  /\ UNCHANGED <<page, timing, polls, run, tab, waiting, budget>>

ServeStart(q) ==
  /\ q.op = "start" /\ q.reply = "none"
  /\ master' = "up"
  /\ Reply(q, IF master = "down" THEN "ok" ELSE "error")
  /\ UNCHANGED <<page, timing, polls, run, tab, waiting, budget>>

\* The tab is closed or reloaded: its callbacks go with it.
CloseTab ==
  /\ tab = "open" /\ upsets < MaxUpsets
  /\ tab' = "closed" /\ upsets' = upsets + 1
  /\ marks' = {} /\ Verdict("none")
  /\ handle' = 0 /\ alive' = {} /\ polls' = {} /\ requests' = {} /\ waiting' = {}
  /\ UNCHANGED <<timers, run, master, sessions>>

\* A session begins, in this browser or in another: it restarts the master.
NewSession ==
  /\ sessions < MaxSessions /\ sessions' = sessions + 1
  /\ master' = "up" /\ tab' = "open"
  /\ UNCHANGED <<page, timing, polls, run, requests, waiting, upsets>>

-----------------------------------------------------------------------------

Serve == \E q \in requests : ServeStop(q) \/ ServeStart(q)

Answered ==
  \E q \in requests : StopAnswered(q) \/ StopFailed(q) \/ StartAnswered(q) \/ StartFailed(q)

PollAnswered == \E p \in polls : PollPasses(p) \/ PollFails(p) \/ PollLost(p)

TimeoutFires == \E i \in alive : Timeout(i) \/ TimeoutIgnored(i)

Restart == \E r \in waiting : RestartDue(r)

Next ==
  \/ Begin \/ Answered \/ Restart \/ PollAnswered \/ TimeoutFires
  \/ \E p \in Slots : Tick(p)
  \/ Serve \/ CloseTab \/ NewSession

Spec == Init /\ [][Next]_vars

\* The server serves and answers its requests, the browser runs its timers.
FairSpec ==
  Spec /\ WF_vars(Serve) /\ WF_vars(Answered) /\ WF_vars(Restart) /\ WF_vars(TimeoutFires)

-----------------------------------------------------------------------------
(* Properties.                                                             *)

TypeOK ==
  /\ PageTypeOK
  /\ tab \in {"open", "closed"} /\ master \in {"up", "down"}
  /\ requests \subseteq Requests /\ waiting \subseteq Nat \ {0}
  /\ upsets \in Nat /\ sessions \in Nat

\* The steps that still lie before a restart of the master.
Stopping == {q \in requests : q.op = "stop" /\ q.reply = "ok"}
Starting == {q \in requests : q.op = "start" /\ q.reply = "none"}

\* "The connection is restored automatically when the time is up": as long as no
\* answer is lost and the tab stays open, a master that is down has its restart
\* before it, whatever polls of earlier runs, other runs and sessions do.
DownIsTemporary ==
  master = "down" /\ upsets = 0 => Stopping # {} \/ waiting # {} \/ Starting # {}

\* The offline time of a run is its own: no other run's restart can end it, unless
\* a session has restarted the master in between.
OneRestart ==
  upsets = 0 /\ sessions = 0 =>
    /\ master = "up" => Stopping = {} /\ waiting = {} /\ Starting = {}
    /\ \A q, s \in Stopping \cup Starting : q = s
    /\ \A r, s \in waiting : r = s
    /\ Stopping \cup Starting # {} => waiting = {}

\* While the button is disabled something is still to come that enables it.
LoadingIsWatched == "loading" \in marks => requests # {} \/ waiting # {} \/ alive # {}

\* The master comes back.
MasterReturns == master = "down" ~> master = "up" \/ upsets > 0

\* A run ends, with what has gone wrong or without.
RunEnds == marks \cap Busy # {} ~> marks \cap Busy = {}

=============================================================================
