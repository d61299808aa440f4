--------------------------- MODULE Reconnect_proofs --------------------------
(***************************************************************************)
(* Proofs about Reconnect, for any number of runs, polls, upsets and       *)
(* sessions: a stopped master has exactly one restart before it, and a     *)
(* disabled button something that enables it.                              *)
(***************************************************************************)
EXTENDS Reconnect, TestPage_proofs

USE DEF Busy, Verdicts, Outcomes

-----------------------------------------------------------------------------
(* Types.                                                                  *)

LEMMA InitTyped == Init => TypeOK
  BY DEF Init, PageInit, TypeOK, PageTypeOK

LEMMA ReplyTyped ==
  ASSUME requests \subseteq Requests, NEW q \in requests,
         NEW what \in {"none", "ok", "error"}, Reply(q, what)
  PROVE  requests' \subseteq Requests
  BY DEF Reply, Requests

LEMMA StepTyped == TypeOK /\ [Next]_vars => TypeOK'
<1> SUFFICES ASSUME TypeOK, [Next]_vars PROVE TypeOK'
  OBVIOUS
<1> USE DEF TypeOK
<1>1. CASE Begin
  <2>1. PageStep
    BY <1>1 DEF Begin, PageStep, Show, Verdict, Marks, timing
  <2>2. Request(run + 1, "stop") \in Requests
    BY DEF Request, Requests, PageTypeOK
  <2>3. QED
    BY <1>1, <2>1, <2>2, PageTyped DEF Begin, budget
<1>2. ASSUME NEW q \in requests, StopAnswered(q) PROVE TypeOK'
  <2>1. PageStep
    BY <1>2 DEF StopAnswered, PageStep, page, timing
  <2>2. q.run \in Nat \ {0}
    BY DEF Requests
  <2>3. QED
    BY <1>2, <2>1, <2>2, PageTyped DEF StopAnswered, budget
<1>3. ASSUME NEW q \in requests, StopFailed(q) PROVE TypeOK'
  <2>1. PageStep
    BY <1>3 DEF StopFailed, PageStep, Show, timing
  <2>2. QED
    BY <1>3, <2>1, PageTyped DEF StopFailed, Fails
<1>4. ASSUME NEW q \in requests, StartAnswered(q) PROVE TypeOK'
  <2>1. PageStep
    BY <1>4 DEF StartAnswered, PageStep, Show, Marks
  <2>2. QED
    BY <1>4, <2>1, PageTyped DEF StartAnswered, budget
<1>5. ASSUME NEW q \in requests, StartFailed(q) PROVE TypeOK'
  <2>1. PageStep
    BY <1>5 DEF StartFailed, PageStep, Show, timing
  <2>2. QED
    BY <1>5, <2>1, PageTyped DEF StartFailed, Fails
<1>6. ASSUME NEW r \in waiting, RestartDue(r) PROVE TypeOK'
  <2>1. PageStep
    BY <1>6 DEF RestartDue, PageStep, page, timing
  <2>2. Request(r, "start") \in Requests
    BY DEF Request, Requests
  <2>3. QED
    BY <1>6, <2>1, <2>2, PageTyped DEF RestartDue, budget
<1>7. ASSUME NEW p \in polls, PollPasses(p) PROVE TypeOK'
  <2>1. PageStep
    BY <1>7 DEF PollPasses, PageStep, Answers, Show, Verdict, Marks
  <2>2. QED
    BY <1>7, <2>1, PageTyped DEF PollPasses, budget
<1>8. ASSUME NEW p \in polls, PollFails(p) \/ PollLost(p) PROVE TypeOK'
  <2>1. PageStep
    BY <1>8 DEF PollFails, PollLost, Wasted, PageStep, Answers, page, timing
  <2>2. QED
    BY <1>8, <2>1, PageTyped DEF PollFails, PollLost, budget
<1>9. ASSUME NEW i \in alive, Timeout(i) \/ TimeoutIgnored(i) PROVE TypeOK'
  <2>1. PageStep
    BY <1>9 DEF Timeout, TimeoutIgnored, Expires, Ignored, PageStep, Show, page
  <2>2. QED
    BY <1>9, <2>1, PageTyped DEF Timeout, TimeoutIgnored, budget
<1>10. ASSUME NEW p \in Slots, Tick(p) PROVE TypeOK'
  <2>1. PageStep
    BY <1>10 DEF Tick, PageStep, page, timing
  <2>2. QED
    BY <1>10, <2>1, PageTyped DEF Tick, budget
<1>11. ASSUME NEW q \in requests, ServeStop(q) \/ ServeStart(q) PROVE TypeOK'
  <2>1. PageStep
    BY <1>11 DEF ServeStop, ServeStart, PageStep, page, timing
  <2>2. requests' \subseteq Requests
    BY <1>11, ReplyTyped DEF ServeStop, ServeStart
  <2>3. QED
    BY <1>11, <2>1, <2>2, PageTyped DEF ServeStop, ServeStart, budget
<1>12. CASE CloseTab
  BY <1>12 DEF CloseTab, PageTypeOK, Verdict
<1>13. CASE NewSession
  <2>1. PageStep
    BY <1>13 DEF NewSession, PageStep, page, timing
  <2>2. QED
    BY <1>13, <2>1, PageTyped DEF NewSession
<1>14. CASE UNCHANGED vars
  <2>1. PageStep
    BY <1>14 DEF vars, PageStep, page, timing
  <2>2. QED
    BY <1>14, <2>1, PageTyped DEF vars
<1>15. QED
  BY <1>1, <1>2, <1>3, <1>4, <1>5, <1>6, <1>7, <1>8, <1>9, <1>10, <1>11, <1>12, <1>13, <1>14
  DEF Next, Answered, Restart, PollAnswered, TimeoutFires, Serve

\* Every reachable state of 4-1 is well typed.
THEOREM ReconnectTyped == Spec => []TypeOK
  BY InitTyped, StepTyped, PTL DEF Spec

-----------------------------------------------------------------------------
(* The restart.                                                            *)

Pending == Stopping \cup Starting

\* What an answer or the reply to q makes of the steps before a restart.
LEMMA Forgotten ==
  ASSUME NEW q \in requests, requests' = requests \ {q}
  PROVE  Stopping' = Stopping \ {q} /\ Starting' = Starting \ {q}
  BY DEF Stopping, Starting

LEMMA Replied ==
  ASSUME TypeOK, NEW q \in requests, NEW what \in {"ok", "error"}, Reply(q, what)
  PROVE  /\ Starting' = Starting \ {q}
         /\ q.op = "stop" /\ q.reply = "none" /\ what = "ok" =>
              Stopping' = Stopping \cup {[q EXCEPT !.reply = "ok"]}
         /\ q.reply = "none" /\ (q.op = "start" \/ what = "error") => Stopping' = Stopping
<1> DEFINE r == [q EXCEPT !.reply = what]
<1>1. r.op = q.op /\ r.reply = what /\ requests' = (requests \ {q}) \cup {r}
  BY DEF Reply, TypeOK, Requests
<1>2. q.op = "start" => q.op # "stop"
  OBVIOUS
<1> HIDE DEF r
<1>3. Starting' = Starting \ {q}
  BY <1>1 DEF Starting
<1>4. q.op = "stop" /\ q.reply = "none" /\ what = "ok" => Stopping' = Stopping \cup {r}
  BY <1>1 DEF Stopping
<1>5. q.reply = "none" /\ (q.op = "start" \/ what = "error") => Stopping' = Stopping
  BY <1>1, <1>2 DEF Stopping
<1>6. QED
  BY <1>3, <1>4, <1>5 DEF r

\* Begin adds a request that is no step before a restart, RestartDue one that is.
LEMMA Requested ==
  ASSUME NEW r, NEW op \in {"stop", "start"},
         requests' = requests \cup {Request(r, op)}
  PROVE  /\ Stopping' = Stopping
         /\ Starting' = IF op = "start" THEN Starting \cup {Request(r, op)} ELSE Starting
  BY DEF Stopping, Starting, Request

\* No step but the master's own and those of requests and waiting runs touches the
\* steps that lie before a restart.
Apart == UNCHANGED <<master, requests, waiting>>

LEMMA ApartSteps ==
  ASSUME Next
  PROVE  \/ Begin \/ CloseTab \/ NewSession
         \/ \E q \in requests : ServeStop(q) \/ ServeStart(q)
         \/ \E q \in requests : StopAnswered(q) \/ StopFailed(q)
                                  \/ StartAnswered(q) \/ StartFailed(q)
         \/ \E r \in waiting : RestartDue(r)
         \/ Apart /\ UNCHANGED <<upsets, sessions>>
<1>1. ASSUME NEW p \in polls, PollPasses(p) \/ PollFails(p) \/ PollLost(p)
      PROVE  Apart /\ UNCHANGED <<upsets, sessions>>
  BY <1>1 DEF PollPasses, PollFails, PollLost, budget, Apart
<1>2. ASSUME NEW i \in alive, Timeout(i) \/ TimeoutIgnored(i)
      PROVE  Apart /\ UNCHANGED <<upsets, sessions>>
  BY <1>2 DEF Timeout, TimeoutIgnored, budget, Apart
<1>3. ASSUME NEW p \in Slots, Tick(p) PROVE Apart /\ UNCHANGED <<upsets, sessions>>
  BY <1>3 DEF Tick, budget, Apart
<1>4. QED
  BY <1>1, <1>2, <1>3 DEF Next, Serve, Answered, Restart, PollAnswered, TimeoutFires

LEMMA InitDown == Init => DownIsTemporary /\ OneRestart
  BY DEF Init, DownIsTemporary, OneRestart, Stopping, Starting

LEMMA StepDown == TypeOK /\ DownIsTemporary /\ [Next]_vars => DownIsTemporary'
<1> SUFFICES ASSUME TypeOK, DownIsTemporary, [Next]_vars, master' = "down", upsets' = 0
             PROVE  Pending' # {} \/ waiting' # {}
  BY DEF DownIsTemporary, Pending
<1> DEFINE Before == master = "down" /\ upsets = 0
<1>0. Before => Pending # {} \/ waiting # {}
  BY DEF DownIsTemporary, Pending
<1> HIDE DEF Before
<1>1. CASE Begin
  <2>1. Before /\ waiting' = waiting
    BY <1>1 DEF Begin, budget, Before
  <2>2. Pending' = Pending
    BY <1>1, Requested DEF Begin, Pending
  <2>3. QED
    BY <1>0, <2>1, <2>2
<1>2. CASE CloseTab \/ NewSession
  BY <1>2 DEF CloseTab, NewSession, TypeOK
<1>3. ASSUME NEW q \in requests, ServeStop(q) PROVE Pending' # {} \/ waiting' # {}
  <2>1. waiting' = waiting /\ q.op = "stop" /\ q.reply = "none" /\ q \notin Starting
        /\ upsets = 0
    BY <1>3 DEF ServeStop, Starting, budget
  <2>2. CASE master = "up"
    <3>1. Reply(q, "ok")
      BY <1>3, <2>2 DEF ServeStop
    <3>2. QED
      BY <2>1, <3>1, Replied DEF Pending
  <2>3. CASE master # "up"
    <3>1. Reply(q, "error") /\ Before
      BY <1>3, <2>1, <2>3 DEF ServeStop, TypeOK, Before
    <3>2. Pending' = Pending
      BY <2>1, <3>1, Replied DEF Pending
    <3>3. QED
      BY <1>0, <2>1, <3>1, <3>2
  <2>4. QED
    BY <2>2, <2>3
<1>4. ASSUME NEW q \in requests, ServeStart(q) PROVE Pending' # {} \/ waiting' # {}
  BY <1>4 DEF ServeStart
<1>5. ASSUME NEW q \in requests, StopAnswered(q) PROVE Pending' # {} \/ waiting' # {}
  BY <1>5 DEF StopAnswered
<1>6. ASSUME NEW q \in requests, StopFailed(q) \/ StartAnswered(q) \/ StartFailed(q)
      PROVE  Pending' # {} \/ waiting' # {}
  <2>1. /\ requests' = requests \ {q} /\ waiting' = waiting /\ Before
        /\ q \notin Stopping /\ q \notin Starting
    BY <1>6 DEF StopFailed, StartAnswered, StartFailed, Fails, budget, Before, TypeOK,
                Stopping, Starting
  <2>2. Pending' = Pending
    BY <2>1, Forgotten DEF Pending
  <2>3. QED
    BY <1>0, <2>1, <2>2
<1>7. ASSUME NEW r \in waiting, RestartDue(r) PROVE Pending' # {} \/ waiting' # {}
  BY <1>7, Requested DEF RestartDue, Pending
<1>8. CASE Apart /\ UNCHANGED <<upsets, sessions>>
  BY <1>0, <1>8 DEF Apart, Pending, Stopping, Starting, Before
<1>9. CASE UNCHANGED vars
  BY <1>0, <1>9 DEF vars, Pending, Stopping, Starting, Before
<1>10. QED
  BY <1>1, <1>2, <1>3, <1>4, <1>5, <1>6, <1>7, <1>8, <1>9, ApartSteps

\* As long as nothing is lost and the tab stays open, a master that 4-1 has stopped
\* has its restart before it: on its way to the page, waiting, or on its way back.
THEOREM DownEndsInRestart == Spec => []DownIsTemporary
<1>1. Init => DownIsTemporary
  BY InitDown
<1>2. QED
  BY <1>1, StepDown, ReconnectTyped, PTL DEF Spec

\* At most one step of one run lies before the restart.
Single ==
  /\ master = "up" => Pending = {} /\ waiting = {}
  /\ \A q, s \in Pending : q = s
  /\ \A r, s \in waiting : r = s
  /\ Pending # {} => waiting = {}

LEMMA SingleIsOne == OneRestart <=> (upsets = 0 /\ sessions = 0 => Single)
  BY DEF OneRestart, Single, Pending

LEMMA StepSingle ==
  ASSUME TypeOK, Single, Next, UNCHANGED <<upsets, sessions>>
  PROVE  Single'
<1>1. CASE Begin
  <2>1. Pending' = Pending /\ waiting' = waiting /\ master' = master
    BY <1>1, Requested DEF Begin, Pending
  <2>2. QED
    BY <2>1 DEF Single
<1>2. CASE CloseTab \/ NewSession
  BY <1>2 DEF CloseTab, NewSession, TypeOK
<1>3. ASSUME NEW q \in requests, ServeStop(q) PROVE Single'
  <2>1. waiting' = waiting /\ q.op = "stop" /\ q.reply = "none" /\ q \notin Starting
        /\ master' = "down"
    BY <1>3 DEF ServeStop, Starting
  <2>2. CASE master = "up"
    <3>1. Reply(q, "ok")
      BY <1>3, <2>2 DEF ServeStop
    <3>2. Stopping' = Stopping \cup {[q EXCEPT !.reply = "ok"]} /\ Starting' = Starting
      BY <2>1, <3>1, Replied
    <3>3. Pending' = Pending \cup {[q EXCEPT !.reply = "ok"]}
      BY <3>2 DEF Pending
    <3>4. Pending = {} /\ waiting = {}
      BY <2>2 DEF Single
    <3>5. QED
      BY <2>1, <3>3, <3>4 DEF Single
  <2>3. CASE master # "up"
    <3>1. Reply(q, "error")
      BY <1>3, <2>3 DEF ServeStop
    <3>2. Pending' = Pending
      BY <2>1, <3>1, Replied DEF Pending
    <3>3. QED
      BY <2>1, <3>2 DEF Single
  <2>4. QED
    BY <2>2, <2>3
<1>4. ASSUME NEW q \in requests, ServeStart(q) PROVE Single'
  <2>1. PICK what \in {"ok", "error"} : Reply(q, what)
    BY <1>4 DEF ServeStart
  <2>2. q \in Starting /\ waiting' = waiting /\ q.op = "start" /\ q.reply = "none"
    BY <1>4 DEF ServeStart, Starting
  <2>3. Pending = {q} /\ waiting = {}
    BY <2>2 DEF Single, Pending
  <2>4. Stopping' = Stopping /\ Starting' = Starting \ {q} /\ q \notin Stopping
    BY <2>1, <2>2, Replied DEF Stopping
  <2>5. Pending' = {} /\ waiting' = {}
    BY <2>2, <2>3, <2>4 DEF Pending
  <2>6. QED
    BY <2>5 DEF Single
<1>5. ASSUME NEW q \in requests, StopAnswered(q) PROVE Single'
  <2>1. q \in Pending /\ requests' = requests \ {q} /\ waiting' = waiting \cup {q.run}
        /\ master' = master
    BY <1>5 DEF StopAnswered, Pending, Stopping
  <2>2. Pending = {q} /\ waiting = {} /\ master' # "up"
    BY <2>1 DEF Single
  <2>3. Pending' = {}
    BY <2>1, <2>2, Forgotten DEF Pending
  <2>4. QED
    BY <2>1, <2>2, <2>3 DEF Single
<1>6. ASSUME NEW q \in requests, StopFailed(q) \/ StartAnswered(q) \/ StartFailed(q)
      PROVE  Single'
  <2>1. /\ requests' = requests \ {q} /\ waiting' = waiting /\ master' = master
        /\ q \notin Stopping /\ q \notin Starting
    BY <1>6 DEF StopFailed, StartAnswered, StartFailed, Fails, budget, TypeOK,
                Stopping, Starting
  <2>2. Pending' = Pending
    BY <2>1, Forgotten DEF Pending
  <2>3. QED
    BY <2>1, <2>2 DEF Single
<1>7. ASSUME NEW r \in waiting, RestartDue(r) PROVE Single'
  <2>1. Pending = {} /\ waiting' = {} /\ master' = master /\ master # "up"
    BY <1>7 DEF RestartDue, Single
  <2>2. Pending' = Pending \cup {Request(r, "start")}
    BY <1>7, Requested DEF RestartDue, Pending
  <2>3. QED
    BY <2>1, <2>2 DEF Single
<1>8. CASE Apart
  BY <1>8 DEF Apart, Single, Pending, Stopping, Starting
<1>9. QED
  BY <1>1, <1>2, <1>3, <1>4, <1>5, <1>6, <1>7, <1>8, ApartSteps

\* Upsets and sessions are only ever counted.
LEMMA Counted ==
  ASSUME TypeOK, [Next]_vars, upsets' = 0, sessions' = 0
  PROVE  UNCHANGED <<upsets, sessions>>
<1>1. CASE Begin \/ CloseTab \/ NewSession
  BY <1>1 DEF Begin, CloseTab, NewSession, budget, TypeOK
<1>2. ASSUME NEW q \in requests, ServeStop(q) \/ ServeStart(q)
      PROVE  UNCHANGED <<upsets, sessions>>
  BY <1>2 DEF ServeStop, ServeStart, budget
<1>3. ASSUME NEW q \in requests,
             StopAnswered(q) \/ StopFailed(q) \/ StartAnswered(q) \/ StartFailed(q)
      PROVE  UNCHANGED <<upsets, sessions>>
  BY <1>3 DEF StopAnswered, StopFailed, StartAnswered, StartFailed, Fails, budget, TypeOK
<1>4. ASSUME NEW r \in waiting, RestartDue(r) PROVE UNCHANGED <<upsets, sessions>>
  BY <1>4 DEF RestartDue, budget
<1>5. CASE UNCHANGED vars
  BY <1>5 DEF vars
<1>6. QED
  BY <1>1, <1>2, <1>3, <1>4, <1>5, ApartSteps

LEMMA StepOne == TypeOK /\ OneRestart /\ [Next]_vars => OneRestart'
<1> SUFFICES ASSUME TypeOK, OneRestart, [Next]_vars, upsets' = 0, sessions' = 0
             PROVE  Single'
  BY SingleIsOne DEF OneRestart, Single, Pending
<1>1. Single /\ UNCHANGED <<upsets, sessions>>
  BY Counted, SingleIsOne
<1>2. CASE Next
  BY <1>1, <1>2, StepSingle
<1>3. CASE UNCHANGED vars
  BY <1>1, <1>3 DEF vars, Single, Pending, Stopping, Starting
<1>4. QED
  BY <1>2, <1>3

\* The restarts of two runs never overlap, whatever runs begin meanwhile: nothing
\* but a session cuts an offline time short.
THEOREM RestartIsSingle == Spec => []OneRestart
<1>1. Init => OneRestart
  BY InitDown
<1>2. QED
  BY <1>1, StepOne, ReconnectTyped, PTL DEF Spec

-----------------------------------------------------------------------------
(* The button.                                                             *)

\* Data that was found has ended its run.
FoundEnds == "wanted" \in marks => "loading" \notin marks

Watched == FoundEnds /\ LoadingIsWatched

LEMMA StepWatched == Watched /\ [Next]_vars => Watched'
<1> SUFFICES ASSUME Watched, [Next]_vars PROVE Watched'
  OBVIOUS
<1> USE DEF Watched, FoundEnds, LoadingIsWatched, Show
<1>1. CASE Begin
  BY <1>1 DEF Begin
<1>2. ASSUME NEW q \in requests, StopAnswered(q) PROVE Watched'
  BY <1>2 DEF StopAnswered, page
<1>3. ASSUME NEW q \in requests, StopFailed(q) \/ StartFailed(q) PROVE Watched'
  BY <1>3 DEF StopFailed, StartFailed
<1>4. ASSUME NEW q \in requests, StartAnswered(q) PROVE Watched'
  BY <1>4 DEF StartAnswered, SetTimeout
<1>5. ASSUME NEW r \in waiting, RestartDue(r) PROVE Watched'
  BY <1>5 DEF RestartDue, page
<1>6. ASSUME NEW p \in polls, PollPasses(p) PROVE Watched'
  BY <1>6 DEF PollPasses
<1>7. ASSUME NEW p \in polls, PollFails(p) \/ PollLost(p) PROVE Watched'
  BY <1>7 DEF PollFails, PollLost, Wasted, page, timing
<1>8. ASSUME NEW i \in alive, Timeout(i) PROVE Watched'
  BY <1>8 DEF Timeout, Expires
<1>9. ASSUME NEW i \in alive, TimeoutIgnored(i) PROVE Watched'
  BY <1>9 DEF TimeoutIgnored, Ignored, page
<1>10. ASSUME NEW p \in Slots, Tick(p) PROVE Watched'
  BY <1>10 DEF Tick, page, timing
<1>11. ASSUME NEW q \in requests, ServeStop(q) \/ ServeStart(q) PROVE Watched'
  BY <1>11 DEF ServeStop, ServeStart, Reply, page, timing
<1>12. CASE CloseTab
  BY <1>12 DEF CloseTab
<1>13. CASE NewSession
  BY <1>13 DEF NewSession, page, timing
<1>14. CASE UNCHANGED vars
  BY <1>14 DEF vars, page, timing
<1>15. QED
  BY <1>1, <1>2, <1>3, <1>4, <1>5, <1>6, <1>7, <1>8, <1>9, <1>10, <1>11, <1>12, <1>13, <1>14
  DEF Next, Answered, Restart, PollAnswered, TimeoutFires, Serve

\* While the button of 4-1 is disabled something is still to come that enables it.
THEOREM ButtonIsWatched == Spec => []LoadingIsWatched
<1>1. Init => Watched
  BY DEF Init, PageInit, Watched, FoundEnds, LoadingIsWatched
<1>2. Watched => LoadingIsWatched
  BY DEF Watched
<1>3. QED
  BY <1>1, <1>2, StepWatched, PTL DEF Spec

=============================================================================
