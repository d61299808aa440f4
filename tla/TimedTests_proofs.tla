-------------------------- MODULE TimedTests_proofs --------------------------
(***************************************************************************)
(* Proofs about TimedTests, for any number of runs and polls: what the     *)
(* page and the sidebar show, what a run leaves to the next, and that no   *)
(* spinner is shown with nothing to come.                                  *)
(***************************************************************************)
EXTENDS TimedTests, TestPage_proofs

-----------------------------------------------------------------------------
(* What the actions have in common.                                        *)

\* The commands under way are those of runs that have begun.
PostsStep ==
  posts' \subseteq posts \/ (posts' \subseteq posts \cup {run'} /\ run' = run + 1)

LEMMA BeginStep ==
  ASSUME TypeOK, Begin
  PROVE  PageStep /\ PostsStep /\ UNCHANGED <<test, current, seen>> /\ run' = run + 1
  BY DEF Begin, IntegrityBegin, EventBegin, PeriodicBegin, ToggleBegin, DeadbandBegin,
         ControlBegin, OfflineBegin, OnlineBegin, ConnectBegin, LogsBegin, DefaultsBegin,
         Begins, SendsCommand, Waits, Asks, Show, Verdict, PageStep, PostsStep, calls,
         Busy, Marks, Outcomes, timing

LEMMA CommandStep ==
  ASSUME TypeOK, NEW r \in posts,
         CommandAccepted(r) \/ CommandRefused(r) \/ DeadbandRefused(r)
  PROVE  PageStep /\ posts' \subseteq posts /\ UNCHANGED <<run, test, current, seen>>
  BY DEF CommandAccepted, CommandRefused, DeadbandRefused, Show, Verdict, PageStep,
         Busy, Marks, Outcomes, Verdicts, timing

LEMMA PollStep ==
  ASSUME TypeOK, PollAnswered
  PROVE  /\ PageStep /\ UNCHANGED <<posts, run, test, current>>
         /\ \E p \in Slots : seen' = [seen EXCEPT ![p] = {}]
<1>1. PICK p \in polls :
        \/ PollWasted(p)
        \/ IntegrityFound(p) \/ EventFound(p) \/ PeriodicFound(p) \/ ToggleFound(p)
        \/ DeadbandFound(p) \/ ControlReached(p) \/ ControlUnderway(p) \/ ControlWaiting(p)
        \/ OfflinePoll(p) \/ OnlineFound(p) \/ OnlineWaiting(p)
        \/ ConnectAnswered(p) \/ LogsAnswered(p) \/ LogsFailed(p)
        \/ DefaultsAnswered(p) \/ DefaultsFailed(p)
  BY DEF PollAnswered
<1>2. PollAnswers(p)
  BY <1>1 DEF PollWasted, IntegrityFound, EventFound, PeriodicFound, ToggleFound,
              DeadbandFound, ControlReached, ControlUnderway, ControlWaiting, OfflinePoll,
              OnlineFound, OnlineWaiting, ConnectAnswered, LogsAnswered, LogsFailed,
              DefaultsAnswered, DefaultsFailed
<1>3. polls' \subseteq polls /\ UNCHANGED <<posts, run, test, current>>
      /\ seen' = [seen EXCEPT ![p] = {}] /\ p \in Slots
  BY <1>2 DEF PollAnswers, Answers, TypeOK, PageTypeOK
<1>4. marks' \subseteq marks \cup Marks
  BY <1>1 DEF PollWasted, Wasted, page, IntegrityFound, EventFound, PeriodicFound,
              ToggleFound, DeadbandFound, ControlReached, ControlUnderway, ControlWaiting,
              OfflinePoll, OnlineFound, OnlineWaiting, ConnectAnswered, LogsAnswered,
              LogsFailed, DefaultsAnswered, DefaultsFailed, Show, Busy, Marks
<1>5. pass' \in Outcomes \cup {pass} /\ result' \in Outcomes \cup {result}
  BY <1>1 DEF PollWasted, Wasted, page, IntegrityFound, EventFound, PeriodicFound,
              ToggleFound, DeadbandFound, ControlReached, ControlUnderway, ControlWaiting,
              OfflinePoll, OnlineFound, OnlineWaiting, ConnectAnswered, LogsAnswered,
              LogsFailed, DefaultsAnswered, DefaultsFailed, Verdict, Verdicts, Outcomes
<1>6. ClearTimeout \/ UNCHANGED timing
  BY <1>1 DEF PollWasted, Wasted, IntegrityFound, EventFound, PeriodicFound,
              ToggleFound, DeadbandFound, ControlReached, ControlUnderway, ControlWaiting,
              OfflinePoll, OnlineFound, OnlineWaiting, ConnectAnswered, LogsAnswered,
              LogsFailed, DefaultsAnswered, DefaultsFailed
<1>7. QED
  BY <1>3, <1>4, <1>5, <1>6 DEF PageStep

LEMMA TimeoutStep ==
  ASSUME TypeOK, TimeoutFires
  PROVE  PageStep /\ UNCHANGED <<posts, polls, run, test, current, seen>>
         /\ \E i \in alive : Fires(i)
  BY DEF TimeoutFires, TimeoutIgnored, IntegrityTimeout, EventTimeout, PeriodicTimeout,
         ToggleTimeout, DeadbandTimeout, ControlTimeout, OfflineTimeout, OnlineTimeout,
         Ignored, Expires, Elapses, Show, Verdict, PageStep, Busy, Marks, Outcomes,
         Verdicts, page

LEMMA JudgeStep ==
  ASSUME TypeOK, Judge
  PROVE  PageStep /\ UNCHANGED <<posts, polls, run, test, current, seen>>
         /\ (ClearTimeout \/ UNCHANGED timing) /\ marks' \subseteq marks
  BY DEF Judge, IntegrityJudge, EventJudge, PeriodicJudge, ToggleJudge, ControlJudge,
         OnlineJudge, Judges, Show, Verdict, PageStep, Busy, Outcomes, calls

\* A run begins: with a command, with a timeout, or with the only request.
LEMMA BeginFinds ==
  ASSUME TypeOK, Begin
  PROVE  /\ left' = left \cup {c \in Callbacks : Pending(c)}
         /\ test \in Commanding =>
              /\ MayBegin /\ posts' = posts \cup {run + 1} /\ UNCHANGED <<timing, polls>>
              /\ "loading" \in marks' /\ ("ticking" \in marks' => "ticking" \in marks)
         /\ test \notin Commanding =>
              /\ posts' = posts
              /\ (MayBegin /\ SetTimeout /\ test \notin OneShots)
                 \/ (UNCHANGED timing /\ test \in OneShots)
         /\ test \in {"1-2", "2-2"} =>
              /\ "loading" \notin marks /\ "loading" \in marks'
              /\ "ticking" \in marks' => "ticking" \in marks
              /\ \E p \in Slots : polls' = polls \cup {p}
<1> USE DEF Begins, Show, Busy, Commanding, OneShots
<1>1. CASE IntegrityBegin \/ ToggleBegin \/ DeadbandBegin \/ ControlBegin
  BY <1>1 DEF IntegrityBegin, ToggleBegin, DeadbandBegin, ControlBegin, SendsCommand
<1>2. CASE EventBegin \/ PeriodicBegin \/ OfflineBegin \/ OnlineBegin
  BY <1>2 DEF EventBegin, PeriodicBegin, OfflineBegin, OnlineBegin, Waits, calls
<1>3. CASE ConnectBegin \/ LogsBegin \/ DefaultsBegin
  BY <1>3 DEF ConnectBegin, LogsBegin, DefaultsBegin, Asks, MayBegin
<1>4. QED
  BY <1>1, <1>2, <1>3 DEF Begin

\* The steps of a run do not touch the history.
LEMMA LeftKept ==
  ASSUME [Next]_vars, ~Begin
  PROVE  left' = left
<1>1. CASE CommandAnswered
  BY <1>1 DEF CommandAnswered, CommandAccepted, CommandRefused, DeadbandRefused
<1>2. CASE PollAnswered
  <2>1. PICK p \in polls : PollAnswers(p)
    BY <1>2 DEF PollAnswered, PollWasted, IntegrityFound, EventFound, PeriodicFound,
                ToggleFound, DeadbandFound, ControlReached, ControlUnderway,
                ControlWaiting, OfflinePoll, OnlineFound, OnlineWaiting, ConnectAnswered,
                LogsAnswered, LogsFailed, DefaultsAnswered, DefaultsFailed
  <2>2. QED
    BY <2>1 DEF PollAnswers
<1>3. CASE TimeoutFires
  BY <1>3 DEF TimeoutFires, TimeoutIgnored, IntegrityTimeout, EventTimeout,
              PeriodicTimeout, ToggleTimeout, DeadbandTimeout, ControlTimeout,
              OfflineTimeout, OnlineTimeout, Elapses
<1>4. CASE Judge
  BY <1>4 DEF Judge, IntegrityJudge, EventJudge, PeriodicJudge, ToggleJudge, ControlJudge,
              OnlineJudge, Judges
<1>5. QED
  BY <1>1, <1>2, <1>3, <1>4 DEF Next, Tick, Report, vars

LEMMA HistoryTyped == TypeOK /\ [Next]_vars => left' \subseteq Callbacks
  BY BeginFinds, LeftKept DEF TypeOK

-----------------------------------------------------------------------------
(* Types.                                                                  *)

LEMMA InitTyped == Init => TypeOK
<1>1. Init => PageTypeOK
  BY DEF Init, PageInit, PageTypeOK, Outcomes
<1>2. Init => test \in AllTests
  BY TestsAssumption DEF Init
<1>3. Init => current \in Results
  BY PageAssumption DEF Init, Results
<1>4. QED
  BY <1>1, <1>2, <1>3 DEF Init, TypeOK

LEMMA StepTyped == TypeOK /\ [Next]_vars => TypeOK'
<1> SUFFICES ASSUME TypeOK, [Next]_vars PROVE TypeOK'
  OBVIOUS
<1>0. PageTypeOK /\ posts \subseteq 1..run /\ run \in Nat
      /\ seen \in [Slots -> SUBSET Results] /\ left' \subseteq Callbacks
  BY HistoryTyped DEF TypeOK, PageTypeOK
<1>1. CASE Begin
  <2>1. PageTypeOK' /\ run' = run + 1
    BY <1>0, <1>1, BeginStep, PageTyped
  <2>2. posts' \subseteq 1..run'
    <3>1. 1..run \subseteq 1..run' /\ run' \in 1..run'
      BY <1>0, <2>1
    <3>2. QED
      BY <1>0, <1>1, <2>1, <3>1, BeginStep DEF PostsStep
  <2>3. QED
    BY <1>0, <1>1, <2>1, <2>2, BeginStep DEF TypeOK
<1>2. CASE CommandAnswered
  BY <1>0, <1>2, CommandStep, PageTyped DEF CommandAnswered, TypeOK
<1>3. CASE PollAnswered
  <2>1. seen' \in [Slots -> SUBSET Results]
    BY <1>0, <1>3, PollStep
  <2>2. QED
    BY <1>0, <1>3, <2>1, PollStep, PageTyped DEF TypeOK
<1>4. CASE TimeoutFires
  BY <1>0, <1>4, TimeoutStep, PageTyped DEF TypeOK
<1>5. CASE Judge
  BY <1>0, <1>5, JudgeStep, PageTyped DEF TypeOK
<1>6. ASSUME NEW p \in Slots, Tick(p) PROVE TypeOK'
  <2>1. PageStep
    BY <1>6 DEF Tick, PageStep, page, timing
  <2>2. seen' \in [Slots -> SUBSET Results]
    BY <1>0, <1>6 DEF Tick, TypeOK
  <2>3. QED
    BY <1>0, <1>6, <2>1, <2>2, PageTyped DEF Tick, TypeOK
<1>7. ASSUME NEW r \in 1..MaxRuns, NEW says \in {"failed", "done"}, Report(r, says)
      PROVE  TypeOK'
  <2>1. PageStep
    BY <1>7 DEF Report, PageStep, page, timing, calls
  <2>2. current' \in Results
    BY <1>7, PageAssumption DEF Report, Results
  <2>3. seen' \in [Slots -> SUBSET Results]
    BY <1>0, <1>7, <2>2 DEF Report
  <2>4. QED
    BY <1>0, <1>7, <2>1, <2>2, <2>3, PageTyped DEF Report, calls, TypeOK
<1>8. CASE UNCHANGED vars
  <2>1. PageStep
    BY <1>8 DEF vars, PageStep, page, timing, calls
  <2>2. QED
    BY <1>0, <1>8, <2>1, PageTyped DEF vars, calls, TypeOK
<1>9. QED
  BY <1>1, <1>2, <1>3, <1>4, <1>5, <1>6, <1>7, <1>8 DEF Next

\* Every reachable state of a page is well typed.
THEOREM PagesTyped == Spec => []TypeOK
  BY InitTyped, StepTyped, PTL DEF Spec

-----------------------------------------------------------------------------
(* The page and the sidebar.                                               *)

\* Tick and Report leave the page as it is.
LEMMA PageSteps ==
  ASSUME TypeOK, [Next]_vars
  PROVE  \/ Begin \/ CommandAnswered \/ PollAnswered \/ TimeoutFires \/ Judge
         \/ UNCHANGED <<page, timing, posts, run, test>> /\ polls \subseteq polls'
  BY DEF Next, Tick, Report, vars, calls

LEMMA TestKept == TypeOK /\ [Next]_vars => test' = test
  BY PageSteps, BeginStep, CommandStep, PollStep, TimeoutStep, JudgeStep DEF CommandAnswered

LEMMA StepAgrees == TypeOK /\ SidebarAgrees /\ [Next]_vars => SidebarAgrees'
<1> SUFFICES ASSUME TypeOK, SidebarAgrees, [Next]_vars, test \notin {"1-2", "5-1"}
             PROVE  pass' = result'
  BY TestKept DEF SidebarAgrees
<1> USE DEF SidebarAgrees, Verdict
<1>1. CASE Begin
  BY <1>1 DEF Begin, IntegrityBegin, EventBegin, PeriodicBegin, ToggleBegin, DeadbandBegin,
              ControlBegin, OfflineBegin, OnlineBegin, ConnectBegin, LogsBegin,
              DefaultsBegin, Begins
<1>2. CASE CommandAnswered
  BY <1>2 DEF CommandAnswered, CommandAccepted, CommandRefused, DeadbandRefused
<1>3. CASE PollAnswered
  BY <1>3 DEF PollAnswered, PollWasted, Wasted, page, IntegrityFound, EventFound,
              PeriodicFound, ToggleFound, DeadbandFound, ControlReached, ControlUnderway,
              ControlWaiting, OfflinePoll, OnlineFound, OnlineWaiting, ConnectAnswered,
              LogsAnswered, LogsFailed, DefaultsAnswered, DefaultsFailed
<1>4. CASE TimeoutFires
  BY <1>4 DEF TimeoutFires, TimeoutIgnored, Ignored, page, IntegrityTimeout, EventTimeout,
              PeriodicTimeout, ToggleTimeout, DeadbandTimeout, ControlTimeout,
              OfflineTimeout, OnlineTimeout
<1>5. CASE Judge
  BY <1>5 DEF Judge, IntegrityJudge, EventJudge, PeriodicJudge, ToggleJudge, ControlJudge,
              OnlineJudge
<1>6. CASE UNCHANGED page
  BY <1>6 DEF page
<1>7. QED
  BY <1>1, <1>2, <1>3, <1>4, <1>5, <1>6, PageSteps

\* The page of a test and the sidebar show the same verdict.
THEOREM SidebarFollows == Spec => []SidebarAgrees
<1>1. Init => SidebarAgrees
  BY DEF Init, PageInit, SidebarAgrees
<1>2. QED
  BY <1>1, StepAgrees, PagesTyped, PTL DEF Spec

-----------------------------------------------------------------------------
(* What a run leaves to the next.                                          *)

\* No run so far has found a poll or a command.
Quiet == left \cap {"poll", "command"} = {}

\* Then the stored handle is that of the only timeout, and the command, which has no
\* timeout yet, is the run's.  Where nothing is commanded the handle is right anyway.
Stored == test \notin Commanding \/ Quiet => alive \subseteq {handle}
Lone ==
  test \in Commanding /\ Quiet => posts \subseteq {run} /\ (posts # {} => alive = {})

\* In three tests the spinner is shown while the command, or the interval, goes on.
Shown ==
  test \in {"2-1", "3-1", "3-8"} /\ "poll" \notin left =>
    /\ "ticking" \in marks => "loading" \in marks
    /\ posts # {} => polls = {} /\ "loading" \in marks /\ "ticking" \notin marks

\* And while the only request of a one-shot does.
Asking ==
  test \in {"1-2", "2-2"} =>
    /\ "ticking" \notin marks
    /\ polls # {} => "loading" \in marks
    /\ \A p, q \in polls : p = q

Spared ==
  /\ test \notin Commanding => posts = {}
  /\ test \in OneShots => alive = {}

LeftParts == Stored /\ Lone /\ Shown /\ Asking /\ Spared /\ OnlyPollsLinger

LeftInv == TypeOK /\ LeftParts

\* The command of one of the three tests that Shown is about is the only one.
LEMMA OneCommand ==
  ASSUME LeftInv, test \in {"2-1", "3-1", "3-8"}, "poll" \notin left
  PROVE  Quiet /\ posts \subseteq {run} /\ (posts # {} => alive = {})
  BY DEF LeftInv, LeftParts, OnlyPollsLinger, Quiet, Lone, Commanding

\* The history and the test stay as they are, and with them what is said of left.
LEMMA SameHistory ==
  ASSUME LeftInv, left' = left, test' = test
  PROVE  OnlyPollsLinger' /\ (Quiet' <=> Quiet)
  BY DEF LeftInv, LeftParts, OnlyPollsLinger, Quiet

\* A run of a test that commands begins where the only leftovers are polls, and what
\* a poll has left.
LEMMA CommandingLeft ==
  ASSUME LeftInv, Begin, test \in Commanding
  PROVE  LeftParts'
<1>1. /\ TypeOK /\ test' = test /\ alive \subseteq 1..timers /\ timers \in Nat
      /\ run \in Nat /\ run' = run + 1
  BY BeginStep DEF LeftInv, TypeOK, PageTypeOK
<1>2. /\ "poll" \in left' <=> "poll" \in left \/ polls # {}
      /\ "command" \in left' <=> "command" \in left \/ posts # {}
      /\ "timeout" \in left' <=> "timeout" \in left \/ alive # {}
  BY <1>1, BeginFinds DEF Callbacks, Pending
<1>3. Quiet' => Quiet /\ polls = {} /\ posts = {}
  BY <1>2 DEF Quiet
<1>4. /\ MayBegin /\ posts' = posts \cup {run + 1} /\ alive' = alive /\ handle' = handle
      /\ polls' = polls
      /\ "loading" \in marks' /\ ("ticking" \in marks' => "ticking" \in marks)
  BY <1>1, BeginFinds DEF timing
<1>5. Quiet => alive = {}
  BY <1>1, <1>4 DEF LeftInv, LeftParts, Stored, MayBegin
<1>6. Stored' /\ Lone'
  BY <1>1, <1>3, <1>4, <1>5 DEF Stored, Lone
<1>7. ASSUME test \in {"2-1", "3-1", "3-8"}, "poll" \notin left
      PROVE  posts = {} /\ "ticking" \notin marks
  BY <1>4, <1>7 DEF LeftInv, LeftParts, Shown, MayBegin
<1>8. Shown'
  BY <1>1, <1>2, <1>4, <1>7 DEF Shown
<1>9. Asking' /\ Spared'
  BY <1>1 DEF Asking, Spared, Commanding, OneShots
<1>10. OnlyPollsLinger'
  <2>1. "timeout" \in left' => left' \cap {"poll", "command"} # {}
    BY <1>2, <1>5 DEF LeftInv, LeftParts, OnlyPollsLinger, Quiet
  <2>2. "command" \in left' => test = "3-2" \/ "poll" \in left'
    BY <1>2, <1>7 DEF LeftInv, LeftParts, OnlyPollsLinger, Commanding
  <2>3. QED
    BY <1>1, <2>1, <2>2 DEF OnlyPollsLinger, Commanding
<1>11. QED
  BY <1>6, <1>8, <1>9, <1>10 DEF LeftParts

\* A run of a test that commands nothing begins without a timeout.
LEMMA WaitingLeft ==
  ASSUME LeftInv, Begin, test \notin Commanding
  PROVE  LeftParts'
<1>1. /\ TypeOK /\ test' = test /\ alive \subseteq 1..timers /\ timers \in Nat
      /\ posts = {}
  BY BeginStep DEF LeftInv, LeftParts, Spared, TypeOK, PageTypeOK
<1>2. /\ "poll" \in left' <=> "poll" \in left \/ polls # {}
      /\ "command" \in left' <=> "command" \in left \/ posts # {}
      /\ "timeout" \in left' <=> "timeout" \in left \/ alive # {}
  BY <1>1, BeginFinds DEF Callbacks, Pending
<1>3. alive = {}
  BY <1>1, BeginFinds DEF LeftInv, LeftParts, Stored, Spared, MayBegin
<1>4. /\ posts' = posts
      /\ (SetTimeout /\ test \notin OneShots) \/ UNCHANGED timing
  BY BeginFinds DEF LeftInv
<1>5. Stored'
  BY <1>3, <1>4 DEF Stored, SetTimeout, timing
<1>6. Lone' /\ Shown' /\ Spared'
  BY <1>1, <1>3, <1>4 DEF Lone, Shown, Spared, Commanding, timing
<1>7. test \in {"1-2", "2-2"} => polls = {}
  BY BeginFinds DEF LeftInv, LeftParts, Asking
<1>8. Asking'
  BY <1>1, <1>7, BeginFinds DEF LeftInv, LeftParts, Asking
<1>9. OnlyPollsLinger'
  BY <1>1, <1>2, <1>3, <1>7 DEF LeftInv, LeftParts, OnlyPollsLinger
<1>10. QED
  BY <1>5, <1>6, <1>8, <1>9 DEF LeftParts

\* A command is answered: the timeout it sets is the only one, or an earlier run has
\* left a poll or a command.
LEMMA CommandLeft ==
  ASSUME LeftInv, NEW r \in posts, left' = left,
         CommandAccepted(r) \/ CommandRefused(r) \/ DeadbandRefused(r)
  PROVE  LeftParts'
<1>1. /\ test' = test /\ posts' = posts \ {r} /\ test \in Commanding
      /\ UNCHANGED <<polls, run>>
  BY DEF CommandAccepted, CommandRefused, DeadbandRefused, Commanding
<1>2. (SetTimeout /\ marks' = marks \cup {"ticking"})
      \/ (UNCHANGED timing /\ marks' = marks \ Busy)
  BY DEF CommandAccepted, CommandRefused, DeadbandRefused, Show
<1>3. OnlyPollsLinger' /\ (Quiet' <=> Quiet)
  BY <1>1, SameHistory
<1>4. Quiet => alive = {} /\ posts' = {}
  BY <1>1 DEF LeftInv, LeftParts, Lone
<1>5. Stored' /\ Lone'
  BY <1>1, <1>2, <1>3, <1>4 DEF Stored, Lone, SetTimeout, timing
<1>6. Shown'
  <2>1. SUFFICES ASSUME test \in {"2-1", "3-1", "3-8"}, "poll" \notin left
                 PROVE  posts' = {} /\ ("ticking" \in marks' => "loading" \in marks')
    BY <1>1 DEF Shown
  <2>2. posts' = {}
    BY <1>4, <2>1, OneCommand
  <2>3. "loading" \in marks /\ "ticking" \notin marks
    BY <2>1 DEF LeftInv, LeftParts, Shown
  <2>4. QED
    BY <1>2, <2>2, <2>3 DEF Busy
<1>7. Asking' /\ Spared'
  BY <1>1 DEF Asking, Spared, Commanding, OneShots
<1>8. QED
  BY <1>3, <1>5, <1>6, <1>7 DEF LeftParts

\* The stored timeout is cancelled or fires, or nothing of it changes.
LEMMA TimersLeft ==
  ASSUME LeftInv, left' = left, UNCHANGED <<test, run, posts>>,
         ClearTimeout \/ (\E i \in alive : Fires(i)) \/ UNCHANGED timing
  PROVE  Stored' /\ Lone' /\ Spared'
<1>1. Quiet' <=> Quiet
  BY DEF Quiet
<1>2. alive' \subseteq alive /\ (alive \subseteq {handle} => alive' \subseteq {handle'})
  BY DEF ClearTimeout, Fires, timing
<1>3. QED
  BY <1>1, <1>2 DEF LeftInv, LeftParts, Stored, Lone, Spared

\* A poll is answered.
LEMMA PollLeft ==
  ASSUME LeftInv, PollAnswered, left' = left
  PROVE  LeftParts'
<1>1. PICK p \in polls :
        \/ PollWasted(p)
        \/ IntegrityFound(p) \/ EventFound(p) \/ PeriodicFound(p) \/ ToggleFound(p)
        \/ DeadbandFound(p) \/ ControlReached(p) \/ ControlUnderway(p) \/ ControlWaiting(p)
        \/ OfflinePoll(p) \/ OnlineFound(p) \/ OnlineWaiting(p)
        \/ ConnectAnswered(p) \/ LogsAnswered(p) \/ LogsFailed(p)
        \/ DefaultsAnswered(p) \/ DefaultsFailed(p)
  BY DEF PollAnswered
<1>2. PollAnswers(p)
  BY <1>1 DEF PollWasted, IntegrityFound, EventFound, PeriodicFound, ToggleFound,
              DeadbandFound, ControlReached, ControlUnderway, ControlWaiting, OfflinePoll,
              OnlineFound, OnlineWaiting, ConnectAnswered, LogsAnswered, LogsFailed,
              DefaultsAnswered, DefaultsFailed
<1>3. UNCHANGED <<posts, run, test>> /\ polls' = polls \ {p}
  BY <1>2 DEF PollAnswers, Answers
<1>4. ClearTimeout \/ UNCHANGED timing
  BY <1>1 DEF PollWasted, Wasted, IntegrityFound, EventFound, PeriodicFound,
              ToggleFound, DeadbandFound, ControlReached, ControlUnderway, ControlWaiting,
              OfflinePoll, OnlineFound, OnlineWaiting, ConnectAnswered, LogsAnswered,
              LogsFailed, DefaultsAnswered, DefaultsFailed
<1>5. Stored' /\ Lone' /\ Spared' /\ OnlyPollsLinger'
  BY <1>3, <1>4, TimersLeft, SameHistory
<1>6. Shown'
  <2>1. SUFFICES ASSUME test \in {"2-1", "3-1", "3-8"}, "poll" \notin left
                 PROVE  posts = {} /\ ("ticking" \in marks' => "loading" \in marks')
    BY <1>3 DEF Shown
  <2>2. posts = {} /\ ("ticking" \in marks => "loading" \in marks)
    BY <2>1 DEF LeftInv, LeftParts, Shown
  <2>3. marks' = marks \/ "ticking" \notin marks'
    BY <1>1, <2>1
    DEF PollWasted, Wasted, page, IntegrityFound, EventFound, PeriodicFound, ToggleFound,
        DeadbandFound, ControlReached, ControlUnderway, ControlWaiting, OfflinePoll,
        OnlineFound, OnlineWaiting, ConnectAnswered, LogsAnswered, LogsFailed,
        DefaultsAnswered, DefaultsFailed, Show
  <2>4. QED
    BY <2>2, <2>3
<1>7. Asking'
  <2>1. SUFFICES ASSUME test \in {"1-2", "2-2"} PROVE "ticking" \notin marks' /\ polls' = {}
    BY <1>3 DEF Asking
  <2>2. polls' = {}
    BY <1>3, <2>1 DEF LeftInv, LeftParts, Asking
  <2>3. marks' \subseteq marks
    BY <1>1, <2>1
    DEF PollWasted, OneShots, IntegrityFound, EventFound, PeriodicFound, ToggleFound,
        DeadbandFound, ControlReached, ControlUnderway, ControlWaiting, OfflinePoll,
        OnlineFound, OnlineWaiting, ConnectAnswered, LogsAnswered, LogsFailed,
        DefaultsAnswered, DefaultsFailed, Show
  <2>4. QED
    BY <2>1, <2>2, <2>3 DEF LeftInv, LeftParts, Asking
<1>8. QED
  BY <1>5, <1>6, <1>7 DEF LeftParts

\* A timeout fires.
LEMMA TimeoutLeft ==
  ASSUME LeftInv, TimeoutFires, left' = left
  PROVE  LeftParts'
<1>1. UNCHANGED <<posts, polls, run, test>> /\ \E i \in alive : Fires(i)
  BY TimeoutStep DEF LeftInv
<1>2. Stored' /\ Lone' /\ Spared' /\ OnlyPollsLinger'
  BY <1>1, TimersLeft, SameHistory
<1>3. marks' = marks \/ "ticking" \notin marks'
  BY DEF TimeoutFires, TimeoutIgnored, Ignored, page, IntegrityTimeout, EventTimeout,
         PeriodicTimeout, ToggleTimeout, DeadbandTimeout, ControlTimeout, OfflineTimeout,
         OnlineTimeout, Expires, Show
<1>4. Shown'
  <2>1. SUFFICES ASSUME test \in {"2-1", "3-1", "3-8"}, "poll" \notin left
                 PROVE  posts = {} /\ ("ticking" \in marks' => "loading" \in marks')
    BY <1>1 DEF Shown
  <2>2. posts = {}
    BY <1>1, <2>1, OneCommand
  <2>3. QED
    BY <1>3, <2>1, <2>2 DEF LeftInv, LeftParts, Shown
<1>5. Asking'
  BY <1>1 DEF LeftInv, LeftParts, Asking, Spared, OneShots
<1>6. QED
  BY <1>2, <1>4, <1>5 DEF LeftParts

\* The human judges.
LEMMA JudgeLeft ==
  ASSUME LeftInv, Judge, left' = left
  PROVE  LeftParts'
<1>1. UNCHANGED <<posts, polls, run, test>> /\ (ClearTimeout \/ UNCHANGED timing)
  BY JudgeStep DEF LeftInv
<1>2. Stored' /\ Lone' /\ Spared' /\ OnlyPollsLinger'
  BY <1>1, TimersLeft, SameHistory
<1>3. test \in {"2-1", "3-1", "3-8"} => marks' = marks
  BY DEF Judge, IntegrityJudge, EventJudge, PeriodicJudge, ToggleJudge, ControlJudge,
         OnlineJudge
<1>4. test \notin {"1-2", "2-2"}
  BY DEF Judge, IntegrityJudge, EventJudge, PeriodicJudge, ToggleJudge, ControlJudge,
         OnlineJudge
<1>5. Shown' /\ Asking'
  BY <1>1, <1>3, <1>4 DEF LeftInv, LeftParts, Shown, Asking
<1>6. QED
  BY <1>2, <1>5 DEF LeftParts

\* A tick asks once more, and a report changes nothing of the page.
LEMMA RestLeft ==
  ASSUME LeftInv, left' = left, UNCHANGED <<page, timing, posts, run, test>>,
         polls' = polls \/ ("ticking" \in marks /\ polls \subseteq polls')
  PROVE  LeftParts'
<1>1. marks' = marks
  BY DEF page
<1>2. Stored' /\ Lone' /\ Spared' /\ OnlyPollsLinger'
  BY TimersLeft, SameHistory
<1>3. Shown'
  BY <1>1 DEF LeftInv, LeftParts, Shown
<1>4. Asking'
  BY <1>1 DEF LeftInv, LeftParts, Asking
<1>5. QED
  BY <1>2, <1>3, <1>4 DEF LeftParts

LEMMA StepLeft == LeftInv /\ [Next]_vars => LeftParts'
<1> SUFFICES ASSUME LeftInv, [Next]_vars PROVE LeftParts'
  OBVIOUS
<1>1. CASE Begin
  BY <1>1, CommandingLeft, WaitingLeft
<1>2. CASE ~Begin
  <2>1. left' = left
    BY <1>2, LeftKept
  <2>2. CASE CommandAnswered
    BY <2>1, <2>2, CommandLeft DEF CommandAnswered
  <2>3. CASE PollAnswered \/ TimeoutFires \/ Judge
    BY <2>1, <2>3, PollLeft, TimeoutLeft, JudgeLeft
  <2>4. ASSUME NEW p \in Slots, Tick(p) PROVE LeftParts'
    BY <2>1, <2>4, RestLeft DEF Tick
  <2>5. ASSUME NEW r \in 1..MaxRuns, NEW says \in {"failed", "done"}, Report(r, says)
        PROVE  LeftParts'
    BY <2>1, <2>5, RestLeft DEF Report, calls
  <2>6. CASE UNCHANGED vars
    BY <2>1, <2>6, RestLeft DEF vars, calls
  <2>7. QED
    BY <1>2, <2>2, <2>3, <2>4, <2>5, <2>6 DEF Next
<1>3. QED
  BY <1>1, <1>2

\* However often a test is run and whatever comes late, a run finds no timeout of an
\* earlier one but in a test that commands, and there only once a run has found a poll
\* or a command; and a command only once a run has found a poll, or in 3-2.
THEOREM LittleIsLeft == Spec => []OnlyPollsLinger
<1>1. Init => LeftInv
  <2>1. Init => LeftParts
    BY DEF Init, PageInit, LeftParts, Stored, Lone, Shown, Asking, Spared, OnlyPollsLinger
  <2>2. QED
    BY <2>1, InitTyped DEF LeftInv
<1>2. LeftInv /\ [Next]_vars => LeftInv'
  BY StepLeft, StepTyped DEF LeftInv
<1>3. LeftInv => OnlyPollsLinger
  BY DEF LeftInv, LeftParts
<1>4. QED
  BY <1>1, <1>2, <1>3, PTL DEF Spec
-----------------------------------------------------------------------------
(* Spinners.                                                               *)

\* What the flags of a page say of its spinner: a run whose data was found, or
\* that has been put before the human, is over.  3-2 keeps its buttons instead,
\* and 1-1 has no spinner.
Flags ==
  /\ test \in {"2-3", "2-4", "3-1"} /\ "judge" \in marks => "loading" \notin marks
  /\ test \in {"2-1", "3-1", "3-8", "5-2"} /\ "wanted" \in marks => "loading" \notin marks
  /\ test = "3-2" /\ "wanted" \in marks => "judge" \in marks
  /\ test = "1-1" => "loading" \notin marks

\* NeverStuck, test by test.
Watched ==
  "loading" \in marks =>
    /\ test \in OneShots => polls # {}
    /\ test = "3-2" => posts # {} \/ alive # {} \/ "judge" \in marks
    /\ test \in {"2-3", "2-4"} => "ticking" \in marks
    /\ test \in {"2-1", "3-1", "3-8", "5-2"} => posts # {} \/ alive # {}

RunInv == TypeOK /\ Flags /\ Watched

LEMMA StepRun == RunInv /\ [Next]_vars => (Flags /\ Watched)'
<1> SUFFICES ASSUME RunInv, [Next]_vars PROVE (Flags /\ Watched)'
  OBVIOUS
<1> USE DEF RunInv, Flags, Watched, OneShots, Show, Verdict, Busy
<1>0. test' = test
  BY TestKept
<1>1. CASE Begin
  <2>1. CASE IntegrityBegin \/ ToggleBegin \/ DeadbandBegin \/ ControlBegin
    BY <1>0, <2>1 DEF IntegrityBegin, ToggleBegin, DeadbandBegin, ControlBegin, Begins,
                      SendsCommand
  <2>2. CASE EventBegin \/ PeriodicBegin \/ OfflineBegin \/ OnlineBegin
    BY <1>0, <2>2 DEF EventBegin, PeriodicBegin, OfflineBegin, OnlineBegin, Begins, Waits,
                      SetTimeout
  <2>3. CASE ConnectBegin \/ LogsBegin \/ DefaultsBegin
    BY <1>0, <2>3 DEF ConnectBegin, LogsBegin, DefaultsBegin, Begins, Asks
  <2>4. QED
    BY <1>1, <2>1, <2>2, <2>3 DEF Begin
<1>2. ASSUME NEW r \in posts, CommandAccepted(r) PROVE (Flags /\ Watched)'
  BY <1>0, <1>2 DEF CommandAccepted, SetTimeout, Commanding
<1>3. ASSUME NEW r \in posts, CommandRefused(r) \/ DeadbandRefused(r)
      PROVE  (Flags /\ Watched)'
  BY <1>0, <1>3 DEF CommandRefused, DeadbandRefused, Commanding
<1>4. ASSUME NEW p \in polls, IntegrityFound(p) \/ EventFound(p) \/ PeriodicFound(p)
                                \/ ToggleFound(p) \/ DeadbandFound(p) \/ ControlReached(p)
      PROVE  (Flags /\ Watched)'
  BY <1>0, <1>4 DEF IntegrityFound, EventFound, PeriodicFound, ToggleFound, DeadbandFound,
                    ControlReached
<1>5. ASSUME NEW p \in polls, ControlUnderway(p) \/ ControlWaiting(p)
      PROVE  (Flags /\ Watched)'
  BY <1>0, <1>5 DEF ControlUnderway, ControlWaiting
<1>6. ASSUME NEW p \in polls, OfflinePoll(p) PROVE (Flags /\ Watched)'
  <2>1. test = "5-1"
    BY <1>6 DEF OfflinePoll
  <2>2. QED
    BY <1>0, <2>1
<1>7. ASSUME NEW p \in polls, OnlineFound(p) \/ OnlineWaiting(p)
      PROVE  (Flags /\ Watched)'
  BY <1>0, <1>7 DEF OnlineFound, OnlineWaiting, PollAnswers, timing
<1>8. ASSUME NEW p \in polls, ConnectAnswered(p) \/ LogsAnswered(p) \/ LogsFailed(p)
                                \/ DefaultsAnswered(p) \/ DefaultsFailed(p)
      PROVE  (Flags /\ Watched)'
  <2>1. test \in OneShots /\ "loading" \notin marks'
    BY <1>8 DEF ConnectAnswered, LogsAnswered, LogsFailed, DefaultsAnswered, DefaultsFailed
  <2>2. QED
    BY <1>0, <2>1
<1>9. ASSUME NEW p \in polls, PollWasted(p) PROVE (Flags /\ Watched)'
  BY <1>0, <1>9 DEF PollWasted, Wasted, PollAnswers, page, timing
<1>10. ASSUME NEW i \in alive, TimeoutIgnored(i) PROVE (Flags /\ Watched)'
  BY <1>0, <1>10 DEF TimeoutIgnored, Ignored, Elapses, page
<1>11. CASE TimeoutFires /\ ~\E i \in alive : TimeoutIgnored(i)
  <2>1. "loading" \notin marks'
    BY <1>11 DEF TimeoutFires, IntegrityTimeout, EventTimeout, PeriodicTimeout,
                 ToggleTimeout, DeadbandTimeout, ControlTimeout, OfflineTimeout,
                 OnlineTimeout, Expires
  <2>2. "wanted" \notin marks'
    BY <1>11 DEF TimeoutFires, IntegrityTimeout, EventTimeout, PeriodicTimeout,
                 ToggleTimeout, DeadbandTimeout, ControlTimeout, OfflineTimeout,
                 OnlineTimeout, Expires
  <2>3. QED
    BY <1>0, <2>1, <2>2
<1>12. CASE Judge
  <2>1. PICK v \in Verdicts :
          \/ IntegrityJudge(v) \/ EventJudge(v) \/ PeriodicJudge(v) \/ ToggleJudge(v)
          \/ ControlJudge(v) \/ OnlineJudge(v)
    BY <1>12 DEF Judge
  <2>2. CASE IntegrityJudge(v)
    BY <1>0, <2>2 DEF IntegrityJudge, Judges, calls, timing
  <2>3. CASE EventJudge(v) \/ PeriodicJudge(v) \/ ToggleJudge(v)
    BY <1>0, <2>3 DEF EventJudge, PeriodicJudge, ToggleJudge, Judges
  <2>4. CASE ControlJudge(v) \/ OnlineJudge(v)
    BY <1>0, <2>4 DEF ControlJudge, OnlineJudge
  <2>5. QED
    BY <2>1, <2>2, <2>3, <2>4
<1>13. CASE UNCHANGED <<page, timing, posts, run, test>> /\ polls \subseteq polls'
  BY <1>13 DEF page, timing
<1>14. QED
  BY <1>1, <1>2, <1>3, <1>4, <1>5, <1>6, <1>7, <1>8, <1>9, <1>10, <1>11, <1>12, <1>13,
     PageSteps
  DEF CommandAnswered, PollAnswered

LEMMA InitRun == Init => Flags /\ Watched
  BY DEF Init, PageInit, Flags, Watched

LEMMA RunsGoOn == Spec => []RunInv
<1>1. Init => RunInv
  BY InitRun, InitTyped DEF RunInv
<1>2. RunInv /\ [Next]_vars => RunInv'
  BY StepRun, StepTyped DEF RunInv
<1>3. QED
  BY <1>1, <1>2, PTL DEF Spec

\* While the button is disabled something is still to come that enables it.
THEOREM PagesAreNotStuck == Spec => []NeverStuck
<1>1. Watched => NeverStuck
  BY DEF Watched, NeverStuck, OneShots
<1>2. RunInv => NeverStuck
  BY <1>1 DEF RunInv
<1>3. QED
  BY <1>2, RunsGoOn, PTL

=============================================================================
