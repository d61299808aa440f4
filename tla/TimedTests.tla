----------------------------- MODULE TimedTests -----------------------------
(***************************************************************************)
(* The tests of the browser but 4-1: one page, that of `test`, with the    *)
(* command or none it sends, the polls of the log tables every few seconds *)
(* and the timeout that ends the run.  Every page is its own copy of the   *)
(* same code, and they differ in what they reset, cancel and overwrite.    *)
(*                                                                         *)
(*   2-1  TestTwoOne       2-3  TestTwoThree      2-4  TestTwoFour         *)
(*   3-1  ToggleAutoControl (3-6)  3-2  ControlTest (3-3, 3-4, 3-5, 3-7)   *)
(*   3-8  TestThreeEight   5-1  OfflineTest (6-1) 5-2  ReOnLineTest (6-2)  *)
(*   1-1, 1-2, 2-2: one request and no timeout                             *)
(***************************************************************************)
EXTENDS TestPage

CONSTANT Tests  \* the tests an instance is about

OneShots   == {"1-1", "1-2", "2-2"}
Commanding == {"2-1", "3-1", "3-2", "3-8"}
AllTests   == OneShots \cup Commanding \cup {"2-3", "2-4", "5-1", "5-2"}

ASSUME TestsAssumption == Tests \subseteq AllTests

VARIABLES
  test,     \* the page's testId
  posts,    \* runs whose command has not been answered
  current,  \* the control plant's control result in LogCurrent
  seen,     \* the values each poll's query may have read
  left      \* history: which of Callbacks a run has found there when it began

calls == <<posts, polls>>
vars  == <<page, timing, calls, run, test, current, seen, left>>

\* What a run may leave in the event loop.
Callbacks == {"poll", "command", "timeout"}

\* LogCurrent keeps the last result: of command number cmd, 0 for one of another
\* test or session.
Results == [cmd : 0..MaxRuns, says : {"failed", "done"}]

Plants == {"control", "uncontrol"}

\* The rows an answer may bring, with the values the test looks for or without.
Rows == [plant : Plants, good : BOOLEAN]

\* How old the rows are that 5-1 reads: of after the run's begin, or longer than
\* 15 minutes ago, or between.
Ages == {"new", "recent", "old"}

Init ==
  /\ PageInit /\ posts = {}
  /\ test \in Tests
  /\ current \in [cmd : {0}, says : {"failed", "done"}]
  /\ seen = [p \in Slots |-> {}]
  /\ left = {}

Pending(c) ==
  CASE c = "poll" -> polls # {} [] c = "command" -> posts # {} [] c = "timeout" -> alive # {}

\* handleTestBegin clears the verdict and shows the spinners; what it resets
\* besides (off) differs.
Begins(on, off) ==
  /\ run' = run + 1
  /\ Show(on, off) /\ Verdict("none")
  /\ left' = left \cup {c \in Callbacks : Pending(c)}
  /\ UNCHANGED <<test, current, seen>>

SendsCommand == posts' = posts \cup {run + 1} /\ UNCHANGED <<timing, polls>>

\* A test that commands nothing sets its timers at once.
Waits == SetTimeout /\ UNCHANGED calls

PollAnswers(p) ==
  /\ Answers(p)
  /\ seen' = [seen EXCEPT ![p] = {}]
  /\ UNCHANGED <<posts, test, current, left>>

\* A one-shot's only request.
Asks(p) == p \in Slots \ polls /\ polls' = polls \cup {p} /\ UNCHANGED <<posts, timing>>

Judges == "judge" \in marks /\ UNCHANGED <<calls, run, test, current, seen, left>>

Elapses == UNCHANGED <<posts, test, current, seen, left>>

-----------------------------------------------------------------------------
(* Common to the timed tests.                                              *)

\* The command was accepted: the timers start.
CommandAccepted(r) ==
  /\ test \in Commanding /\ r \in posts
  /\ posts' = posts \ {r}
  /\ SetTimeout /\ Show({"ticking"}, {})
  /\ UNCHANGED <<pass, result, polls, run, test, current, seen, left>>

\* It was refused, or its answer lost.
CommandRefused(r) ==
  /\ test \in Commanding \ {"3-8"} /\ r \in posts
  /\ posts' = posts \ {r}
  /\ Show({}, Busy)
  /\ UNCHANGED <<pass, result, timing, polls, run, test, current, seen, left>>

Tick(p) ==
  /\ "ticking" \in marks
  /\ p \in Slots \ polls
  /\ polls' = polls \cup {p}
  /\ seen' = [seen EXCEPT ![p] = IF test = "3-1" THEN {current} ELSE {}]
  /\ UNCHANGED <<page, timing, posts, run, test, current, left>>

PollWasted(p) == test \notin OneShots /\ Wasted(p) /\ PollAnswers(p)

TimeoutIgnored(i) == Ignored(i) /\ Elapses

\* The plant reports how it fared with a command of this run or an earlier one.
Report(r, says) ==
  /\ test = "3-1" /\ r \in current.cmd + 1 .. run
  /\ current' = [cmd |-> r, says |-> says]
  /\ seen' = [p \in Slots |-> IF p \in polls THEN seen[p] \cup {current'} ELSE {}]
  /\ UNCHANGED <<page, timing, calls, run, test, left>>

-----------------------------------------------------------------------------
(* 2-1 TestTwoOne.js: poll the plant, wait for a complete record, ask.     *)

\* Mutant of IntegrityBegin: the flag is not reset, as in 2-3.
IntegrityBeginKept ==
  /\ test = "2-1" /\ MayBegin
  /\ Begins(Busy, {}) /\ SendsCommand

IntegrityBegin ==
  /\ test = "2-1" /\ MayBegin
  /\ Begins(Busy, {"wanted"}) /\ SendsCommand

IntegrityFound(p) ==
  /\ test = "2-1" /\ PollAnswers(p)
  /\ ClearTimeout
  /\ Show({"wanted", "judge"}, Busy \cup {"ticking"})
  /\ UNCHANGED <<pass, result>>

\* Mutant of IntegrityTimeout: a field of setState misspelt.
IntegrityTimeoutTypo(i) ==
  /\ test = "2-1" /\ Expires(i, {"judgement"}) /\ Elapses
  /\ UNCHANGED <<pass, result>>

IntegrityTimeout(i) ==
  /\ test = "2-1" /\ Expires(i, {"judge"}) /\ Elapses
  /\ UNCHANGED <<pass, result>>

IntegrityJudge(v) == test = "2-1" /\ Judges /\ Verdict(v) /\ UNCHANGED <<marks, timing>>

-----------------------------------------------------------------------------
(* 2-3 TestTwoThree.js: wait for an event.  The flag that data was found   *)
(* is never reset.                                                         *)

EventBegin ==
  /\ test = "2-3" /\ MayBegin
  /\ Begins(Busy \cup {"ticking"}, {"judge"}) /\ Waits

EventFound(p) ==
  /\ test = "2-3" /\ PollAnswers(p)
  /\ ClearTimeout
  /\ Show({"wanted", "judge"}, Busy \cup {"ticking"})
  /\ UNCHANGED <<pass, result>>

EventTimeout(i) ==
  /\ test = "2-3" /\ Expires(i, {"judge"}) /\ Elapses
  /\ UNCHANGED <<pass, result>>

EventJudge(v) == test = "2-3" /\ Judges /\ Verdict(v) /\ UNCHANGED <<marks, timing>>

-----------------------------------------------------------------------------
(* 2-4 TestTwoFour.js: wait for periodic records of both plants; the flag  *)
(* is not reset here either.                                               *)

PeriodicBegin ==
  /\ test = "2-4" /\ MayBegin
  /\ Begins(Busy \cup {"ticking"}, {"judge"}) /\ Waits

PeriodicFound(p) ==
  /\ test = "2-4" /\ PollAnswers(p)
  /\ ClearTimeout
  /\ Show({"wanted", "judge"}, Busy \cup {"ticking"})
  /\ UNCHANGED <<pass, result>>

PeriodicTimeout(i) ==
  /\ test = "2-4" /\ Expires(i, {"judge"}) /\ Elapses
  /\ UNCHANGED <<pass, result>>

\* The verdict cancels what is still set, here and in 3-2 and 5-2.
PeriodicJudge(v) ==
  /\ test = "2-4" /\ Judges
  /\ Verdict(v) /\ ClearTimeout /\ Show({}, {"ticking"})

-----------------------------------------------------------------------------
(* 3-1 ToggleAutoControl.js: send a control, wait for its success.         *)

ToggleBegin ==
  /\ test = "3-1" /\ MayBegin
  /\ Begins(Busy, {"wanted", "judge"}) /\ SendsCommand

\* checkData looks at the result alone, not at the command it is of.
ToggleFound(p) ==
  /\ test = "3-1" /\ PollAnswers(p)
  /\ \E row \in seen[p] : row.says = "done"
  /\ ClearTimeout
  /\ Show({"wanted", "judge"}, Busy \cup {"ticking"})
  /\ Verdict("pass")

\* Mutant of ToggleTimeout: the sidebar is not told.
ToggleTimeoutSilent(i) ==
  /\ test = "3-1" /\ Expires(i, {"judge"}) /\ Elapses
  /\ pass' = "fail" /\ UNCHANGED result

ToggleTimeout(i) ==
  /\ test = "3-1" /\ Expires(i, {"judge"}) /\ Elapses
  /\ Verdict("fail")

ToggleJudge(v) == test = "3-1" /\ Judges /\ Verdict(v) /\ UNCHANGED <<marks, timing>>

-----------------------------------------------------------------------------
(* 3-8 TestThreeEight.js: set a deadband, wait for its value.              *)

DeadbandBegin ==
  /\ test = "3-8" /\ MayBegin
  /\ Begins(Busy, {"wanted"}) /\ SendsCommand

\* Mutant of DeadbandRefused: the spinner of the outcome stays.
DeadbandRefusedBusy(r) ==
  /\ test = "3-8" /\ r \in posts
  /\ posts' = posts \ {r}
  /\ Show({}, {"loading"}) /\ Verdict("fail")
  /\ UNCHANGED <<timing, polls, run, test, current, seen, left>>

DeadbandRefused(r) ==
  /\ test = "3-8" /\ r \in posts
  /\ posts' = posts \ {r}
  /\ Show({}, Busy) /\ Verdict("fail")
  /\ UNCHANGED <<timing, polls, run, test, current, seen, left>>

DeadbandFound(p) ==
  /\ test = "3-8" /\ PollAnswers(p)
  /\ ClearTimeout
  /\ Show({"wanted"}, Busy \cup {"ticking"})
  /\ Verdict("pass")

DeadbandTimeout(i) ==
  /\ test = "3-8" /\ Expires(i, {}) /\ Elapses
  /\ Verdict("fail")

-----------------------------------------------------------------------------
(* 3-2 ControlTest.js: send a control and follow the plant to its target,  *)
(* for a day at most; the human may end the run.                           *)

ControlBegin ==
  /\ test = "3-2" /\ MayBegin
  /\ Begins(Busy, {"wanted"}) /\ SendsCommand

ControlReached(p) ==
  /\ test = "3-2" /\ PollAnswers(p)
  /\ ClearTimeout
  /\ Show({"wanted", "judge"}, Busy \cup {"ticking"})
  /\ UNCHANGED <<pass, result>>

\* Success but off target: the spinners are shown, of whatever run the poll was.
ControlUnderway(p) ==
  /\ test = "3-2" /\ PollAnswers(p)
  /\ Show(Busy \cup {"judge"}, {})
  /\ UNCHANGED <<pass, result, timing>>

ControlWaiting(p) ==
  /\ test = "3-2" /\ PollAnswers(p)
  /\ Show({"judge"}, {})
  /\ UNCHANGED <<pass, result, timing>>

ControlTimeout(i) ==
  /\ test = "3-2" /\ Expires(i, {"judge"}) /\ Elapses
  /\ UNCHANGED <<pass, result>>

ControlJudge(v) ==
  /\ test = "3-2" /\ Judges
  /\ ClearTimeout /\ Show({}, Busy \cup {"ticking"}) /\ Verdict(v)

-----------------------------------------------------------------------------
(* 5-1 OfflineTest.js: wait until every plant has been silent for 15       *)
(* minutes.  The run's timeout means PASS.                                 *)

OfflineBegin ==
  /\ test = "5-1" /\ MayBegin
  /\ Begins(Busy \cup {"ticking"}, {"wanted"}) /\ Waits

OfflinePoll(p) ==
  /\ test = "5-1" /\ PollAnswers(p)
  /\ \E ages \in SUBSET Ages :
       LET arrived == "new" \in ages
           silent  == ages \subseteq {"old"}  \* _.every: so are no rows at all
           flag    == IF arrived THEN {"wanted"} ELSE {}
       IN  IF arrived \/ silent
           THEN /\ Show(flag, Busy \cup {"wanted", "ticking"})
                /\ Verdict(IF silent THEN "pass" ELSE "fail")
                /\ ClearTimeout
           ELSE /\ Show(Busy, {"wanted"})
                /\ pass' = "none" /\ UNCHANGED <<result, timing>>

OfflineTimeout(i) ==
  /\ test = "5-1" /\ Expires(i, {}) /\ Elapses
  /\ Verdict("pass")

-----------------------------------------------------------------------------
(* 5-2 ReOnLineTest.js: show the records that come; the human ends the     *)
(* run.  Nothing ever sets the flag.                                       *)

\* Mutant of OnlineBegin: the stored handle is not looked at.
OnlineBeginAgain ==
  /\ test = "5-2" /\ "loading" \notin marks /\ run < MaxRuns
  /\ Begins(Busy \cup {"ticking"}, {"wanted"}) /\ Waits

OnlineBegin ==
  /\ test = "5-2" /\ MayBegin
  /\ Begins(Busy \cup {"ticking"}, {"wanted"}) /\ Waits

OnlineFound(p) ==
  /\ test = "5-2" /\ PollAnswers(p)
  /\ Show({"judge"}, Busy)
  /\ UNCHANGED <<pass, result, timing>>

OnlineWaiting(p) ==
  /\ test = "5-2" /\ PollAnswers(p)
  /\ Show({"judge"}, {})
  /\ UNCHANGED <<pass, result, timing>>

OnlineTimeout(i) ==
  /\ test = "5-2" /\ Expires(i, {"judge"}) /\ Elapses
  /\ UNCHANGED <<pass, result>>

OnlineJudge(v) ==
  /\ test = "5-2" /\ Judges
  /\ ClearTimeout /\ Show({}, Busy \cup {"ticking"}) /\ Verdict(v)
-----------------------------------------------------------------------------
(* 1-1, 1-2, 2-2: TestOneOne.js, TestOneTwo.js, TestTwoTwo.js.             *)

\* The button of 1-1 is never disabled.
ConnectBegin ==
  /\ test = "1-1" /\ run < MaxRuns
  /\ Begins({"outcome"}, {}) /\ \E p \in Slots : Asks(p)

\* Any row is enough; a failure is a FAIL.
ConnectAnswered(p) ==
  /\ test = "1-1" /\ PollAnswers(p)
  /\ Show({}, {"outcome"}) /\ \E v \in Verdicts : Verdict(v)
  /\ UNCHANGED timing

LogsBegin ==
  /\ test = "1-2" /\ MayBegin
  /\ Begins(Busy, {}) /\ \E p \in Slots : Asks(p)

LogsAnswered(p) ==
  /\ test = "1-2" /\ PollAnswers(p)
  /\ \E rows \in SUBSET Plants : Verdict(IF rows = Plants THEN "pass" ELSE "fail")
  /\ Show({}, Busy) /\ UNCHANGED timing

\* The page of 1-2 shows no verdict of a failure, the sidebar does.
LogsFailed(p) ==
  /\ test = "1-2" /\ PollAnswers(p)
  /\ result' = "fail"
  /\ Show({}, Busy) /\ UNCHANGED <<pass, timing>>

DefaultsBegin ==
  /\ test = "2-2" /\ MayBegin
  /\ Begins(Busy, {}) /\ \E p \in Slots : Asks(p)

\* Both plants have a row, and only default deadbands in it.
DefaultsAnswered(p) ==
  /\ test = "2-2" /\ PollAnswers(p)
  /\ \E rows \in SUBSET Rows :
       Verdict(IF \A plant \in Plants : [plant |-> plant, good |-> TRUE] \in rows
               THEN "pass" ELSE "fail")
  /\ Show({}, Busy) /\ UNCHANGED timing

DefaultsFailed(p) ==
  /\ test = "2-2" /\ PollAnswers(p)
  /\ Show({}, Busy) /\ Verdict("fail") /\ UNCHANGED timing

-----------------------------------------------------------------------------

Begin ==
  \/ IntegrityBegin \/ EventBegin \/ PeriodicBegin \/ ToggleBegin \/ DeadbandBegin
  \/ ControlBegin \/ OfflineBegin \/ OnlineBegin
  \/ ConnectBegin \/ LogsBegin \/ DefaultsBegin

CommandAnswered ==
  \E r \in posts : CommandAccepted(r) \/ CommandRefused(r) \/ DeadbandRefused(r)

PollAnswered ==
  \E p \in polls :
    \/ PollWasted(p)
    \/ IntegrityFound(p) \/ EventFound(p) \/ PeriodicFound(p) \/ ToggleFound(p)
    \/ DeadbandFound(p) \/ ControlReached(p) \/ ControlUnderway(p) \/ ControlWaiting(p)
    \/ OfflinePoll(p) \/ OnlineFound(p) \/ OnlineWaiting(p)
    \/ ConnectAnswered(p) \/ LogsAnswered(p) \/ LogsFailed(p)
    \/ DefaultsAnswered(p) \/ DefaultsFailed(p)

TimeoutFires ==
  \E i \in alive :
    \/ TimeoutIgnored(i)
    \/ IntegrityTimeout(i) \/ EventTimeout(i) \/ PeriodicTimeout(i) \/ ToggleTimeout(i)
    \/ DeadbandTimeout(i) \/ ControlTimeout(i) \/ OfflineTimeout(i) \/ OnlineTimeout(i)

Judge ==
  \E v \in Verdicts :
    \/ IntegrityJudge(v) \/ EventJudge(v) \/ PeriodicJudge(v) \/ ToggleJudge(v)
    \/ ControlJudge(v) \/ OnlineJudge(v)

Next ==
  \/ Begin \/ CommandAnswered \/ PollAnswered \/ TimeoutFires \/ Judge
  \/ \E p \in Slots : Tick(p)
  \/ \E r \in 1..MaxRuns, says \in {"failed", "done"} : Report(r, says)

Spec == Init /\ [][Next]_vars

\* Requests are answered or fail in the end, and the browser runs its timers;
\* nothing makes the human begin or judge, or the plant report.
FairSpec ==
  Spec /\ WF_vars(CommandAnswered) /\ WF_vars(PollAnswered) /\ WF_vars(TimeoutFires)

-----------------------------------------------------------------------------
(* Properties.                                                             *)

TypeOK ==
  /\ PageTypeOK /\ posts \subseteq 1..run
  /\ test \in AllTests
  /\ current \in Results
  /\ seen \in [Slots -> SUBSET Results]
  /\ left \subseteq Callbacks

\* The sidebar and the page show the same verdict: every handler tells both,
\* but for the failure of 1-2 and the polls of 5-1.
SidebarAgrees == test \notin {"1-2", "5-1"} => pass = result

\* No spinner without a verdict to come: while the button is disabled something
\* is still to happen that enables it, whatever callbacks of earlier runs did.
\* In 3-2 a late poll may show the spinners of a run that is over: there the
\* human must end it.  5-1 is left out: its late polls show spinners for good.
NeverStuck ==
  "loading" \in marks =>
    CASE test \in OneShots -> polls # {}
      [] test = "3-2"      -> posts # {} \/ alive # {} \/ "judge" \in marks
      [] test \in {"2-3", "2-4"} -> "ticking" \in marks
      [] test \in {"2-1", "3-1", "3-8", "5-2"} -> posts # {} \/ alive # {}
      [] OTHER -> TRUE

\* What a run may find of earlier runs when it begins, although the page keeps one
\* handle for all runs and cancels no request.  No timeout where nothing is commanded,
\* and elsewhere only if some run has found a poll or a command, for these may end a
\* run whose own timeout is not set yet.  A command without its answer only if some run
\* has found a poll, or in 3-2, where the human may end a run that waits.  And nothing
\* at all in the one-shots whose button is disabled.
OnlyPollsLinger ==
  /\ "timeout" \in left => test \in Commanding /\ left \cap {"poll", "command"} # {}
  /\ "command" \in left => test = "3-2" \/ "poll" \in left
  /\ "poll" \in left => test \notin {"1-2", "2-2"}

\* A run ends whatever the plant does: by what it waits for, or by its timeout.
RunEnds ==
  test \in OneShots \cup {"2-1", "3-1", "3-8", "5-2"} /\ marks \cap Busy # {}
    ~> marks \cap Busy = {}

\* A run of 2-3 ends too, and the human is asked: "timeOut, no data for more
\* than 10 seconds" (TestTwoThree.js).
EventRunEnds == test = "2-3" /\ "loading" \in marks ~> "judge" \in marks

\* 3-1 passes by "the inverter's report of success" of the control it has sent:
\* a poll gives PASS only if the plant has reported on this run's command.
ReportFollowsCommand ==
  [][polls' # polls /\ pass # "pass" /\ pass' = "pass" => current.cmd = run]_vars

=============================================================================
