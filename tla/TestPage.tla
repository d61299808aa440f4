------------------------------ MODULE TestPage ------------------------------
(***************************************************************************)
(* What the pages of the tests have in common (TestContentBase.js and the  *)
(* fields every page declares): the spinners, the buttons for the human's  *)
(* verdict, the page's verdict and the sidebar's, and the requests, the    *)
(* timeout and the interval a run leaves in the browser's event loop.      *)
(*                                                                         *)
(* A page is never unmounted, and the callbacks of one run may find the    *)
(* page in the next: the code keeps one handle, not one per run, and       *)
(* cancels no request.                                                     *)
(***************************************************************************)
EXTENDS Naturals

CONSTANTS
  MaxRuns,  \* bound: runs of the test
  MaxPolls  \* bound: polls on their way at once

ASSUME PageAssumption == MaxRuns \in Nat /\ MaxPolls \in Nat

VARIABLES
  marks,   \* which of Marks are set
  pass,    \* isPass: the verdict the page shows
  result,  \* testResults[testId]: the verdict the sidebar shows
  handle,  \* the stored handle of a timeout, or 0 for null
  alive,   \* timeouts that will still fire
  timers,  \* timeouts set so far
  polls,   \* slots of the polls that have not been answered
  run      \* runs so far

page   == <<marks, pass, result>>
timing == <<handle, alive, timers>>

\* isShowLoading, isShowOutcomeLoading, isShowManualJudgment, the flag that
\* data was found (isGetWantedData, isGetCompleteData, newDataArrived), and
\* whether the interval is set.
Marks == {"loading", "outcome", "judge", "wanted", "ticking"}
Busy  == {"loading", "outcome"}

Verdicts == {"pass", "fail"}

\* What the page shows of a verdict is what it stores: null shows nothing.
Outcomes == Verdicts \cup {"none"}

Slots == 1..MaxPolls

PageTypeOK ==
  /\ marks \subseteq Marks
  /\ pass \in Outcomes /\ result \in Outcomes
  /\ timers \in Nat /\ handle \in 0..timers /\ alive \subseteq 1..timers
  /\ polls \subseteq Slots /\ run \in Nat

PageInit ==
  /\ marks = {} /\ pass = "none" /\ result = "none"
  /\ handle = 0 /\ alive = {} /\ timers = 0
  /\ polls = {} /\ run = 0

-----------------------------------------------------------------------------

\* setState: switch marks on and off.
Show(on, off) == marks' = (marks \ off) \cup on

\* setState({ isPass }) and updateTestResult together.
Verdict(v) == pass' = v /\ result' = v

\* A run may begin when the button is not disabled and no handle is stored.
MayBegin == "loading" \notin marks /\ handle = 0 /\ run < MaxRuns

\* setTimeout, its handle overwriting what is stored, and setInterval.
SetTimeout ==
  /\ timers' = timers + 1
  /\ handle' = timers + 1
  /\ alive' = alive \cup {timers + 1}

ClearTimeout == handle' = 0 /\ alive' = alive \ {handle} /\ UNCHANGED timers

\* Timeouts of equal length fire in the order they were set.  The callback
\* begins by clearing the stored handle, whichever timeout that is.
Fires(i) ==
  /\ i \in alive /\ \A j \in alive : i <= j
  /\ handle' = 0 /\ alive' = alive \ {i, handle} /\ UNCHANGED timers

\* With data found the callback has nothing more to do ...
Ignored(i) == Fires(i) /\ "wanted" \in marks /\ UNCHANGED <<page, polls, run>>

\* ... without, it clears the interval and ends the run.
Expires(i, on) ==
  /\ Fires(i) /\ "wanted" \notin marks
  /\ Show(on, Busy \cup {"ticking"})
  /\ UNCHANGED <<polls, run>>

Answers(p) == p \in polls /\ polls' = polls \ {p} /\ UNCHANGED run

\* A poll that fails, whose handler throws, or that finds nothing: only text
\* of the page changes.
Wasted(p) == Answers(p) /\ UNCHANGED <<page, timing>>

=============================================================================
