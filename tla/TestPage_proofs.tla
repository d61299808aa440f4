--------------------------- MODULE TestPage_proofs ---------------------------
(***************************************************************************)
(* What the proofs about the tests' pages share: the types of a page and   *)
(* its timers.                                                             *)
(***************************************************************************)
EXTENDS TestPage, TLAPS

TimingOK == timers \in Nat /\ handle \in 0..timers /\ alive \subseteq 1..timers

LEMMA TimersTyped ==
  ASSUME TimingOK, SetTimeout \/ ClearTimeout \/ (\E i \in alive : Fires(i)) \/ UNCHANGED timing
  PROVE  TimingOK'
<1>1. CASE SetTimeout
  <2>1. timers' \in Nat /\ handle' \in 0..timers' /\ 1..timers \subseteq 1..timers'
        /\ timers' \in 1..timers'
    BY <1>1 DEF SetTimeout, TimingOK
  <2>2. QED
    BY <1>1, <2>1 DEF SetTimeout, TimingOK
<1>2. CASE ClearTimeout
  BY <1>2 DEF ClearTimeout, TimingOK
<1>3. CASE \E i \in alive : Fires(i)
  BY <1>3 DEF Fires, TimingOK
<1>4. CASE UNCHANGED timing
  BY <1>4 DEF timing, TimingOK
<1>5. QED
  BY <1>1, <1>2, <1>3, <1>4

\* How a step may change the page and its timers.
PageStep ==
  /\ marks' \subseteq marks \cup Marks /\ pass' \in Outcomes \cup {pass}
  /\ result' \in Outcomes \cup {result}
  /\ SetTimeout \/ ClearTimeout \/ (\E i \in alive : Fires(i)) \/ UNCHANGED timing
  /\ polls' \subseteq polls \cup Slots
  /\ run' \in {run, run + 1}

LEMMA PageTyped == PageTypeOK /\ PageStep => PageTypeOK'
<1> SUFFICES ASSUME PageTypeOK, PageStep PROVE PageTypeOK'
  OBVIOUS
<1>1. TimingOK'
  BY TimersTyped DEF PageTypeOK, PageStep, TimingOK
<1>2. marks' \subseteq Marks /\ pass' \in Outcomes /\ result' \in Outcomes
  BY DEF PageTypeOK, PageStep
<1>3. polls' \subseteq Slots /\ run' \in Nat
  BY DEF PageTypeOK, PageStep
<1>4. QED
  BY <1>1, <1>2, <1>3 DEF PageTypeOK, TimingOK

=============================================================================
