----------------------------- MODULE CommandSpec ----------------------------
(***************************************************************************)
(* What becomes of the commands the tests send to a plant: each is settled *)
(* once, accepted or not; accepted commands wait in the order they were    *)
(* accepted in and are performed in that order, each at most once.  Any    *)
(* may be dropped instead, and all that wait are discarded with the master *)
(* that was to perform them.                                               *)
(***************************************************************************)
EXTENDS Naturals, Sequences

VARIABLES
  settled,   \* commands that have been accepted or refused
  waiting,   \* accepted commands, in order
  performed  \* commands handed to the plant, in order

vars == <<settled, waiting, performed>>

Init == settled = {} /\ waiting = <<>> /\ performed = <<>>

Settle(c) == c \notin settled /\ settled' = settled \cup {c}

Accept(c) == Settle(c) /\ waiting' = Append(waiting, c) /\ UNCHANGED performed
Refuse(c) == Settle(c) /\ UNCHANGED <<waiting, performed>>

Take == waiting # <<>> /\ waiting' = Tail(waiting) /\ UNCHANGED settled

Perform == Take /\ performed' = Append(performed, Head(waiting))
Drop == Take /\ UNCHANGED performed

Discard == waiting # <<>> /\ waiting' = <<>> /\ UNCHANGED <<settled, performed>>

Next ==
  \/ \E c \in settled' : Accept(c) \/ Refuse(c)
  \/ Perform \/ Drop \/ Discard

Spec == Init /\ [][Next]_vars

\* Whatever is dropped, no command is accepted, and so none performed, twice.
Accepted == performed \o waiting

NeverTwice == \A i, j \in DOMAIN Accepted : Accepted[i] = Accepted[j] => i = j

=============================================================================
