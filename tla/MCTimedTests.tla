---------------------------- MODULE MCTimedTests ----------------------------
(* Instances of TimedTests for TLC. *)
EXTENDS TimedTests

EventTest == {"2-3"}
ToggleTest == {"3-1"}

=============================================================================
