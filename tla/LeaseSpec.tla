------------------------------ MODULE LeaseSpec -----------------------------
(***************************************************************************)
(* What provisioning promises the testers: plant numbers are leased.  A    *)
(* row of table Plant claims a number nobody else has; a session opens     *)
(* with two rows of its own, one of them of the control plant's number,    *)
(* and no row is released that a session is using.  Who asks for rows, and *)
(* when those of no session are released, is left open.                    *)
(***************************************************************************)
EXTENDS Naturals

CONSTANTS
  Testers,    \* those who may have a session
  PlantNos,   \* plant numbers
  ControlNo   \* the number every session needs

VARIABLES
  rows,      \* the claims: an id and a plant number each
  sessions   \* the rows of each tester's session; none without one

vars == <<rows, sessions>>

Init == rows = {} /\ sessions = [t \in Testers |-> {}]

Claim(new) ==
  /\ new.no \in PlantNos
  /\ \A h \in rows : h.id # new.id /\ h.no # new.no
  /\ rows' = rows \cup {new} /\ UNCHANGED sessions

Release(h) ==
  /\ \A t \in Testers : h \notin sessions[t]
  /\ rows' = rows \ {h} /\ UNCHANGED sessions

Open(t, control, uncontrol) ==
  /\ sessions[t] = {}
  /\ control # uncontrol /\ control.no = ControlNo
  /\ \A u \in Testers : {control, uncontrol} \cap sessions[u] = {}
  /\ sessions' = [sessions EXCEPT ![t] = {control, uncontrol}] /\ UNCHANGED rows

Close(t) ==
  /\ sessions[t] # {}
  /\ sessions' = [sessions EXCEPT ![t] = {}] /\ UNCHANGED rows

Next ==
  \/ \E new \in rows' : Claim(new)
  \/ \E h \in rows : Release(h)
  \/ \E t \in Testers : Close(t) \/ \E c, u \in rows : Open(t, c, u)

Spec == Init /\ [][Next]_vars

-----------------------------------------------------------------------------

\* The rows of an open session are claims in force.
InForce == \A t \in Testers : sessions[t] \subseteq rows

\* Every session needs the control plant's number, and a number is claimed once:
\* two sessions are never open together.
OneOpen ==
  \A t, u \in Testers : sessions[t] # {} /\ sessions[u] # {} => t = u

=============================================================================
