------------------------------- MODULE LogSpec ------------------------------
(***************************************************************************)
(* What the log tables promise their readers (the tests of the browser):   *)
(* telemetry is recorded atomically, in LogCurrent, which keeps one row    *)
(* per plant with the latest value of each field, and in LogRegistersMeter,*)
(* which keeps every complete record and the last incomplete one.          *)
(***************************************************************************)
EXTENDS Naturals

CONSTANTS
  PlantNos,    \* plant numbers
  Fields,      \* telemetry fields, the columns of both tables
  Categories,  \* plant categories: grid, energyStorage
  Regular      \* the fields a complete record of each category has

VARIABLES
  current,  \* LogCurrent: for each field the message that set it, or 0 for NULL
  logs      \* LogRegistersMeter: the committed rows

NoRow == [f \in Fields |-> 0]   \* no row: its readers see it as a row of NULLs

Deadband(vals, c) == \E f \in Regular[c] : f \notin vals

\* Mutants of Obsolete: " AND ".join for " OR ".join; no plantNo in the WHERE.
ObsoleteAnd(rows, no, c) == {r \in rows : r.no = no /\ r.vals \cap Regular[c] = {}}
ObsoleteAnyPlant(rows, no, c) == {r \in rows : Deadband(r.vals, c)}

\* The records a new incomplete record of plant no makes obsolete.
Obsolete(rows, no, c) == {r \in rows : r.no = no /\ Deadband(r.vals, c)}

\* Mutant of Merged: COALESCE with its arguments swapped.
MergedCoalesce(row, n, vals) == [f \in Fields |-> IF f \in vals /\ row[f] = 0 THEN n ELSE row[f]]

\* A row of LogCurrent after message n, which has the fields vals.
Merged(row, n, vals) == [f \in Fields |-> IF f \in vals THEN n ELSE row[f]]

Init ==
  /\ current = [p \in PlantNos |-> NoRow]
  /\ logs = {}

\* One message is recorded in both tables; row ids only grow.
Record(row) ==
  /\ row \notin logs /\ \A r \in logs : r.id < row.id
  /\ current' = [current EXCEPT ![row.no] = Merged(@, row.n, row.vals)]
  /\ logs' = {row} \cup
       IF Deadband(row.vals, row.cat) THEN logs \ Obsolete(logs, row.no, row.cat) ELSE logs

\* The rows of a plant go when its gateway is deleted, table by table.
ClearCurrent(no) == current' = [current EXCEPT ![no] = NoRow] /\ UNCHANGED logs
ClearLogs(no) == logs' = {r \in logs : r.no # no} /\ UNCHANGED current

Next ==
  \/ \E row \in logs' : Record(row)
  \/ \E no \in PlantNos : ClearCurrent(no) \/ ClearLogs(no)

Spec == Init /\ [][Next]_<<current, logs>>

-----------------------------------------------------------------------------

\* "Remove old deadband logs": of the incomplete records of a plant only the
\* last one is kept, for each category the plant has had.
OneDeadband ==
  \A r, s \in logs :
    /\ r.no = s.no /\ r.cat = s.cat
    /\ Deadband(r.vals, r.cat) /\ Deadband(s.vals, s.cat)
    => r = s

\* A reader sees the two tables agree: LogCurrent, unless it was deleted, shows
\* all that the plant's last record in LogRegistersMeter has.
LastRecordShown ==
  \A r \in logs :
    /\ \A s \in logs : s.no = r.no => s.id <= r.id
    /\ current[r.no] # NoRow
    => \A f \in r.vals : current[r.no][f] = r.n

=============================================================================
