----------------------------- MODULE MCLogStore -----------------------------
(* Instances of LogStore for TLC. *)
EXTENDS LogStore, TLC

CONSTANTS p1, p2, grid, storage, power, setting, charge

\* One field both categories have and one of each alone; a response brings
\* all the fields of a category (class 0), or one that changed (an event).
\* What is complete in one category is incomplete in the other.
MCRegular == grid :> {power, setting} @@ storage :> {power, charge}
GridBatches == {{power, setting}, {power}}

Symmetry == Permutations(PlantNos)

=============================================================================
