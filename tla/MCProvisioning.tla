--------------------------- MODULE MCProvisioning ---------------------------
(* Instances of Provisioning for TLC. *)
EXTENDS Provisioning, TLC

CONSTANTS t1, t2, t3, b1, b2, n1, n2, n3

\* One browser profile per tab; a single tab; or two tabs that share a profile
\* beside one that is alone.
OwnProfiles == t1 :> b1 @@ t2 :> b2
SoleProfile == t1 :> b1
SharedProfile == t1 :> b1 @@ t2 :> b2 @@ t3 :> b2

\* The numbers a user types are interchangeable, but for the control plant's;
\* so are the two tabs, each with its profile.
SwapTabs == t1 :> t2 @@ t2 :> t1
SwapTesters == SwapTabs @@ b1 :> b2 @@ b2 :> b1
Symmetry == Permutations(PlantNos \ {ControlNo}) \cup {SwapTesters}
SharedSymmetry == Permutations(Tabs \ {t1})

=============================================================================
