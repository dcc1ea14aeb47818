------------------------- MODULE MC_FleetCoordinator -------------------------
(* Model values and small sets for checking FleetCoordinator with TLC. *)
EXTENDS FleetCoordinator, TLC

CONSTANTS r1, r2      \* robot names
CONSTANTS x           \* an interrupt id

MC_Robots == {r1, r2}
MC_Lanes == {0, 1}
MC_InterruptIds == {x}

\* Robot names are interchangeable: no action singles one out.
MC_Symmetry == Permutations(MC_Robots)
=============================================================================
