---------------------------- MODULE MC_GoToPlace ----------------------------
(* Model-checking instance of GoToPlace: plans of up to three waypoints     *)
(* (MaxLen in the cfg) whose events are none, a supported event (a dock) or *)
(* an unsupported lift move, which are the cases execute_plan tells apart.  *)
EXTENDS GoToPlace

MC_PlanEvents == {"none", "dock", "lift_move"}
=============================================================================
