------------------------ MODULE MC_MoveRobotAction ------------------------
(* Two waypoints; the watchdog period and the tail period are 2 and 1     *)
(* ticks; ROS time pauses, keeps pace or runs at twice wall speed.        *)
EXTENDS MoveRobotAction

CONSTANTS notail

\* The indices part_000's estimate_path_traveling reports: 0..size-1.
MC_HandleIndices == 0..1
\* A handle that also reports one past the end and beyond ("[Bug]").
MC_AnyIndices == 0..3
=============================================================================
