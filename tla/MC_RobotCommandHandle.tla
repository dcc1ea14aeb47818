----------------------- MODULE MC_RobotCommandHandle ------------------------
(* Model-checking instance of RobotCommandHandle: one dock, paths of one or *)
(* two waypoints, a valid and an out-of-range battery reading.              *)
EXTENDS RobotCommandHandle

MC_PathLens == {1, 2}
MC_DockNames == {"charger"}
MC_BatteryReadings == {50, 150}
=============================================================================
