-------------------------- MODULE CommandContract ---------------------------
(***************************************************************************)
(* What a RobotCommandHandle promises the planner that drives it, stated   *)
(* without drivers, topics or timers.  The planner issues commands with    *)
(* increasing task ids; a command either installs a completion callback    *)
(* (follow_new_path, dock) or does not (stop).  A new command supersedes   *)
(* the previous one.  Only the command whose callback is installed can     *)
(* complete, it completes at most once, and a superseded command never     *)
(* completes.                                                              *)
(***************************************************************************)
EXTENDS Naturals

CONSTANT MaxTaskId      \* how many commands the planner issues

VARIABLES
  issued,               \* task id of the latest command
  active,               \* task id whose completion callback is installed, 0 if none
  done                  \* task ids whose completion callback has been invoked

vars == <<issued, active, done>>

TypeOK ==
  /\ issued \in 0..MaxTaskId
  /\ active \in 0..MaxTaskId
  /\ done \subseteq 1..MaxTaskId

Init ==
  /\ issued = 0
  /\ active = 0
  /\ done = {}

\* A new command gets the next task id and supersedes the active one; it
\* installs a callback (active = its id) or none (active = 0).
Issue ==
  /\ issued < MaxTaskId
  /\ issued' = issued + 1
  /\ active' \in {0, issued + 1}
  /\ UNCHANGED done

\* The active callback is dropped without a new command.
Abandon ==
  /\ active' = 0
  /\ UNCHANGED <<issued, done>>

\* The active command completes: its callback runs once and is removed.
Complete ==
  /\ active # 0
  /\ active \notin done
  /\ done' = done \cup {active}
  /\ active' = 0
  /\ UNCHANGED issued

Next == Issue \/ Abandon \/ Complete

Spec == Init /\ [][Next]_vars
=============================================================================
