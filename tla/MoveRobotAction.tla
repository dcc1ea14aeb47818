-------------------------- MODULE MoveRobotAction --------------------------
(***************************************************************************)
(* MoveRobot::Action (MoveRobot.hpp 105-300): one move phase hands its     *)
(* waypoints to the robot's command handle and follows the handle's        *)
(* callbacks.                                                              *)
(*                                                                         *)
(*  - operator()(s) records _last_update_rostime, creates a wall timer of *)
(*    period _update_timeout, and calls follow_new_path.                   *)
(*  - The arrival estimator (path_index, estimate) resets the watchdog,   *)
(*    may schedule a tail bump, publishes a status on an index change and *)
(*    schedules a cumulative-delay job on the worker.                      *)
(*  - The watchdog requests a replan once _update_timeout of ROS time has *)
(*    passed without an estimate; it is patient while ROS time is paused. *)
(*  - The finished callback publishes STATE_COMPLETED.                     *)
(*                                                                         *)
(* Time: wall time drives the timer, ROS time (node()->now()) the checks.  *)
(* A tick advances wall time by one and ROS time by a step from RosSteps  *)
(* (0: simulation paused).  Timestamps are kept as saturating ages,       *)
(* because the code only compares them with _update_timeout and           *)
(* _tail_period.                                                           *)
(***************************************************************************)
EXTENDS Integers, Sequences

CONSTANTS
  N,            \* _waypoints.size()
  PathIndices,  \* the path_index values the command handle reports
  Estimates,    \* arrival estimates: "short" (< 1 s) or "long"
  Timeout,      \* _update_timeout, in ticks
  TailPeriod,   \* *_tail_period in ticks, or NoTail
  NoTail,
  RosSteps,     \* ROS-time advance during one wall tick
  MaxUpdates,   \* bound on arrival-estimator calls
  MaxReplans,   \* bound on watchdog replan requests
  MaxJobs       \* bound on pending worker jobs

ASSUME N \in Nat \ {0}
ASSUME PathIndices \subseteq Nat /\ Estimates = {"short", "long"}
ASSUME Timeout \in Nat \ {0} /\ (TailPeriod = NoTail \/ TailPeriod \in Nat)
ASSUME RosSteps \subseteq Nat /\ (RosSteps \ {0}) # {}

NoBump == -1      \* _last_tail_bump is nullopt

\* An age (now - timestamp) after d more ticks of ROS time, saturated at
\* cap: the code never tells apart ages above the threshold it compares.
Age(a, d, cap) == IF a + d > cap THEN cap ELSE a + d

BumpCap == IF TailPeriod = NoTail THEN 0 ELSE TailPeriod + 1

VARIABLES
  alive,          \* the ActivePhase still owns the Action (weak_ptr locks)
  started,        \* operator()(s) has run
  timerOn,        \* _update_timeout_timer exists
  wallElapsed,    \* wall time since the timer was created, reset or fired
  sinceUpdate,    \* now - _last_update_rostime (ROS time)
  nextPathIndex,  \* _next_path_index
  lastTailBump,   \* now - *_last_tail_bump, or NoBump
  planCurrent,    \* _plan_id = itinerary().current_plan_id()
  jobs,           \* jobs scheduled on the worker, oldest first
  itinDelay,      \* what last set the itinerary's cumulative delay
  status,         \* state of the last status message sent to s
  finished,       \* the handle called path_finished_callback
  completed,      \* s.on_completed() was called
  replans,        \* request_replan() calls made by the watchdog
  updates,        \* arrival-estimator calls
  oobRead,        \* _waypoints[path_index] was read out of range
  sinceProgress,  \* ROS time since follow_new_path or the last estimate
  sinceReplan     \* ROS time since the last watchdog replan

vars == <<alive, started, timerOn, wallElapsed, sinceUpdate, nextPathIndex,
          lastTailBump, planCurrent, jobs, itinDelay, status, finished,
          completed, replans, updates, oobRead, sinceProgress, sinceReplan>>

Statuses == {"none", "heading", "bug", "completed"}

TypeOK ==
  /\ alive \in BOOLEAN /\ started \in BOOLEAN /\ timerOn \in BOOLEAN
  /\ wallElapsed \in 0..Timeout /\ sinceUpdate \in 0..Timeout
  /\ nextPathIndex \in {0} \cup PathIndices
  /\ lastTailBump \in {NoBump} \cup 0..BumpCap
  /\ planCurrent \in BOOLEAN
  /\ jobs \in Seq({"bump", "delay"}) /\ Len(jobs) <= MaxJobs
  /\ itinDelay \in {"planned", "estimate", "bumped"}
  /\ status \in Statuses
  /\ finished \in BOOLEAN /\ completed \in BOOLEAN /\ oobRead \in BOOLEAN
  /\ replans \in 0..MaxReplans /\ updates \in 0..MaxUpdates
  /\ sinceProgress \in 0..Timeout /\ sinceReplan \in 0..Timeout

Init ==
  /\ alive = TRUE /\ started = FALSE /\ timerOn = FALSE
  /\ wallElapsed = 0 /\ sinceUpdate = 0
  /\ nextPathIndex = 0 /\ lastTailBump = NoBump
  /\ planCurrent = TRUE /\ jobs = <<>> /\ itinDelay = "planned"
  /\ status = "none" /\ finished = FALSE /\ completed = FALSE
  /\ replans = 0 /\ updates = 0 /\ oobRead = FALSE
  /\ sinceProgress = 0 /\ sinceReplan = Timeout

-----------------------------------------------------------------------------
(* The action's own steps *)

\* operator()(s): the command handle is always set in the full_control
\* adapter (the robots map owns it), so the early return is not taken.
\* follow_new_path hands the callbacks below to the handle.
operator_call ==
  /\ alive /\ ~started
  /\ started' = TRUE
  /\ sinceUpdate' = 0 /\ sinceProgress' = 0
  /\ timerOn' = TRUE /\ wallElapsed' = 0
  /\ UNCHANGED <<alive, nextPathIndex, lastTailBump, planCurrent, jobs,
                 itinDelay, status, finished, completed, replans, updates,
                 oobRead, sinceReplan>>

\* mutant: the timestamp is refreshed before the patience check
update_timeout_refresh_first ==
  /\ timerOn /\ wallElapsed = Timeout /\ replans < MaxReplans
  /\ wallElapsed' = 0 /\ sinceUpdate' = 0
  /\ IF sinceUpdate < Timeout
       THEN UNCHANGED <<replans, sinceReplan>>
       ELSE replans' = replans + 1 /\ sinceReplan' = 0
  /\ UNCHANGED <<alive, started, timerOn, nextPathIndex, lastTailBump,
                 planCurrent, jobs, itinDelay, status, finished, completed,
                 updates, oobRead, sinceProgress>>

\* mutant: no patience while ROS time is paused or slow
update_timeout_impatient ==
  /\ timerOn /\ wallElapsed = Timeout /\ replans < MaxReplans
  /\ wallElapsed' = 0 /\ sinceUpdate' = 0
  /\ replans' = replans + 1 /\ sinceReplan' = 0
  /\ UNCHANGED <<alive, started, timerOn, nextPathIndex, lastTailBump,
                 planCurrent, jobs, itinDelay, status, finished, completed,
                 updates, oobRead, sinceProgress>>

\* The watchdog timer fires: a period of wall time has passed since it was
\* created, reset or last fired.  Unless _update_timeout of ROS time has
\* passed since _last_update_rostime it waits another period; otherwise it
\* refreshes the timestamp and requests a replan.  The timer belongs to the
\* Action, so it stops when the Action is released.
update_timeout ==
  /\ timerOn /\ wallElapsed = Timeout /\ replans < MaxReplans
  /\ wallElapsed' = 0
  /\ IF sinceUpdate < Timeout
       THEN UNCHANGED <<sinceUpdate, replans, sinceReplan>>
       ELSE /\ sinceUpdate' = 0
            /\ replans' = replans + 1 /\ sinceReplan' = 0
  /\ UNCHANGED <<alive, started, timerOn, nextPathIndex, lastTailBump,
                 planCurrent, jobs, itinDelay, status, finished, completed,
                 updates, oobRead, sinceProgress>>

\* The tail-bump condition: the last waypoint is under a second away, a
\* tail period is set, and no bump happened within the last tail period.
TailBumpDue(i, e) ==
  /\ i = N - 1 /\ e = "short" /\ TailPeriod # NoTail
  /\ lastTailBump = NoBump \/ lastTailBump > TailPeriod

\* mutant: the index stored is the one after path_index, as the name reads
next_index_after(i) == i + 1

\* The _next_path_index recorded for an estimate of waypoint path_index.
NextIndex(i) == i

\* The status sent when path_index changes.
IndexStatus(i) == IF i < N THEN "heading" ELSE "bug"

\* The guard in front of the delay computation: _next_path_index (now
\* path_index) is not past the end and the plan is still the current one.
\* The comparison is `>`, so path_index = size passes it.
DelayScheduled(i) == ~(i > N) /\ planCurrent

\* The handle reports that waypoint path_index is `estimate` away.
arrival_estimator(i, e) ==
  /\ alive /\ started /\ ~finished
  /\ updates < MaxUpdates /\ Len(jobs) <= MaxJobs - 2
  /\ updates' = updates + 1
  /\ sinceUpdate' = 0 /\ sinceProgress' = 0 /\ wallElapsed' = 0
  /\ lastTailBump' = IF TailBumpDue(i, e) THEN 0 ELSE lastTailBump
  /\ nextPathIndex' = NextIndex(i)
  /\ status' = IF i # nextPathIndex THEN IndexStatus(i) ELSE status
  /\ oobRead' = (oobRead \/ (DelayScheduled(i) /\ i >= N))
  /\ jobs' = jobs \o (IF TailBumpDue(i, e) THEN <<"bump">> ELSE <<>>)
                  \o (IF DelayScheduled(i) THEN <<"delay">> ELSE <<>>)
  /\ UNCHANGED <<alive, started, timerOn, planCurrent, itinDelay, finished,
                 completed, replans, sinceReplan>>

\* The handle reports the path finished: the last waypoint's arrival
\* checkpoints are marked reached and s gets STATE_COMPLETED and
\* on_completed().  The watchdog timer is left running.
path_finished ==
  /\ started /\ ~finished
  /\ finished' = TRUE
  /\ IF alive THEN completed' = TRUE /\ status' = "completed"
              ELSE UNCHANGED <<completed, status>>
  /\ UNCHANGED <<alive, started, timerOn, wallElapsed, sinceUpdate,
                 nextPathIndex, lastTailBump, planCurrent, jobs, itinDelay,
                 replans, updates, oobRead, sinceProgress, sinceReplan>>

\* The worker runs the oldest job.  Both jobs address _plan_id; the
\* itinerary ignores them once another plan is current.  The tail bump adds
\* the tail period to the current delay; the delay job sets the newly
\* computed delay unless it is within 100 ms of the current one.
worker_run ==
  /\ jobs # <<>>
  /\ jobs' = Tail(jobs)
  /\ itinDelay' \in
       IF ~planCurrent THEN {itinDelay}
       ELSE IF Head(jobs) = "bump" THEN {"bumped"}
       ELSE {"estimate", itinDelay}
  /\ UNCHANGED <<alive, started, timerOn, wallElapsed, sinceUpdate,
                 nextPathIndex, lastTailBump, planCurrent, status, finished,
                 completed, replans, updates, oobRead, sinceProgress,
                 sinceReplan>>

-----------------------------------------------------------------------------
(* The environment *)

\* The itinerary gets another plan (a replan, a negotiation, a new phase).
new_plan ==
  /\ planCurrent
  /\ planCurrent' = FALSE
  /\ UNCHANGED <<alive, started, timerOn, wallElapsed, sinceUpdate,
                 nextPathIndex, lastTailBump, jobs, itinDelay, status,
                 finished, completed, replans, updates, oobRead,
                 sinceProgress, sinceReplan>>

\* The ActivePhase drops the Action (the phase is cancelled or replaced);
\* the timer it owns goes with it.
release ==
  /\ alive
  /\ alive' = FALSE /\ timerOn' = FALSE
  /\ UNCHANGED <<started, wallElapsed, sinceUpdate, nextPathIndex,
                 lastTailBump, planCurrent, jobs, itinDelay, status, finished,
                 completed, replans, updates, oobRead, sinceProgress,
                 sinceReplan>>

\* One tick of wall time, during which ROS time advances by d.
tick(d) ==
  /\ wallElapsed' = IF timerOn THEN Age(wallElapsed, 1, Timeout)
                               ELSE wallElapsed
  /\ sinceUpdate' = Age(sinceUpdate, d, Timeout)
  /\ sinceProgress' = Age(sinceProgress, d, Timeout)
  /\ sinceReplan' = Age(sinceReplan, d, Timeout)
  /\ lastTailBump' = IF lastTailBump = NoBump THEN NoBump
                     ELSE Age(lastTailBump, d, BumpCap)
  /\ UNCHANGED <<alive, started, timerOn, nextPathIndex, planCurrent, jobs,
                 itinDelay, status, finished, completed, replans, updates,
                 oobRead>>

\* ROS time advances during the tick: the simulation is not paused.
RosAdvances == \E d \in RosSteps \ {0} : tick(d)

Next ==
  \/ operator_call
  \/ update_timeout
  \/ \E i \in PathIndices, e \in Estimates : arrival_estimator(i, e)
  \/ path_finished
  \/ worker_run
  \/ new_plan
  \/ release
  \/ \E d \in RosSteps : tick(d)

Spec == Init /\ [][Next]_vars

\* The executor runs the action's start and its timer when they are due,
\* the worker runs its jobs, and the simulation is never paused forever.
\* The command handle and the phase's owner get no fairness.
Fairness ==
  /\ WF_vars(operator_call)
  /\ WF_vars(update_timeout)
  /\ WF_vars(worker_run)
  /\ WF_vars(RosAdvances)

FairSpec == Spec /\ Fairness

-----------------------------------------------------------------------------
(* Properties *)

\* Stall recovery (spec 5: "no callback progress for 10 s: issue replan;
\* reset watchdog"): the watchdog asks for a replan only when neither an
\* arrival estimate nor an earlier watchdog replan happened within the last
\* _update_timeout of ROS time, so a paused simulation never triggers one.
WatchdogPatience ==
  [][replans' > replans =>
       /\ sinceProgress >= Timeout
       /\ sinceReplan >= Timeout]_vars

\* A move whose handle goes silent is not left hanging: once started, it
\* eventually completes, asks for a replan, or is dropped by its phase,
\* however the wall timer and a slowed or paused simulation interleave.
StalledMoveRecovers ==
  started ~> (completed \/ replans > 0 \/ ~alive)

\* The arrival estimator only reads _waypoints[path_index] inside the
\* vector (the "[Bug]" status branch shows out-of-range indices are
\* expected from handles).
NoOutOfRangeWaypoint == ~oobRead

=============================================================================
