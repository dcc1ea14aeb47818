------------------------- MODULE RobotCommandHandle -------------------------
(***************************************************************************)
(* One FleetDriverRobotCommandHandle of the full_control fleet adapter     *)
(* (src/unnamed/part_000) with the world around it: the planner that calls *)
(* follow_new_path / dock / stop, the fleet driver that executes commands  *)
(* and publishes RobotState telemetry, and the three topics between them   *)
(* (PathRequest, ModeRequest, FleetState).  Topics are FIFO per topic,     *)
(* bounded (keep_last drops the oldest message) and lossy; nothing orders  *)
(* a PathRequest against a ModeRequest.                                    *)
(*                                                                         *)
(* Time is a tick that ages the handle's timestamps; an age saturates one  *)
(* past the threshold it is compared with, which is all the code reads.    *)
(* A waypoint path is abstracted to its length, a RobotState to its        *)
(* task_id, mode and the length of its residual path; task_id strings are  *)
(* the integers they print (std::to_string is injective below 2^32).       *)
(***************************************************************************)
EXTENDS Integers, Sequences, FiniteSets

CONSTANTS
  MaxTaskId,        \* commands the planner issues; bounds _current_task_id
  PathLens,         \* lengths of the waypoint sequences follow_new_path gets
  DockNames,        \* dock names the planner passes to dock()
  BatteryReadings,  \* battery_percent values a driver reports
  ResendAfter,      \* resend interval (200 ms), in ticks
  DockPushAfter,    \* dock schedule push interval (1 s), in ticks
  DockPathLen,      \* residual path a docking driver reports
  MaxInFlight       \* depth of each topic

ASSUME MaxTaskId \in Nat \ {0}
ASSUME PathLens \subseteq Nat \ {0} /\ PathLens # {}
ASSUME ResendAfter \in Nat /\ DockPushAfter \in Nat /\ DockPathLen \in Nat
ASSUME MaxInFlight \in Nat \ {0}

Modes == {"Idle", "Moving", "Docking", "AdapterError"}
TaskIds == 1..MaxTaskId
NoIndex == -1           \* target_plan_index is nullopt
NoSoc == -1             \* the updater has never been given a battery soc

VARIABLES
  \* FleetDriverRobotCommandHandle (part_000:680-707)
  pathCb,        \* _travel_info.path_finished_callback is set
  dockCb,        \* _dock_finished_callback is set
  taskId,        \* _current_task_id
  pathReq,       \* _current_path_request: [id |-> task_id, len |-> path size]
  dockReq,       \* _current_dock_request: [id |-> task_id, dock |-> dock name]
  pathAge,       \* ticks since _path_requested_time
  dockAge,       \* ticks since _dock_requested_time
  dockSchedAge,  \* ticks since _dock_schedule_time
  interrupted,   \* _interrupted
  lastKnown,     \* _last_known_state has a value
  planLen,       \* _travel_info.waypoints.size()
  targetIdx,     \* _travel_info.target_plan_index
  soc,           \* last battery soc given to updater->update_battery_soc
  \* effects on the planner / updater
  replans,       \* replans[i]: updater->replan() calls while path i was current
  done,          \* task ids whose completion callback has been invoked
  \* fleet driver
  drvTask,       \* task_id the driver echoes
  drvMode,       \* mode the driver reports
  drvLeft,       \* waypoints of its current path not yet reached
  \* topics
  pathTopic,     \* PathRequest messages in flight
  modeTopic,     \* ModeRequest messages in flight
  stateTopic,    \* RobotState snapshots in flight
  \* history
  lastSent,      \* task id of the request published last, on either topic
  errSeen,       \* path ids for which an AdapterError snapshot was handled
  stopId         \* task id of the request stop() published last, 0 if none

handleVars == <<pathCb, dockCb, taskId, pathReq, dockReq, pathAge, dockAge,
                dockSchedAge, interrupted, lastKnown, planLen, targetIdx, soc>>
drvVars == <<drvTask, drvMode, drvLeft>>
\* what the path branches of update_state leave alone, and the dock branches
dockSide == <<dockAge, modeTopic, dockSchedAge>>
pathSide == <<pathAge, pathTopic, interrupted, replans, errSeen>>
vars == <<handleVars, replans, done, drvVars, pathTopic, modeTopic,
          stateTopic, lastSent, errSeen, stopId>>

MaxLen == CHOOSE n \in PathLens \cup {DockPathLen} :
            \A m \in PathLens \cup {DockPathLen} : m <= n
NoDock == ""            \* the dock parameter before any dock() call
Snapshots == [task : 0..MaxTaskId, mode : Modes, left : 0..MaxLen]

TypeOK ==
  /\ pathCb \in BOOLEAN /\ dockCb \in BOOLEAN
  /\ taskId \in 0..MaxTaskId
  /\ pathReq \in [id : 0..MaxTaskId, len : 0..MaxLen]
  /\ dockReq \in [id : 0..MaxTaskId, dock : DockNames \cup {NoDock}]
  /\ pathAge \in 0..ResendAfter + 1 /\ dockAge \in 0..ResendAfter + 1
  /\ dockSchedAge \in 0..DockPushAfter + 1
  /\ interrupted \in BOOLEAN /\ lastKnown \in BOOLEAN
  /\ planLen \in {0} \cup PathLens
  /\ targetIdx \in {NoIndex} \cup 0..MaxLen
  /\ soc \in {NoSoc} \cup 0..100
  /\ replans \in [TaskIds -> Nat] /\ done \subseteq TaskIds
  /\ drvTask \in 0..MaxTaskId /\ drvMode \in Modes
  /\ drvLeft \in 0..MaxLen
  /\ pathTopic \in Seq([id : TaskIds, len : 1..MaxLen])
  /\ modeTopic \in Seq([id : TaskIds, dock : DockNames])
  /\ stateTopic \in Seq(Snapshots)
  /\ lastSent \in 0..MaxTaskId /\ errSeen \subseteq TaskIds
  /\ stopId \in 0..MaxTaskId

-----------------------------------------------------------------------------
(* Helpers *)

\* Publishing on a keep_last topic: a full history drops its oldest message.
Send(topic, m) ==
  IF Len(topic) < MaxInFlight THEN Append(topic, m) ELSE Append(Tail(topic), m)

Age(a, limit) == IF a > limit THEN a ELSE a + 1

-----------------------------------------------------------------------------
(* Planner calls into the handle *)

follow_new_path(len) ==
  /\ taskId < MaxTaskId
  /\ pathCb' = TRUE /\ dockCb' = FALSE
  /\ targetIdx' = NoIndex
  /\ planLen' = len
  /\ interrupted' = FALSE
  /\ taskId' = taskId + 1
  /\ pathReq' = [id |-> taskId + 1, len |-> len]
  /\ pathAge' = 0
  /\ pathTopic' = Send(pathTopic, pathReq')
  /\ lastSent' = taskId + 1
  /\ UNCHANGED <<dockReq, dockAge, dockSchedAge, lastKnown, soc, replans,
                 done, drvVars, modeTopic, stateTopic, errSeen, stopId>>

\* stop() clears the callbacks, then either warns (never heard from the
\* robot) or sends a one-waypoint path at the last known location.
stop ==
  /\ pathCb' = FALSE /\ dockCb' = FALSE
  /\ \/ /\ ~lastKnown
        /\ UNCHANGED <<taskId, pathReq, pathAge, pathTopic, lastSent, stopId>>
     \/ /\ lastKnown
        /\ taskId < MaxTaskId
        /\ taskId' = taskId + 1
        /\ pathReq' = [id |-> taskId + 1, len |-> 1]
        /\ pathAge' = 0
        /\ pathTopic' = Send(pathTopic, pathReq')
        /\ lastSent' = taskId + 1
        /\ stopId' = taskId + 1
  /\ UNCHANGED <<dockReq, dockAge, dockSchedAge, interrupted, lastKnown,
                 planLen, targetIdx, soc, replans, done, drvVars, modeTopic,
                 stateTopic, errSeen>>

\* mutant: dock() leaves the path callback installed
dock_keeps_path_callback(name) ==
  /\ taskId < MaxTaskId
  /\ dockCb' = TRUE
  /\ taskId' = taskId + 1
  /\ dockReq' = [id |-> taskId + 1, dock |-> name]
  /\ dockAge' = 0
  /\ modeTopic' = Send(modeTopic, dockReq')
  /\ lastSent' = taskId + 1
  /\ UNCHANGED <<pathCb, pathReq, pathAge, dockSchedAge, interrupted, lastKnown,
                 planLen, targetIdx, soc, replans, done, drvVars, pathTopic,
                 stateTopic, errSeen, stopId>>

dock(name) ==
  /\ taskId < MaxTaskId
  /\ pathCb' = FALSE /\ dockCb' = TRUE
  /\ taskId' = taskId + 1
  /\ dockReq' = [id |-> taskId + 1, dock |-> name]
  /\ dockAge' = 0
  /\ modeTopic' = Send(modeTopic, dockReq')
  /\ lastSent' = taskId + 1
  /\ UNCHANGED <<pathReq, pathAge, dockSchedAge, interrupted, lastKnown,
                 planLen, targetIdx, soc, replans, done, drvVars, pathTopic,
                 stateTopic, errSeen, stopId>>

-----------------------------------------------------------------------------
(* update_state(s): one RobotState snapshot, under the handle's mutex.     *)
(* Every branch first records the snapshot, forwards a valid battery soc   *)
(* and clears target_plan_index; the branches below are the rest.          *)

\* mutant: the 0..100 range check on battery_percent is missing
record_unchecked(b) ==
  /\ lastKnown' = TRUE
  /\ soc' = b

Record(b) ==
  /\ lastKnown' = TRUE
  /\ soc' = IF 0 <= b /\ b <= 100 THEN b ELSE soc

\* mutant: _path_requested_time refreshed on every unacknowledged snapshot
path_unacknowledged_refresh_always(s) ==
  /\ pathCb /\ s.task # pathReq.id
  /\ targetIdx' = NoIndex
  /\ pathAge' = 0
  /\ IF pathAge > ResendAfter
       THEN /\ pathTopic' = Send(pathTopic, pathReq)
            /\ lastSent' = pathReq.id
       ELSE UNCHANGED <<pathTopic, lastSent>>
  /\ UNCHANGED <<dockSide, pathCb, dockCb, interrupted, replans, done, errSeen>>

\* mutant: the _interrupted check is missing
path_adapter_error_always_replans(s) ==
  /\ pathCb /\ s.task = pathReq.id /\ s.mode = "AdapterError"
  /\ targetIdx' = NoIndex
  /\ errSeen' = errSeen \cup {pathReq.id}
  /\ interrupted' = TRUE
  /\ replans' = [replans EXCEPT ![pathReq.id] = @ + 1]
  /\ UNCHANGED <<dockSide, pathCb, dockCb, pathAge, pathTopic, lastSent, done>>

\* mutant: dock_finished_callback is invoked but not cleared
dock_finished_keeps_callback(s) ==
  /\ ~pathCb /\ dockCb /\ s.task = dockReq.id /\ s.mode # "Docking"
  /\ targetIdx' = NoIndex
  /\ done' = done \cup {dockReq.id}
  /\ UNCHANGED <<pathSide, pathCb, dockCb, dockAge, modeTopic, lastSent, dockSchedAge>>

\* Following, and the driver has not echoed our task id: resend after 200 ms.
path_unacknowledged(s) ==
  /\ pathCb /\ s.task # pathReq.id
  /\ targetIdx' = NoIndex
  /\ IF pathAge > ResendAfter
       THEN /\ pathAge' = 0
            /\ pathTopic' = Send(pathTopic, pathReq)
            /\ lastSent' = pathReq.id
       ELSE UNCHANGED <<pathAge, pathTopic, lastSent>>
  /\ UNCHANGED <<dockSide, pathCb, dockCb, interrupted, replans, done, errSeen>>

\* The driver reports MODE_ADAPTER_ERROR: ask for one replan per path.
path_adapter_error(s) ==
  /\ pathCb /\ s.task = pathReq.id /\ s.mode = "AdapterError"
  /\ targetIdx' = NoIndex
  /\ errSeen' = errSeen \cup {pathReq.id}
  /\ IF interrupted
       THEN UNCHANGED <<interrupted, replans>>
       ELSE /\ interrupted' = TRUE
            /\ replans' = [replans EXCEPT ![pathReq.id] = @ + 1]
  /\ UNCHANGED <<dockSide, pathCb, dockCb, pathAge, pathTopic, lastSent, done>>

\* Empty residual path: the driver believes it has arrived.  The arrival
\* check invokes path_finished_callback once and clears it.
check_path_finish(s) ==
  /\ pathCb /\ s.task = pathReq.id /\ s.mode # "AdapterError" /\ s.left = 0
  /\ targetIdx' = NoIndex
  /\ pathCb' = FALSE
  /\ done' = done \cup {pathReq.id}
  /\ UNCHANGED <<dockSide, dockCb, interrupted, pathAge, pathTopic, lastSent, replans,
                 errSeen>>

\* Still travelling: the target is the first waypoint not yet reached.
estimate_path_traveling(s) ==
  /\ pathCb /\ s.task = pathReq.id /\ s.mode # "AdapterError" /\ s.left > 0
  /\ targetIdx' = planLen - s.left
  /\ UNCHANGED <<dockSide, pathCb, dockCb, interrupted, pathAge, pathTopic, lastSent,
                 replans, done, errSeen>>

\* Docking, and the driver has not echoed the dock task id: resend.
dock_unacknowledged(s) ==
  /\ ~pathCb /\ dockCb /\ s.task # dockReq.id
  /\ targetIdx' = NoIndex
  /\ IF dockAge > ResendAfter
       THEN /\ dockAge' = 0
            /\ modeTopic' = Send(modeTopic, dockReq)
            /\ lastSent' = dockReq.id
       ELSE UNCHANGED <<dockAge, modeTopic, lastSent>>
  /\ UNCHANGED <<pathSide, pathCb, dockCb, dockSchedAge, done>>

\* The driver echoes the dock and no longer reports MODE_DOCKING: the dock
\* is over; dock_finished_callback runs and is cleared.
dock_finished(s) ==
  /\ ~pathCb /\ dockCb /\ s.task = dockReq.id /\ s.mode # "Docking"
  /\ targetIdx' = NoIndex
  /\ dockCb' = FALSE
  /\ done' = done \cup {dockReq.id}
  /\ UNCHANGED <<pathSide, pathCb, dockAge, modeTopic, lastSent, dockSchedAge>>

\* Still docking: push the docking path into the schedule at most once per
\* second.  The push can still be skipped: Interpolate may give fewer than
\* two points, or the updater may have no participant (pushed = FALSE).
docking_progress(s) ==
  /\ ~pathCb /\ dockCb /\ s.task = dockReq.id /\ s.mode = "Docking"
  /\ targetIdx' = NoIndex
  /\ IF s.left > 0 /\ dockSchedAge > DockPushAfter
       THEN \E pushed \in BOOLEAN :
              dockSchedAge' = IF pushed THEN 0 ELSE dockSchedAge
       ELSE UNCHANGED dockSchedAge
  /\ UNCHANGED <<pathSide, pathCb, dockCb, dockAge, modeTopic, lastSent, done>>

\* No callback installed: the robot is not under our command.
not_commanded(s) ==
  /\ ~pathCb /\ ~dockCb
  /\ targetIdx' = NoIndex
  /\ UNCHANGED <<pathSide, pathCb, dockCb, dockAge, modeTopic, lastSent, dockSchedAge,
                 done>>

\* The fleet_state subscription hands the oldest snapshot to update_state.
update_state ==
  /\ stateTopic # <<>>
  /\ stateTopic' = Tail(stateTopic)
  /\ \E b \in BatteryReadings :
       /\ Record(b)
       /\ LET s == Head(stateTopic) IN
            \/ path_unacknowledged(s)
            \/ path_adapter_error(s)
            \/ check_path_finish(s)
            \/ estimate_path_traveling(s)
            \/ dock_unacknowledged(s)
            \/ dock_finished(s)
            \/ docking_progress(s)
            \/ not_commanded(s)
  /\ UNCHANGED <<taskId, pathReq, dockReq, planLen, drvVars, stopId>>

-----------------------------------------------------------------------------
(* The fleet driver (outside this repository): it executes the newest     *)
(* request it receives and ignores a repeat of the task it is running.    *)

driver_receive_path ==
  /\ pathTopic # <<>>
  /\ pathTopic' = Tail(pathTopic)
  /\ LET m == Head(pathTopic) IN
       IF m.id = drvTask
         THEN UNCHANGED drvVars
         ELSE /\ drvTask' = m.id
              /\ drvMode' = "Moving"
              /\ drvLeft' = m.len
  /\ UNCHANGED <<handleVars, replans, done, modeTopic, stateTopic, lastSent,
                 errSeen, stopId>>

driver_receive_dock ==
  /\ modeTopic # <<>>
  /\ modeTopic' = Tail(modeTopic)
  /\ LET m == Head(modeTopic) IN
       IF m.id = drvTask
         THEN UNCHANGED drvVars
         ELSE /\ drvTask' = m.id
              /\ drvMode' = "Docking"
              /\ drvLeft' = DockPathLen
  /\ UNCHANGED <<handleVars, replans, done, pathTopic, stateTopic, lastSent,
                 errSeen, stopId>>

\* Reach the next waypoint of the path or of the docking path.
driver_advance ==
  /\ drvMode \in {"Moving", "Docking"} /\ drvLeft > 0
  /\ drvLeft' = drvLeft - 1
  /\ drvMode' = IF drvMode = "Moving" /\ drvLeft = 1 THEN "Idle" ELSE drvMode
  /\ UNCHANGED <<drvTask, handleVars, replans, done, pathTopic, modeTopic,
                 stateTopic, lastSent, errSeen, stopId>>

driver_finish_dock ==
  /\ drvMode = "Docking" /\ drvLeft = 0
  /\ drvMode' = "Idle"
  /\ UNCHANGED <<drvTask, drvLeft, handleVars, replans, done, pathTopic,
                 modeTopic, stateTopic, lastSent, errSeen, stopId>>

\* The driver cannot follow its path and asks the adapter to replan.
driver_error ==
  /\ drvMode = "Moving"
  /\ drvMode' = "AdapterError"
  /\ UNCHANGED <<drvTask, drvLeft, handleVars, replans, done, pathTopic,
                 modeTopic, stateTopic, lastSent, errSeen, stopId>>

driver_publish ==
  /\ stateTopic' = Send(stateTopic, [task |-> drvTask, mode |-> drvMode,
                                     left |-> drvLeft])
  /\ UNCHANGED <<drvVars, handleVars, replans, done, pathTopic, modeTopic,
                 lastSent, errSeen, stopId>>

\* A message is lost in transit.
lose ==
  /\ \/ pathTopic # <<>> /\ pathTopic' = Tail(pathTopic)
                         /\ UNCHANGED <<modeTopic, stateTopic>>
     \/ modeTopic # <<>> /\ modeTopic' = Tail(modeTopic)
                         /\ UNCHANGED <<pathTopic, stateTopic>>
     \/ stateTopic # <<>> /\ stateTopic' = Tail(stateTopic)
                          /\ UNCHANGED <<pathTopic, modeTopic>>
  /\ UNCHANGED <<drvVars, handleVars, replans, done, lastSent, errSeen, stopId>>

\* steady_clock advances.
tick ==
  /\ pathAge' = Age(pathAge, ResendAfter)
  /\ dockAge' = Age(dockAge, ResendAfter)
  /\ dockSchedAge' = Age(dockSchedAge, DockPushAfter)
  /\ UNCHANGED <<pathCb, dockCb, taskId, pathReq, dockReq, interrupted,
                 lastKnown, planLen, targetIdx, soc, replans, done, drvVars,
                 pathTopic, modeTopic, stateTopic, lastSent, errSeen, stopId>>

-----------------------------------------------------------------------------

Init ==
  /\ pathCb = FALSE /\ dockCb = FALSE
  /\ taskId = 0
  /\ pathReq = [id |-> 0, len |-> 0]
  /\ dockReq = [id |-> 0, dock |-> NoDock]
  \* the request timestamps start at the clock's epoch, long ago
  /\ pathAge = ResendAfter + 1 /\ dockAge = ResendAfter + 1
  \* _dock_schedule_time starts at construction
  /\ dockSchedAge = 0
  /\ interrupted = FALSE /\ lastKnown = FALSE
  /\ planLen = 0 /\ targetIdx = NoIndex /\ soc = NoSoc
  /\ replans = [i \in TaskIds |-> 0] /\ done = {}
  /\ drvTask = 0 /\ drvMode = "Idle" /\ drvLeft = 0
  /\ pathTopic = <<>> /\ modeTopic = <<>> /\ stateTopic = <<>>
  /\ lastSent = 0 /\ errSeen = {} /\ stopId = 0

Planner ==
  \/ \E len \in PathLens : follow_new_path(len)
  \/ stop
  \/ \E name \in DockNames : dock(name)

Driver ==
  \/ driver_receive_path \/ driver_receive_dock \/ driver_advance
  \/ driver_finish_dock \/ driver_error \/ driver_publish

Next == Planner \/ update_state \/ Driver \/ lose \/ tick

\* The executor keeps handing snapshots to update_state and the driver keeps
\* publishing; a topic loses messages but not every message sent on it
\* forever (strong fairness, since loss disables delivery intermittently);
\* time passes.  The planner and the driver's choices are not fair.
Fairness ==
  /\ SF_vars(update_state)
  /\ WF_vars(driver_publish)
  /\ SF_vars(driver_receive_path) /\ SF_vars(driver_receive_dock)
  /\ WF_vars(tick)

Spec == Init /\ [][Next]_vars
FairSpec == Spec /\ Fairness

-----------------------------------------------------------------------------
(* Properties *)

\* Requests leave the adapter in task-id order: once a request with id i has
\* been published (follow_new_path, stop, dock or a resend in update_state),
\* no request with a smaller id is published again.  A resend of a
\* superseded path or dock would break it.
SentIdsNeverDecrease == [][lastSent' >= lastSent]_lastSent

\* MODE_ADAPTER_ERROR from the driver triggers exactly one replan per path
\* command, however many such snapshots arrive (the _interrupted flag), and
\* every path command whose error was handled did trigger one.
ReplanOncePerAdapterError ==
  \A i \in TaskIds : replans[i] = IF i \in errSeen THEN 1 ELSE 0

\* The task id whose completion callback is installed.
ActiveCommand ==
  IF pathCb THEN pathReq.id ELSE IF dockCb THEN dockReq.id ELSE 0

Contract == INSTANCE CommandContract WITH
              issued <- taskId, active <- ActiveCommand, done <- done

\* The handle implements the command contract: follow_new_path, stop and
\* dock supersede the active command, and path_finished_callback /
\* dock_finished_callback run at most once, only for the current command.
ImplementsContract == Contract!Spec

\* A path or dock command is eventually adopted by the driver unless the
\* handle stops tracking it first, although any PathRequest or ModeRequest
\* may be lost: the resend in update_state repeats the request every
\* 200 ms until the driver's echo matches.
CommandAcknowledged ==
  \A i \in TaskIds :
    (ActiveCommand = i) ~> (drvTask = i \/ ActiveCommand # i)

\* A stop() that reaches its publish (the robot has reported a state) ends
\* the path the driver is running: while no newer command is issued, the
\* driver eventually adopts the stop request.  stop() publishes it once
\* and clears the callbacks that gate the resend in update_state, so a lost
\* stop request leaves the robot on its earlier path.
StopReachesDriver ==
  \A i \in TaskIds :
    (stopId = i /\ taskId = i /\ drvMode = "Moving" /\ drvTask # i)
      ~> (drvTask = i \/ taskId # i)

=============================================================================
