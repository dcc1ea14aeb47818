-------------------------- MODULE FleetCoordinator --------------------------
(***************************************************************************)
(* The Connections object of the full_control fleet adapter and the        *)
(* subscription callbacks of make_fleet (src/unnamed/part_000): the robots *)
(* map from robot name to command handle, registration of a robot on its   *)
(* first FleetState, the asynchronous fleet->add_robot completion, and the *)
(* fan-out of lane-closure, interrupt, action-idle and parameter events to *)
(* the handles.  All callbacks run on one executor, so each is one atomic  *)
(* step.  A handle's own path/dock machinery is RobotCommandHandle; here a *)
(* handle is reduced to what these events touch: its interrupt registry,   *)
(* its action-execution slot and the lane closures it was told about.      *)
(*                                                                         *)
(* A robots entry is "Absent" (no key), "Pending" (the key maps to a null  *)
(* pointer: robots.insert({name, nullptr}) ran but add_robot has not       *)
(* stored a handle) or "Ready".  Calling a method through a null handle is *)
(* a segmentation fault: the process stops (crashed).                      *)
(***************************************************************************)
EXTENDS Naturals, FiniteSets

CONSTANTS
  Robots,         \* robot names appearing in FleetState messages
  Lanes,          \* lane indices of the navigation graph
  InterruptIds,   \* interrupt_id values of InterruptRequest messages
  MaxInterrupts,  \* bound on INTERRUPT registrations per robot and id
  MaxActions      \* bound on teleop action executions per robot

ASSUME MaxInterrupts \in Nat /\ MaxActions \in Nat

Entries == {"Absent", "Pending", "Ready"}
RequestTypes == {"INTERRUPT", "RESUME"}
\* the callbacks that loop over or look up the robots map
Callbacks == {"lane_request", "interrupt_request", "action_idle", "parameter_change"}

VARIABLES
  entry,        \* robots: entry[r] as described above
  located,      \* compute_plan_starts succeeds for r's currently reported pose
  adding,       \* robots whose fleet->add_robot completion is outstanding
  closed,       \* Connections::closed_lanes
  fleetClosed,  \* lanes the FleetUpdateHandle treats as closed
  published,    \* closed_lanes of the last ClosedLanes status message
  notified,     \* notified[r]: lanes passed to r's newly_closed_lanes
  closedAtAdd,  \* closed_lanes when r's handle was stored
  registry,     \* registry[r]: keys of r's _interruptions
  interrupts,   \* interrupts[r][i]: updater->interrupt calls for id i
  resumes,      \* resumes[r][i]: Interruption::resume calls for id i
  slot,         \* slot[r]: r's _action_execution has a value
  started,      \* started[r]: action executions handed to r
  finished,     \* finished[r]: ActionExecution::finished calls of r
  crashed       \* callback that dereferenced a null command handle, or "none"

vars == <<entry, located, adding, closed, fleetClosed, published, notified,
          closedAtAdd, registry, interrupts, resumes, slot, started, finished,
          crashed>>
laneVars == <<closed, fleetClosed, published, notified, closedAtAdd>>
handleVars == <<registry, interrupts, resumes, slot, started, finished>>

TypeOK ==
  /\ entry \in [Robots -> Entries]
  /\ located \in [Robots -> BOOLEAN]
  /\ adding \subseteq {r \in Robots : entry[r] = "Pending"}
  /\ closed \subseteq Lanes /\ fleetClosed \subseteq Lanes
  /\ published \subseteq Lanes
  /\ notified \in [Robots -> SUBSET Lanes]
  /\ closedAtAdd \in [Robots -> SUBSET Lanes]
  /\ registry \in [Robots -> SUBSET InterruptIds]
  /\ interrupts \in [Robots -> [InterruptIds -> 0..MaxInterrupts]]
  /\ resumes \in [Robots -> [InterruptIds -> 0..MaxInterrupts]]
  /\ slot \in [Robots -> BOOLEAN]
  /\ started \in [Robots -> 0..MaxActions]
  /\ finished \in [Robots -> Nat]
  /\ crashed \in {"none"} \cup Callbacks

\* A loop over every value of the robots map reaches a null handle.
SomePending == \E r \in Robots : entry[r] = "Pending"

-----------------------------------------------------------------------------
(* FleetState subscription and Connections::add_robot *)

\* Connections::add_robot: with no plan starts for the reported pose only a
\* diagnostic is logged; otherwise the fleet is asked to add the robot and
\* will call back.
add_robot(r) ==
  adding' = IF located[r] THEN adding \cup {r} ELSE adding

\* mutant: add_robot runs without first inserting the name into robots
fleet_state_no_insert(r) ==
  /\ crashed = "none"
  /\ IF entry[r] = "Absent"
       THEN /\ add_robot(r) /\ UNCHANGED entry
       ELSE UNCHANGED <<entry, adding>>
  /\ UNCHANGED <<located, laneVars, handleVars, crashed>>

\* A FleetState message reports robot r.  An unseen name is inserted with a
\* null handle and add_robot runs; a stored handle gets the state through
\* update_state (RobotCommandHandle).
fleet_state(r) ==
  /\ crashed = "none"
  /\ IF entry[r] = "Absent"
       THEN /\ entry' = [entry EXCEPT ![r] = "Pending"]
            /\ add_robot(r)
       ELSE UNCHANGED <<entry, adding>>
  /\ UNCHANGED <<located, laneVars, handleVars, crashed>>

\* mutant: the completion does not mark the add as done
robot_added_keeps_outstanding(r) ==
  /\ crashed = "none"
  /\ r \in adding
  /\ entry' = [entry EXCEPT ![r] = "Ready"]
  /\ closedAtAdd' = [closedAtAdd EXCEPT ![r] = closed]
  /\ UNCHANGED <<adding, located, closed, fleetClosed, published, notified,
                 handleVars, crashed>>

\* The fleet calls the add_robot completion: set_updater, then the handle is
\* stored under the robot's name.
robot_added(r) ==
  /\ crashed = "none"
  /\ r \in adding
  /\ adding' = adding \ {r}
  /\ entry' = [entry EXCEPT ![r] = "Ready"]
  /\ closedAtAdd' = [closedAtAdd EXCEPT ![r] = closed]
  /\ UNCHANGED <<located, closed, fleetClosed, published, notified,
                 handleVars, crashed>>

\* The robot moves on or off the navigation graph.
robot_moves(r) ==
  /\ crashed = "none"
  /\ located' = [located EXCEPT ![r] = ~@]
  /\ UNCHANGED <<entry, adding, laneVars, handleVars, crashed>>

-----------------------------------------------------------------------------
(* LaneRequest subscription *)

\* mutant: the newly closed subset is taken after closed_lanes is updated
newly_closed_after_insert(close) == {l \in close : l \notin closed \cup close}

\* Lanes of the request not already in closed_lanes, computed before the
\* request is applied to closed_lanes.
NewlyClosed(close) == {l \in close : l \notin closed}

\* The fleet opens, then closes the requested lanes; closed_lanes gets the
\* closures, then the openings; every handle hears of the newly closed
\* lanes; the resulting set is published.
lane_request(close, open) ==
  /\ crashed = "none"
  /\ fleetClosed' = (fleetClosed \ open) \cup close
  /\ closed' = (closed \cup close) \ open
  /\ IF SomePending
       THEN /\ crashed' = "lane_request"
            /\ UNCHANGED <<notified, published>>
       ELSE /\ notified' = [r \in Robots |->
                              IF entry[r] = "Ready"
                                THEN notified[r] \cup NewlyClosed(close)
                                ELSE notified[r]]
            /\ published' = closed'
            /\ UNCHANGED crashed
  /\ UNCHANGED <<entry, located, adding, closedAtAdd, handleVars>>

-----------------------------------------------------------------------------
(* InterruptRequest subscription and handle_interrupt_request *)

\* mutant: a resumed interruption is not erased from the registry
resume_keeps_entry(r, i, type) ==
  \/ /\ i \notin registry[r] /\ type = "INTERRUPT"
     /\ interrupts[r][i] < MaxInterrupts
     /\ registry' = [registry EXCEPT ![r] = @ \cup {i}]
     /\ interrupts' = [interrupts EXCEPT ![r][i] = @ + 1]
     /\ UNCHANGED resumes
  \/ /\ i \in registry[r] /\ type = "RESUME"
     /\ resumes' = [resumes EXCEPT ![r][i] = @ + 1]
     /\ UNCHANGED <<registry, interrupts>>
  \/ /\ \/ i \notin registry[r] /\ type = "RESUME"
        \/ i \in registry[r] /\ type = "INTERRUPT"
     /\ UNCHANGED <<registry, interrupts, resumes>>

\* The robot's handle: an unknown id is registered on INTERRUPT, a known id
\* is resumed and forgotten on RESUME; the other two cases do nothing.
handle_interrupt_request(r, i, type) ==
  \/ /\ i \notin registry[r] /\ type = "INTERRUPT"
     /\ interrupts[r][i] < MaxInterrupts
     /\ registry' = [registry EXCEPT ![r] = @ \cup {i}]
     /\ interrupts' = [interrupts EXCEPT ![r][i] = @ + 1]
     /\ UNCHANGED resumes
  \/ /\ i \in registry[r] /\ type = "RESUME"
     /\ resumes' = [resumes EXCEPT ![r][i] = @ + 1]
     /\ registry' = [registry EXCEPT ![r] = @ \ {i}]
     /\ UNCHANGED interrupts
  \/ /\ \/ i \notin registry[r] /\ type = "RESUME"
        \/ i \in registry[r] /\ type = "INTERRUPT"
     /\ UNCHANGED <<registry, interrupts, resumes>>

\* The subscription looks the robot up and calls its handle.
interrupt_request(r, i, type) ==
  /\ crashed = "none"
  /\ \/ entry[r] = "Absent" /\ UNCHANGED <<registry, interrupts, resumes, crashed>>
     \/ entry[r] = "Pending" /\ crashed' = "interrupt_request"
        /\ UNCHANGED <<registry, interrupts, resumes>>
     \/ entry[r] = "Ready" /\ handle_interrupt_request(r, i, type)
        /\ UNCHANGED crashed
  /\ UNCHANGED <<entry, located, adding, laneVars, slot, started, finished>>

-----------------------------------------------------------------------------
(* Teleop action execution *)

\* The updater runs the teleop action executor of a stored handle: the
\* ActionExecution is kept in the slot, replacing any previous one.
action_started(r) ==
  /\ crashed = "none"
  /\ entry[r] = "Ready"
  /\ started[r] < MaxActions
  /\ slot' = [slot EXCEPT ![r] = TRUE]
  /\ started' = [started EXCEPT ![r] = @ + 1]
  /\ UNCHANGED <<entry, located, adding, laneVars, registry, interrupts,
                 resumes, finished, crashed>>

\* mutant: the slot is not cleared after finished()
complete_keeps_slot(r) ==
  /\ slot[r]
  /\ finished' = [finished EXCEPT ![r] = @ + 1]
  /\ UNCHANGED slot

complete_robot_action(r) ==
  \/ /\ slot[r]
     /\ finished' = [finished EXCEPT ![r] = @ + 1]
     /\ slot' = [slot EXCEPT ![r] = FALSE]
  \/ /\ ~slot[r]
     /\ UNCHANGED <<slot, finished>>

\* An /action_execution_notice ModeRequest with MODE_IDLE for robot r.
action_idle(r) ==
  /\ crashed = "none"
  /\ \/ entry[r] = "Absent" /\ UNCHANGED <<slot, finished, crashed>>
     \/ entry[r] = "Pending" /\ crashed' = "action_idle"
        /\ UNCHANGED <<slot, finished>>
     \/ entry[r] = "Ready" /\ complete_robot_action(r) /\ UNCHANGED crashed
  /\ UNCHANGED <<entry, located, adding, laneVars, registry, interrupts,
                 resumes, started>>

\* enable_responsive_wait is set: every value of the robots map is asked for
\* its updater.
parameter_change ==
  /\ crashed = "none"
  /\ SomePending
  /\ crashed' = "parameter_change"
  /\ UNCHANGED <<entry, located, adding, laneVars, handleVars>>

-----------------------------------------------------------------------------

Init ==
  /\ entry = [r \in Robots |-> "Absent"]
  /\ located \in [Robots -> BOOLEAN]
  /\ adding = {}
  /\ closed = {} /\ fleetClosed = {} /\ published = {}
  /\ notified = [r \in Robots |-> {}]
  /\ closedAtAdd = [r \in Robots |-> {}]
  /\ registry = [r \in Robots |-> {}]
  /\ interrupts = [r \in Robots |-> [i \in InterruptIds |-> 0]]
  /\ resumes = [r \in Robots |-> [i \in InterruptIds |-> 0]]
  /\ slot = [r \in Robots |-> FALSE]
  /\ started = [r \in Robots |-> 0] /\ finished = [r \in Robots |-> 0]
  /\ crashed = "none"

Next ==
  \/ \E r \in Robots :
       \/ fleet_state(r) \/ robot_added(r) \/ robot_moves(r)
       \/ action_started(r) \/ action_idle(r)
       \/ \E i \in InterruptIds, type \in RequestTypes :
            interrupt_request(r, i, type)
  \/ \E close, open \in SUBSET Lanes : lane_request(close, open)
  \/ parameter_change

\* The driver keeps publishing FleetState for each of its robots and the
\* fleet eventually completes an add_robot it accepted.  Robot motion and
\* the control-plane requests are not fair.
Fairness ==
  \A r \in Robots : WF_vars(fleet_state(r)) /\ WF_vars(robot_added(r))

Spec == Init /\ [][Next]_vars
FairSpec == Spec /\ Fairness

-----------------------------------------------------------------------------
(* Properties *)

\* Every lane in closed_lanes reaches every stored handle: either it was
\* already closed when the handle was stored, or the lane-closure callback
\* passed it to the handle's newly_closed_lanes.  The newly closed subset
\* is computed against closed_lanes before the request is applied to it.
ClosuresReachEveryRobot ==
  crashed = "none" =>
    \A r \in Robots :
      entry[r] = "Ready" => closed \subseteq notified[r] \cup closedAtAdd[r]

\* handle_interrupt_request keeps the interrupt registry balanced against
\* the updater: for each id, one updater->interrupt per registration, one
\* resume per RESUME of a registered id, and the id is registered exactly
\* while an interruption is outstanding; a duplicate INTERRUPT or a stray
\* RESUME changes nothing.
InterruptsBalanced ==
  \A r \in Robots, i \in InterruptIds :
    interrupts[r][i] = resumes[r][i] + (IF i \in registry[r] THEN 1 ELSE 0)

\* complete_robot_action calls finished() at most once per action execution
\* the updater handed to the robot.
ActionFinishedAtMostOnce ==
  \A r \in Robots :
    finished[r] + (IF slot[r] THEN 1 ELSE 0) <= started[r]

\* No callback dereferences the null handle that a robot's entry holds
\* while its registration is pending or after it failed (spec 4.3: a robot
\* that cannot be placed is not added).
NoNullDereference == crashed = "none"

\* A robot whose pose stays on the graph is eventually registered while the
\* adapter keeps running (spec 8.8: re-sending the telemetry re-runs the
\* computation).
RegisteredWhenLocatable ==
  \A r \in Robots :
    (<>[]located[r] /\ [](crashed = "none")) => <>(entry[r] = "Ready")

====
