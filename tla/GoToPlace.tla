----------------------------- MODULE GoToPlace -----------------------------
(***************************************************************************)
(* GoToPlace (MoveRobot.hpp 339-784): a phase that plans a route to a goal *)
(* and runs the plan's sub-phases, and that switches to an emergency       *)
(* pullover while the emergency alarm is on.                               *)
(*                                                                         *)
(* Plans come from two asynchronous sources, each observed on the worker: *)
(*  - a planning job (FindPath or FindEmergencyPullover) whose result      *)
(*    _plan_subscription observes;                                         *)
(*  - a traffic negotiation started by respond(), whose approval callback *)
(*    executes the plan it settled on.                                     *)
(* execute_plan splits the plan into sub-phases (GoToPlaceSplit) and      *)
(* replaces _subtasks and their status subscription.  A plan is its kind, *)
(* "path" to the goal or "pullover", and the events of its waypoints.     *)
(*                                                                         *)
(* The subscription members are subscription guards (declared in          *)
(* GoToPlace.hpp, outside src/): assigning one unsubscribes the previous  *)
(* job, whose result is then never delivered.                              *)
(***************************************************************************)
EXTENDS Naturals, FiniteSets, GoToPlaceSplit

CONSTANTS
  PlanEvents,   \* the lane events a plan's waypoints may carry
  MaxLen        \* most waypoints in a plan

ASSUME PlanEvents \subseteq Events /\ "none" \in PlanEvents
ASSUME MaxLen \in Nat \ {0}

\* The waypoint events of the plans the planner and the negotiation return;
\* a plan has at least the robot's start waypoint.
Plans == UNION {[1..n -> PlanEvents] : n \in 1..MaxLen}

\* Whether a plan's itinerary has a route.  estimate_remaining_time
\* (345-350) expects an empty itinerary; it is empty only for a plan that
\* does not move the robot, one of its start waypoint alone.
Itineraries(p) == IF Len(p) = 1 THEN {"empty", "route"} ELSE {"route"}

Kinds == {"path", "pullover"}
NoPlan == "none"

\* The kind of plan the planner is asked for in each alarm state.
ModeKind(emergency) == IF emergency THEN "pullover" ELSE "path"

VARIABLES
  phase,          \* "unmade", "null" (make returned nullptr), "pending", "active"
  emergency,      \* _emergency_active
  planJobs,       \* kinds of the planning jobs whose results are observed
  negotiation,    \* kind of the negotiation _negotiate_subscription observes
  subtasks,       \* kind of the plan _subtasks run, or NoPlan
  subPlan,        \* waypoint events of that plan (_plan)
  subPhases,      \* the pending phases of _subtasks
  subState,       \* "running", "cancelled" or "done"
  performingEmergency, \* _performing_emergency_task
  outcome,        \* the status publisher: "running", "completed", "error"
  crashed         \* where an empty optional or vector was dereferenced

subVars == <<subtasks, subPlan, subPhases>>

vars == <<phase, emergency, planJobs, negotiation, subVars, subState,
          performingEmergency, outcome, crashed>>

TypeOK ==
  /\ phase \in {"unmade", "null", "pending", "active"}
  /\ emergency \in BOOLEAN
  /\ planJobs \subseteq Kinds /\ Cardinality(planJobs) <= 1
  /\ negotiation \in Kinds \cup {NoPlan}
  /\ subtasks \in Kinds \cup {NoPlan}
  /\ subPlan \in Plans \cup {<<>>}
  /\ \A q \in DOMAIN subPhases : subPhases[q].kind \in PhaseKinds
  /\ subState \in {"running", "cancelled", "done"}
  /\ performingEmergency \in BOOLEAN
  /\ outcome \in {"running", "completed", "error"}
  /\ crashed \subseteq {"cancel", "front"}

Init ==
  /\ phase = "unmade"
  /\ emergency = FALSE
  /\ planJobs = {}
  /\ negotiation = NoPlan
  /\ subtasks = NoPlan
  /\ subPlan = <<>> /\ subPhases = <<>>
  /\ subState = "running"
  /\ performingEmergency = FALSE
  /\ outcome = "running"
  /\ crashed = {}

-----------------------------------------------------------------------------
(* Helpers the handlers share *)

\* mutant: the previous planning job stays subscribed
start_planning_keeps_old(k) == planJobs' = planJobs \cup {k}

\* find_plan / find_emergency_plan: start a planning job of kind k; the
\* assignment to _plan_subscription drops the job observed before.
StartPlanning(k) == planJobs' = {k}

\* cancel(): cancel the subtasks, if there are any.
CancelSubtasks ==
  subState' = IF subtasks # NoPlan THEN "cancelled" ELSE subState

\* execute_plan(plan): the plan is split into sub-phases, which replace the
\* old subtasks and their status subscription; the start and finish times
\* are read from the front and back of the itinerary, then the subtasks
\* begin and the itinerary goes to the schedule.
ExecutePlan(k, p, itin) ==
  /\ subtasks' = k /\ subPlan' = p /\ subPhases' = SubPhases(p)
  /\ subState' = "running"
  /\ crashed' = IF itin = "empty" THEN crashed \cup {"front"} ELSE crashed

-----------------------------------------------------------------------------
(* Handlers *)

\* GoToPlace::make: no Pending phase when the planner finds no cost
\* estimate for the goal.
make(found) ==
  /\ phase = "unmade"
  /\ phase' = IF found THEN "pending" ELSE "null"
  /\ UNCHANGED <<emergency, planJobs, negotiation, subVars, subState,
                 performingEmergency, outcome, crashed>>

\* Pending::begin: construct the Active phase (initial status, negotiator
\* licence) and find_plan().
begin ==
  /\ phase = "pending"
  /\ phase' = "active"
  /\ StartPlanning(ModeKind(emergency))
  /\ UNCHANGED <<emergency, negotiation, subVars, subState,
                 performingEmergency, outcome, crashed>>

\* mutant: turning the alarm off does not plan again
emergency_alarm_no_replan(on) ==
  /\ phase = "active" /\ emergency # on
  /\ emergency' = on
  /\ IF on THEN CancelSubtasks /\ StartPlanning(ModeKind(on))
           ELSE UNCHANGED <<subState, planJobs>>
  /\ UNCHANGED <<phase, negotiation, subVars, performingEmergency,
                 outcome, crashed>>

\* emergency_alarm(on): nothing if unchanged; turning it on cancels the
\* subtasks and plans a pullover, turning it off plans a path.
emergency_alarm(on) ==
  /\ phase = "active" /\ emergency # on
  /\ emergency' = on
  /\ IF on THEN CancelSubtasks ELSE UNCHANGED subState
  /\ StartPlanning(ModeKind(on))
  /\ UNCHANGED <<phase, negotiation, subVars, performingEmergency,
                 outcome, crashed>>

\* A planning job's result reaches the worker with a plan: execute it; an
\* emergency pullover also sets _performing_emergency_task.
plan_found(k, p, itin) ==
  /\ k \in planJobs
  /\ planJobs' = planJobs \ {k}
  /\ ExecutePlan(k, p, itin)
  /\ performingEmergency' = (performingEmergency \/ k = "pullover")
  /\ UNCHANGED <<phase, emergency, negotiation, outcome>>

\* A planning job's result without a plan: the status stream errors and
\* _subtasks->cancel() is called without checking that _subtasks is set.
plan_not_found(k) ==
  /\ k \in planJobs
  /\ planJobs' = planJobs \ {k}
  /\ outcome' = IF outcome = "running" THEN "error" ELSE outcome
  /\ crashed' = IF subtasks = NoPlan THEN crashed \cup {"cancel"} ELSE crashed
  /\ CancelSubtasks
  /\ UNCHANGED <<phase, emergency, negotiation, subVars,
                 performingEmergency>>

\* cancel() from the owning task.
cancel ==
  /\ phase = "active"
  /\ CancelSubtasks
  /\ UNCHANGED <<phase, emergency, planJobs, negotiation, subVars,
                 performingEmergency, outcome, crashed>>

\* respond(): negotiate a pullover if the alarm is on, else a path; the new
\* negotiation replaces the one observed before.
respond ==
  /\ phase = "active"
  /\ negotiation' = ModeKind(emergency)
  /\ UNCHANGED <<phase, emergency, planJobs, subVars, subState,
                 performingEmergency, outcome, crashed>>

\* The negotiation settles on its plan: approval_cb executes it.
negotiation_approved(p, itin) ==
  /\ negotiation # NoPlan
  /\ negotiation' = NoPlan
  /\ ExecutePlan(negotiation, p, itin)
  /\ UNCHANGED <<phase, emergency, planJobs, performingEmergency, outcome>>

\* The negotiation ends without approving a plan of this robot.
negotiation_rejected ==
  /\ negotiation # NoPlan
  /\ negotiation' = NoPlan
  /\ UNCHANGED <<phase, emergency, planJobs, subVars, subState,
                 performingEmergency, outcome, crashed>>

\* The running subtasks complete: the phase completes unless an emergency
\* is active (then the alarm's end is expected to bring a new plan).
subtasks_completed ==
  /\ subtasks # NoPlan /\ subState = "running"
  /\ subState' = "done"
  /\ outcome' = IF ~emergency /\ outcome = "running" THEN "completed"
                ELSE outcome
  /\ UNCHANGED <<phase, emergency, planJobs, negotiation, subVars,
                 performingEmergency, crashed>>

\* The running subtasks fail (a sub-phase's stream errors): the error is
\* forwarded to the phase's status stream whether or not an emergency is
\* active.
subtasks_failed ==
  /\ subtasks # NoPlan /\ subState = "running"
  /\ subState' = "done"
  /\ outcome' = IF outcome = "running" THEN "error" ELSE outcome
  /\ UNCHANGED <<phase, emergency, planJobs, negotiation, subVars,
                 performingEmergency, crashed>>

Next ==
  \/ \E found \in BOOLEAN : make(found)
  \/ begin
  \/ \E on \in BOOLEAN : emergency_alarm(on)
  \/ \E k \in Kinds : \/ \E p \in Plans : \E i \in Itineraries(p) :
                            plan_found(k, p, i)
                       \/ plan_not_found(k)
  \/ cancel
  \/ respond
  \/ \E p \in Plans : \E i \in Itineraries(p) :
       negotiation_approved(p, i)
  \/ negotiation_rejected
  \/ subtasks_completed
  \/ subtasks_failed

Spec == Init /\ [][Next]_vars

\* The owning task begins its pending phase; a planning job and a
\* negotiation deliver their result to the worker; running subtasks (the
\* robot moving, docking, opening doors) eventually complete or fail.  The alarm,
\* cancel() and respond() come from outside and get no fairness.
Fairness ==
  /\ WF_vars(begin)
  /\ WF_vars(\E k \in Kinds :
               \/ \E p \in Plans : \E i \in Itineraries(p) :
                    plan_found(k, p, i)
               \/ plan_not_found(k))
  /\ WF_vars(\/ \E p \in Plans : \E i \in Itineraries(p) :
                  negotiation_approved(p, i)
             \/ negotiation_rejected)
  /\ WF_vars(subtasks_completed \/ subtasks_failed)

FairSpec == Spec /\ Fairness

-----------------------------------------------------------------------------
(* Properties *)

\* A planning result is always of the kind the alarm currently calls for:
\* switching the alarm re-plans, and the replaced subscription keeps a
\* late result of the old kind from being executed.
PlanResultFollowsAlarm ==
  [][\A k \in Kinds : (\E i \in Itineraries(subPlan') :
                          plan_found(k, subPlan', i)) =>
                       k = ModeKind(emergency)]_vars

\* Whatever plan arrives, the subtasks execute_plan builds take the robot
\* through all of its waypoints in order and stop for each supported lane
\* event with that event's phase (the reference of GoToPlaceSplit).
PhasesFollowPlan ==
  subtasks # NoPlan => FollowsPlan(subPlan, subPhases)

\* The comment at 685-689: an emergency's end triggers a non-emergency
\* replan, whose subtasks complete the phase.  So once the alarm stays off,
\* an active phase eventually finishes: its status stream completes or
\* errors, or its subtasks are cancelled by the owner.
PhaseFinishes ==
  <>[]~emergency =>
    (phase = "active" ~> (outcome # "running" \/ subState = "cancelled"))

CompletesOnlyWithPath ==
  [][outcome' = "completed" /\ outcome # "completed" => subtasks = "path"]_vars

=============================================================================
