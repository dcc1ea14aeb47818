---------------------------- MODULE LaneClosure ----------------------------
(***************************************************************************)
(* FleetDriverRobotCommandHandle::newly_closed_lanes (part_000:541-623):   *)
(* given the lanes a LaneRequest newly closed, decide whether the robot is *)
(* stranded on a closed lane (and tell the updater where it is), and       *)
(* whether its current plan is invalidated (and ask for a replan).         *)
(*                                                                         *)
(* The graph is a constant: waypoint locations on an integer grid and      *)
(* directed lanes.  A plan is the sequence of approach-lane sets of its    *)
(* waypoints (plan index 0 first).  One call is one step: Init picks the   *)
(* handle's target_plan_index, the last known location and the closed     *)
(* delta; handle_lane_closure runs the algorithm and records what it did   *)
(* to the updater.  The properties compare that with definitions taken     *)
(* from the specification (section 4.2.4 and properties 6 and 7).          *)
(***************************************************************************)
EXTENDS Integers, FiniteSets

CONSTANTS
  Location,     \* Location[w]: <<x, y>> of graph waypoint w
  Entry,        \* Entry[l]: entry waypoint of lane l
  Exit,         \* Exit[l]: exit waypoint of lane l
  Approach,     \* Approach[i]: approach_lanes() of plan waypoint i
  Positions     \* robot locations <<x, y>> to try

Lanes == DOMAIN Entry
PlanSize == Cardinality(DOMAIN Approach)
NoIndex == -1
NoLane == -1

ASSUME DOMAIN Approach = 0..PlanSize - 1
ASSUME \A i \in DOMAIN Approach : Approach[i] \subseteq Lanes

-----------------------------------------------------------------------------
(* Vector arithmetic on grid points (Eigen::Vector2d) *)

Minus(a, b) == <<a[1] - b[1], a[2] - b[2]>>
Dot(a, b) == a[1] * b[1] + a[2] * b[2]

\* The direction p1 - p0 of lane l.
Dir(l) == Minus(Location[Exit[l]], Location[Entry[l]])

\* (p - p0) . (p1 - p0) < 0: the robot projects before the lane's entry.
BeforeLane(p, l) == Dot(Minus(p, Location[Entry[l]]), Dir(l)) < 0

\* (p - p1) . (p1 - p0) >= 0: the robot projects at or past the lane's exit.
AfterLane(p, l) == Dot(Minus(p, Location[Exit[l]]), Dir(l)) >= 0

\* mutant: a robot exactly at the exit still counts as on the lane
on_lane_inclusive(p, l) ==
  /\ ~BeforeLane(p, l)
  /\ ~(Dot(Minus(p, Location[Exit[l]]), Dir(l)) > 0)

\* The robot is on lane l: neither before nor after it.
OnLane(p, l) == ~BeforeLane(p, l) /\ ~AfterLane(p, l)

\* Graph::lane_from(from, to): the lane from one waypoint to another.
lane_from(from, to) ==
  IF \E l \in Lanes : Entry[l] = from /\ Exit[l] = to
    THEN CHOOSE l \in Lanes : Entry[l] = from /\ Exit[l] = to
    ELSE NoLane

\* mutant: the reverse lane is used without checking that it exists
reposition_unchecked(l) ==
  [lane |-> l, on |-> "lane", index |-> lane_from(Exit[l], Entry[l])]

\* The updater->update_position call for a robot stranded on closed lane l:
\* on the reverse lane if the graph has one, else anchored at l's entry.
Reposition(l) ==
  LET rev == lane_from(Exit[l], Entry[l]) IN
    IF rev # NoLane THEN [lane |-> l, on |-> "lane", index |-> rev]
                    ELSE [lane |-> l, on |-> "waypoint", index |-> Entry[l]]

-----------------------------------------------------------------------------
(* The two loops of newly_closed_lanes *)

\* First loop: the closed approach lanes of the target waypoint, each one a
\* reason to replan, and a reposition for each the robot is on.
ClosedApproach(t, closed) == Approach[t] \cap closed

Repositions(t, p, closed) ==
  {Reposition(l) : l \in {l \in ClosedApproach(t, closed) : OnLane(p, l)}}

\* mutant: the scan stops one waypoint short of the end of the plan
RECURSIVE scan_short(_, _)
scan_short(i, closed) ==
  IF i >= PlanSize - 1 THEN FALSE
  ELSE IF Approach[i] \cap closed # {} THEN TRUE
  ELSE scan_short(i + 1, closed)

\* Second loop: from the target onwards, the first waypoint with a closed
\* approach lane ends the scan.
RECURSIVE ScanRemaining(_, _)
ScanRemaining(i, closed) ==
  IF i >= PlanSize THEN FALSE
  ELSE IF Approach[i] \cap closed # {} THEN TRUE
  ELSE ScanRemaining(i + 1, closed)

\* need_to_replan after both loops; the second runs only if the first did
\* not already decide.
NeedToReplan(t, closed) ==
  /\ t # NoIndex
  /\ IF ClosedApproach(t, closed) # {} THEN TRUE ELSE ScanRemaining(t, closed)

-----------------------------------------------------------------------------

VARIABLES
  target,       \* _travel_info.target_plan_index
  location,     \* _last_known_state->location
  closedLanes,  \* the newly closed lanes passed in
  called,       \* newly_closed_lanes has run
  replanned,    \* it called updater->replan()
  repositions   \* its updater->update_position calls

vars == <<target, location, closedLanes, called, replanned, repositions>>

TypeOK ==
  /\ target \in {NoIndex} \cup DOMAIN Approach
  /\ location \in Positions
  /\ closedLanes \subseteq Lanes
  /\ called \in BOOLEAN /\ replanned \in BOOLEAN
  /\ repositions \subseteq
       [lane : Lanes, on : {"lane"}, index : Lanes] \cup
       [lane : Lanes, on : {"waypoint"}, index : DOMAIN Location]

Init ==
  /\ target \in {NoIndex} \cup DOMAIN Approach
  /\ location \in Positions
  /\ closedLanes \in SUBSET Lanes
  /\ called = FALSE /\ replanned = FALSE /\ repositions = {}

\* newly_closed_lanes(closedLanes) on a handle in this state.
handle_lane_closure ==
  /\ ~called
  /\ called' = TRUE
  /\ repositions' = IF target = NoIndex THEN {}
                    ELSE Repositions(target, location, closedLanes)
  /\ replanned' = NeedToReplan(target, closedLanes)
  /\ UNCHANGED <<target, location, closedLanes>>

Next == handle_lane_closure

Spec == Init /\ [][Next]_vars

-----------------------------------------------------------------------------
(* Reference definitions from the specification and properties *)

\* Spec 8.6: some approach lane of a waypoint from target_plan_index onward
\* is closed.
PlanBlocked(t, closed) ==
  t # NoIndex /\ \E i \in t..PlanSize - 1 : Approach[i] \cap closed # {}

\* Spec 4.2.4: the robot projects strictly between the endpoints of lane l.
StrictlyInside(p, l) ==
  0 < Dot(Minus(p, Location[Entry[l]]), Dir(l)) /\
  Dot(Minus(p, Location[Entry[l]]), Dir(l)) < Dot(Dir(l), Dir(l))

\* Lane-closure soundness (spec 8.6): newly_closed_lanes asks for a replan
\* exactly when the rest of the plan uses a newly closed lane, whichever of
\* its two loops finds it.
ReplanIffPlanBlocked ==
  called => (replanned <=> PlanBlocked(target, closedLanes))

\* Reverse-lane recovery (spec 8.7): a robot strictly inside a closed
\* approach lane of its target is repositioned, and one call never makes
\* more than one update_position (one of reverse lane or entry anchor).
RepositionedOnceWhenStranded ==
  called =>
    /\ Cardinality(repositions) <= 1
    /\ (/\ target # NoIndex
        /\ \E l \in ClosedApproach(target, closedLanes) :
              StrictlyInside(location, l))
         => Cardinality(repositions) = 1

=============================================================================
