-------------------------- MODULE GoToPlaceSplit --------------------------
(***************************************************************************)
(* GoToPlace::Active::execute_plan (MoveRobot.hpp 625-666) with the       *)
(* EventPhaseFactory (547-620): a plan's waypoints are cut after every     *)
(* waypoint that carries a lane event.  Each piece becomes a MoveRobot     *)
(* phase through to the event waypoint, followed by the phase the factory *)
(* makes for the event; what remains after the last event becomes a final *)
(* MoveRobot phase.                                                         *)
(*                                                                         *)
(* A plan is a sequence of the events of its waypoints ("none" for a       *)
(* waypoint without one); a waypoint is named by its position in the plan.*)
(* The module holds only operators: GoToPlace's execute_plan uses them.   *)
(***************************************************************************)
EXTENDS Integers, Sequences, SequencesExt

Events == {"none", "dock", "door_open", "door_close",
           "lift_door_open", "lift_door_close", "lift_move"}

\* The pending phase EventPhaseFactory::execute pushes for each event;
\* LiftDoorClose and LiftMove are "Not supported yet" and push nothing.
PhaseOf == [dock |-> "DockRobot", door_open |-> "DoorOpen",
            door_close |-> "DoorClose", lift_door_open |-> "RequestLift"]

Supported == DOMAIN PhaseOf

\* The factory's phases for the event at waypoint j.
FactoryPhases(e, j) ==
  IF e \in Supported THEN << [kind |-> PhaseOf[e], at |-> j] >> ELSE <<>>

\* A MoveRobot::PendingPhase through waypoints a..b.
Move(a, b) == [kind |-> "MoveRobot", wps |-> [i \in 1..(b - a + 1) |-> a + i - 1]]

\* mutant: the event's phase is pushed before the move that reaches it
RECURSIVE split_event_first(_, _)
split_event_first(plan, k) ==
  IF k > Len(plan) THEN <<>>
  ELSE LET evs == {j \in k..Len(plan) : plan[j] # "none"} IN
       IF evs = {} THEN << Move(k, Len(plan)) >>
       ELSE LET j == CHOOSE j \in evs : \A m \in evs : j <= m IN
            FactoryPhases(plan[j], j) \o << Move(k, j) >>
              \o split_event_first(plan, j + 1)

\* One pass of the while loop over waypoints k..Len(plan): the for loop
\* moves through waypoints up to the first one with an event, pushes that
\* move and the event's phases, and erases through the event waypoint;
\* without an event the rest is one move and the loop ends.
RECURSIVE SplitFrom(_, _)
SplitFrom(plan, k) ==
  IF k > Len(plan) THEN <<>>
  ELSE LET evs == {j \in k..Len(plan) : plan[j] # "none"} IN
       IF evs = {} THEN << Move(k, Len(plan)) >>
       ELSE LET j == CHOOSE j \in evs : \A m \in evs : j <= m IN
            << Move(k, j) >> \o FactoryPhases(plan[j], j)
              \o SplitFrom(plan, j + 1)

\* The sub_phases execute_plan builds for a plan.
SubPhases(plan) == SplitFrom(plan, 1)

\* The kinds of pending phase a split produces.
PhaseKinds == {"MoveRobot"} \cup {PhaseOf[e] : e \in Supported}

-----------------------------------------------------------------------------
(* Reference definitions *)

IsMove(p) == p.kind = "MoveRobot"

\* The waypoints the MoveRobot phases move through, in phase order.
MovedThrough(phases) ==
  LET moves == SelectSeq(phases, IsMove)
  IN  FlattenSeq([q \in 1..Len(moves) |-> moves[q].wps])

\* The sub-phases take the robot through every waypoint of the plan once
\* and in order, in moves that are never empty and that stop exactly at the
\* waypoints with events (and at the end); each supported event's phase
\* comes right after the move that arrives at its waypoint, and an
\* unsupported event gets no phase.
FollowsPlan(plan, phases) ==
  /\ MovedThrough(phases) = [i \in 1..Len(plan) |-> i]
  /\ \A q \in DOMAIN phases : IsMove(phases[q]) =>
       LET w == phases[q].wps IN
       /\ Len(w) > 0
       /\ \A m \in 1..Len(w) - 1 : plan[w[m]] = "none"
       /\ plan[w[Len(w)]] # "none" \/ w[Len(w)] = Len(plan)
  /\ \A q \in DOMAIN phases :
       ~IsMove(phases[q]) =>
         /\ q > 1 /\ IsMove(phases[q - 1])
         /\ Last(phases[q - 1].wps) = phases[q].at
         /\ phases[q].kind = PhaseOf[plan[phases[q].at]]
  /\ \A j \in DOMAIN plan :
       plan[j] \in Supported =>
         \E q \in DOMAIN phases : ~IsMove(phases[q]) /\ phases[q].at = j

=============================================================================
