\* Safety of the coordinator: lane-closure fan-out, interrupt registry,
\* action slot.  A null dereference ends the process, so such a state has no
\* successor: deadlock is not an error here.
CONSTANTS
  r1 = r1
  r2 = r2
  x = x
  Robots <- MC_Robots
  Lanes <- MC_Lanes
  InterruptIds <- MC_InterruptIds
  MaxInterrupts = 1
  MaxActions = 1
SYMMETRY MC_Symmetry
SPECIFICATION Spec
INVARIANT TypeOK
INVARIANT ClosuresReachEveryRobot
INVARIANT InterruptsBalanced
CHECK_DEADLOCK FALSE
