\* A robot first reported off the graph is never registered.
CONSTANTS
  r1 = r1
  r2 = r2
  x = x
  Robots <- MC_Robots
  Lanes <- MC_Lanes
  InterruptIds <- MC_InterruptIds
  MaxInterrupts = 1
  MaxActions = 1
SPECIFICATION FairSpec
PROPERTY RegisteredWhenLocatable
CHECK_DEADLOCK FALSE
