\* A callback reaches the null handle of a robot whose registration is
\* pending or failed.
CONSTANTS
  r1 = r1
  r2 = r2
  x = x
  Robots <- MC_Robots
  Lanes <- MC_Lanes
  InterruptIds <- MC_InterruptIds
  MaxInterrupts = 1
  MaxActions = 1
SPECIFICATION Spec
INVARIANT NoNullDereference
CHECK_DEADLOCK FALSE
