\* newly_closed_lanes against spec 8.6 and 8.7 on every target index, robot
\* location and closed delta of the graph in MC_LaneClosure.  Each call is
\* a single step: the state after it has no successor.
CONSTANTS
  Location <- MC_Location
  Entry <- MC_Entry
  Exit <- MC_Exit
  Approach <- MC_Approach
  Positions <- MC_Positions
SPECIFICATION Spec
INVARIANT TypeOK
INVARIANT ReplanIffPlanBlocked
INVARIANT RepositionedOnceWhenStranded
CHECK_DEADLOCK FALSE
