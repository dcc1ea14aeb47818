SPECIFICATION Spec
CONSTANTS
  PlanEvents <- MC_PlanEvents
  MaxLen = 3
PROPERTY CompletesOnlyWithPath
CHECK_DEADLOCK FALSE
