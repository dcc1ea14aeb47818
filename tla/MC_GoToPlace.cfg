SPECIFICATION FairSpec
CONSTANTS
  PlanEvents <- MC_PlanEvents
  MaxLen = 3
INVARIANT TypeOK
INVARIANT PhasesFollowPlan
PROPERTY PlanResultFollowsAlarm
PROPERTY PhaseFinishes
CHECK_DEADLOCK FALSE
