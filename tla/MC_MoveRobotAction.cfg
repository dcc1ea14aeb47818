SPECIFICATION FairSpec
CONSTANTS
  N = 2
  PathIndices <- MC_HandleIndices
  Estimates = {"short", "long"}
  Timeout = 2
  TailPeriod = 1
  NoTail = notail
  notail = notail
  RosSteps = {0, 1, 2}
  MaxUpdates = 3
  MaxReplans = 2
  MaxJobs = 4
INVARIANT TypeOK
PROPERTY WatchdogPatience
PROPERTY StalledMoveRecovers
