CONSTANTS
  MaxTaskId = 3
  PathLens <- MC_PathLens
  DockNames <- MC_DockNames
  BatteryReadings <- MC_BatteryReadings
  ResendAfter = 1
  DockPushAfter = 2
  DockPathLen = 1
  MaxInFlight = 1

SPECIFICATION Spec

INVARIANT TypeOK
INVARIANT ReplanOncePerAdapterError

PROPERTY SentIdsNeverDecrease
PROPERTY ImplementsContract
