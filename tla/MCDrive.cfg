SPECIFICATION MCFairSpec
CONSTANTS
  NWheels = 1
  OUTTIME = 2
  RX_TIMEOUT = 1
  MaxQueue = 1
  Garbage <- MallocCounts
  Lossy = FALSE
  Bytes = {0, 80, 111, 144, 145, 255}
  Scalars = {90, 255}
  Digital = {0, 4, 32, 128}
INVARIANTS TypeOK MovingImpliesArmed ErrorOnlyIfOwed Fits32 StopStopsTracks
  NoCounterRotation SteersWithinThrottle
PROPERTIES StopDeadline SilentWheelSeen OcuSilenceStops
