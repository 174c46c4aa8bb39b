SPECIFICATION MCSpec
CONSTANTS
  NWheels = 1
  OUTTIME = 3
  RX_TIMEOUT = 2
  MaxQueue = 0
  Garbage <- MallocCounts
  Lossy = FALSE
  Bytes = {128}
  Scalars = {255}
  Digital = {0}
PROPERTY WheelSilenceStops
