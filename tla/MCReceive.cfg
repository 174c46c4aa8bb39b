SPECIFICATION MCSpec
CONSTANTS
  SOH0 = 10
  SOH1 = 18
  Length = 8
  Payload = {0, 10, 18}
  MaxByte = 18
  MaxMissed = 4
  DevPorts = {"head", "motion", "gas"}
  MaxIndex = 24
  MaxRefused = 5
  MEMSIZE = 5
  MaxLen = 4
  MaxBytes = 14
  MaxClients = 2
INVARIANTS ReplayOnlyBehind EveryFrameAccepted Resynchronises EveryBoardFrameAccepted DevResynchronises InsideFrame
PROPERTY NoneSkipped
