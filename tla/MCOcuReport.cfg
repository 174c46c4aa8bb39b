SPECIFICATION FairSpec
CONSTANTS
  SEND_TO_OCU_CNT = 2
  JOINT_TIME = 3
  J = 2
  Left = {0, 3}
  MaxFrames = 3
INVARIANT OnTime
PROPERTIES LastFrameAnswered PolledIsAccused
