SPECIFICATION Spec
CONSTANTS
  NMem = 2
  NSlots = 2
  NFds = 2
  Threads = {t1, t2}
INVARIANT OneUser
CHECK_DEADLOCK FALSE
