SPECIFICATION Spec
CONSTANTS
  NMem = 2
  NSlots = 2
  NFds = 2
  Threads = {t1, t2, t3}
SYMMETRY Symmetry
INVARIANTS UniqueId  NoStaleEntry ClientsVisible
\* Failed starts may leak every descriptor: then nothing can be accepted any more.
CHECK_DEADLOCK FALSE
CONSTRAINT OneSpoilt
