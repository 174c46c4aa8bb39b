SPECIFICATION MCSpec
CONSTANTS
  MEMSIZE = 5
  MaxLen = 4
  MaxBytes = 14
  Printers = {p1, p2}
  PRINT_BUF_SIZE = 3
  Batch = 1
  MaxString = 2
  MaxPrinted = 5
INVARIANTS TypeOK InOrder Accounted
PROPERTIES FifoSpec Drained PrintFifo WokenSendsAll
\* After an overlap the printers finish their strings and the behaviour ends.
CHECK_DEADLOCK FALSE
