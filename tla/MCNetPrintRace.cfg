SPECIFICATION Spec
CONSTANTS
  Printers = {p1, p2}
  PRINT_BUF_SIZE = 3
  Batch = 2
  MaxString = 2
  MaxBytes = 4
INVARIANT ZeroMeansInRing
CHECK_DEADLOCK FALSE
