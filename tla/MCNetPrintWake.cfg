SPECIFICATION FairSpec
CONSTANTS
  Printers = {p1}
  PRINT_BUF_SIZE = 3
  Batch = 2
  MaxString = 3
  MaxBytes = 7
PROPERTY PrintedIsSent
