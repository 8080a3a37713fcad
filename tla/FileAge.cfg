CONSTANTS
  MaxFiles = 3
  MaxSize = 2
  MaxBatch = 2
  MaxRecords = 8
  MaxRestarts = 0
SPECIFICATION Spec
PROPERTY
  OldestKeptUntilFull
CHECK_DEADLOCK FALSE
