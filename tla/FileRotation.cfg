CONSTANTS
  MaxFiles = 3
  MaxSize = 2
  MaxBatch = 3
  MaxRecords = 7
  MaxRestarts = 1
SPECIFICATION Spec
INVARIANTS
  TypeOK
  ReadsInOrder
  ConfirmedKept
  SizeLimit
  TargetWhole
CHECK_DEADLOCK FALSE
