CONSTANTS
  Pids = {p1,p2}
  Jobs = {j1,j2}
  Rescan = {j1}
  None = none
  RingSize = 2
  MaxEvictions = 1
SPECIFICATION FairSpec
INVARIANTS
  TypeOK
  NothingMissed
PROPERTY
  Converges
CHECK_DEADLOCK FALSE
