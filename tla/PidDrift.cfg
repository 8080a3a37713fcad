CONSTANTS
  Pids = {p1,p2,p3}
  Jobs = {j1}
  Rescan = {}
  None = none
  RingSize = 1
  MaxEvictions = 0
SPECIFICATION FairSpec
PROPERTY DriftCorrected
CHECK_DEADLOCK FALSE
