SPECIFICATION Spec
CONSTANTS
  Configs = {c1, c2}
  Comments = {"blank"}
  Modes = {m1, m2}
  FirstMode = m1
  MaxPuts = 2
  MaxEdits = 1
INVARIANTS
  TypeOK
  RestoredToEtcd
  
PROPERTY
  LockReleased
CHECK_DEADLOCK FALSE
