CONSTANTS
  Producers = {p1, p2}
  Callers = {c1, c2}
  MaxSent = 2
SPECIFICATION FairSpec
INVARIANTS
  TypeOK
  ExactlyOnceInOrder
  NoLostWakeup
  BatchStable
  ReturnedMeansDone
PROPERTY
  ImplementsChannel
CHECK_DEADLOCK FALSE
