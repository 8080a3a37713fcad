CONSTANTS
  Workers = {w1, w2}
  MaxTimers = 2
  Intervals = {0, 1}
  MaxTime = 2
SPECIFICATION FairSpec
INVARIANTS
  TypeOK
  AtMostOne
  CancelledNeverQueued
  NoTimerLost
  NoIdleWorkerWithWork
  NeverOversleeps
  ShutdownLeavesNothing
PROPERTIES
  NoBurst
  DueRuns
  ShutdownReturns
CHECK_DEADLOCK FALSE
