CONSTANTS
  MaxJobId = 2
  Collectors = {c1}
  StartOutcomes = {"up", "failed", "refused"}
  Clients = {t1, t2}
  Main = main
  Free = free
  RequestIds = {0, 1}
  MaxAdds = 2
  MaxCrashes = 1
SPECIFICATION Spec
INVARIANTS
  TypeOK
  TimerMatchesRunning
  JobMonitored
  RecordsMatchJobs
CHECK_DEADLOCK FALSE
