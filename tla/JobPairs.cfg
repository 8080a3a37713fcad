CONSTANTS
  MaxJobId = 2
  Collectors = {c1, c2}
  StartOutcomes = {"up", "failed", "refused"}
  Clients = {t1}
  Main = main
  Free = free
  RequestIds = {1, 2}
  MaxAdds = 2
  MaxCrashes = 0
SPECIFICATION FairSpec
INVARIANTS
  JobMonitored
CHECK_DEADLOCK FALSE
PROPERTY EndedJobRemoved
