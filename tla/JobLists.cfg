CONSTANTS
  MaxJobId = 1
  Collectors = {c1, c2}
  StartOutcomes = {"up", "failed", "refused"}
  Clients = {t1, t2}
  Main = main
  Free = free
  RequestIds = {0, 1}
  MaxAdds = 2
  MaxCrashes = 1
SPECIFICATION Spec
INVARIANT
  ListsCleaned
CHECK_DEADLOCK FALSE
