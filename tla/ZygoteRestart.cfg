SPECIFICATION Spec
CONSTANTS
  Window = 3
  MaxRetryCount = 3
  TangoModes = {TRUE, FALSE}
  MaxTime = 8
  MaxStarts = 6
INVARIANTS
  BoundedRate
  RefusalEndsRun
  BurstSeesFreshDaemon
CHECK_DEADLOCK FALSE
