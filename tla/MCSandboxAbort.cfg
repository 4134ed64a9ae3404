SPECIFICATION Spec
CONSTANTS
  MaxConnects = 2
  MaxJobs = 2
  MaxBinds = 2
  MaxFaults = 1
  Exposures <- AbortWhilePreparing
CHECK_DEADLOCK FALSE
INVARIANTS
  NoAbandonedRun
