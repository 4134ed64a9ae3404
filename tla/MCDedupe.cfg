SPECIFICATION FairSpec
CONSTANTS
  MaxAttempts = 4
  MaxSends = 2
  JobAttempts = 2
  MaxStalled = 1
  MaxFaults = 2
  MaxRunFails = 1
  MaxWindows = 1
  MaxEvents = 5
  SlowStarts = FALSE
CHECK_DEADLOCK FALSE
INVARIANTS
  TypeOK
  OneBoundRun
PROPERTIES
  NotSwallowed
