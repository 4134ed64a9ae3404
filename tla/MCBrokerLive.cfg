SPECIFICATION FairSpec
CONSTANTS
  Jobs = {j1, j2, j3}
  Conns = {c1, c2}
  None = None
  Concurrency = 1
  Capacity <- MCCapacity
  Suspendable = {j2}
  Unreadable = {j3}
  MaxAttempts = 1
  MaxStalledCount = 0
  TokenBound = 8
  MaxTimeouts = 0
  MaxDisconnects = 1
  MaxLapses = 1
  MaxErrors = 1
  MaxFaults = 1
CHECK_DEADLOCK FALSE
PROPERTIES
  EveryJobSettles
