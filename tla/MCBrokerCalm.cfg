SPECIFICATION Spec
CONSTANTS
  Jobs = {j1, j2}
  Conns = {c1, c2, c3}
  None = None
  Concurrency = 1
  Capacity <- MCInstance
  Suspendable = {j1, j2}
  Unreadable = {}
  MaxAttempts = 2
  MaxStalledCount = 1
  TokenBound = 8
  MaxTimeouts = 1
  MaxDisconnects = 1
  MaxLapses = 0
  MaxErrors = 1
  MaxFaults = 1
CHECK_DEADLOCK FALSE
SYMMETRY MCSymmetry
INVARIANTS
  
  LoopRunsForWaiters
