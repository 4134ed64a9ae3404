SPECIFICATION Spec
CONSTANTS
  Jobs = {j1, j2}
  Conns = {c1, c2}
  None = None
  Concurrency = 1
  Capacity <- MCCapacity
  Suspendable = {}
  Unreadable = {}
  MaxAttempts = 1
  MaxStalledCount = 1
  TokenBound = 8
  MaxTimeouts = 1
  MaxDisconnects = 1
  MaxLapses = 0
  MaxErrors = 1
  MaxFaults = 3
CHECK_DEADLOCK FALSE
SYMMETRY MCSymmetry
INVARIANTS
  TypeOK
  TrackerIndexed
  OneLiveRun
PROPERTIES
  ReclaimsOnlyItsOwn
