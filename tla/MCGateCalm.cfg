SPECIFICATION Spec
CONSTANTS
  a = a
  b = b
  c = c
  d = d
  k = k
  NoJob = NoJob
  NoKey = NoKey
  Jobs <- MCFour
  OrderKey <- MCOrderKey
  EnqueuedAt <- MCEnqueuedAt
  MaxRuns <- MCSomeLimited
  Limit = 2
  MaxStaleHeads = 2
  MaxAttempts = 1
  MaxStalledCount = 0
  ParallelStarts = FALSE
  MaxFaults = 0
INVARIANTS
  SlotsBounded
  RunsBounded
  OneRunPerKey
PROPERTIES
  ArrivalOrder
