SPECIFICATION FairSpec
CONSTANTS
  a = a
  b = b
  c = c
  d = d
  k = k
  NoJob = NoJob
  NoKey = NoKey
  Jobs <- MCThree
  OrderKey <- MCOrderKey
  EnqueuedAt <- MCEnqueuedAt
  MaxRuns <- MCMaxRuns
  Limit = 2
  MaxStaleHeads = 1
  MaxAttempts = 1
  MaxStalledCount = 0
  ParallelStarts = TRUE
  MaxFaults = 1
INVARIANTS
  TypeOK
PROPERTIES
  EveryRunSettles
  ImplementsPool
