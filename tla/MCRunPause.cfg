SPECIFICATION FairSpec
CONSTANTS
  Steps = 1
  Delays = {}
  MaxWaitpoints = 2
  MaxSignals = 2
  MaxBackups = 2
  MaxErrors = 1
  MetaFails = FALSE
  Cancels = FALSE
CHECK_DEADLOCK FALSE
INVARIANTS
  OneEngine
PROPERTIES
  RunEnds
  FinishSeen
  ImplementsWriteBehind
