SPECIFICATION Spec
CONSTANTS
  Steps = 1
  Delays = {1}
  MaxWaitpoints = 2
  MaxSignals = 1
  MaxBackups = 1
  MaxErrors = 2
  MetaFails = TRUE
  Cancels = TRUE
CHECK_DEADLOCK FALSE
INVARIANTS
  TypeOK
  NoUpdateLost
