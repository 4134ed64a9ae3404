SPECIFICATION Spec
CONSTANTS
  Steps = 1
  Delays = {}
  MaxWaitpoints = 2
  MaxSignals = 1
  MaxBackups = 1
  MaxErrors = 0
  MetaFails = FALSE
  Cancels = TRUE
CHECK_DEADLOCK FALSE
PROPERTIES
  CanceledStays
