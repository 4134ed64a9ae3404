SPECIFICATION FairSpec
CONSTANTS
  MaxConnects = 2
  MaxJobs = 2
  MaxBinds = 2
  MaxFaults = 2
  Exposures <- NoExposure
CHECK_DEADLOCK FALSE
INVARIANTS
  TypeOK
  OneOperation
  NoAbandonedRun
  OneProcessPerBox
  NothingLeaks
  NoFalseBlame
PROPERTIES
  EveryJobEnds
