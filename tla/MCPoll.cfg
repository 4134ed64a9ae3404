SPECIFICATION FairSpec
CONSTANTS
  MaxJobs = 2
  MaxEvents = 3
  MaxAttempts = 2
  MaxFaults = 2
  StrayCost = 2
  MaxEdits = 1
  Exposures <- NoExposure
INVARIANT TypeOK
INVARIANT NoEventLost
INVARIANT OwnCursor
PROPERTY EveryEventRuns
CHECK_DEADLOCK FALSE
