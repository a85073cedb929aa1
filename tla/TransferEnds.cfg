SPECIFICATION FairSpec
CONSTANTS
  MaxRequests = 1
  Allowed <- NoRestart
  MaxDisturbances = 1
INVARIANTS
  CompletedTogether
PROPERTIES
  UndisturbedCompletes
  CloseReachesOther
  CleanupIsLast
CHECK_DEADLOCK FALSE
