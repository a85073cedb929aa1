SPECIFICATION Spec
CONSTANTS
  MaxRequests = 2
  Allowed <- OnlyRestart
  MaxDisturbances = 1
INVARIANTS
  CompletedTogether
CHECK_DEADLOCK FALSE
