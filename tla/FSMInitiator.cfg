\* The events of an initiator's manager, one crash.
SPECIFICATION FairSpec
CONSTANTS
  Codes <- InitiatorCodes
  ArgValues <- OnlyZero
  MaxPending = 2
  MaxCount = 2
  MaxCrashes = 1
INVARIANTS
  TypeOK
  CleanupOwed
  InitiatorCompletes
PROPERTIES
  TerminatesReleased
  FailureSticks
  
\* A terminated channel does nothing any more.
CHECK_DEADLOCK FALSE
