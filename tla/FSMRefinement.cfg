\* The events of a responder's manager, no crash.
SPECIFICATION FairSpec
CONSTANTS
  Codes <- ResponderCodes
  ArgValues <- OnlyZero
  MaxPending = 2
  MaxCount = 2
  MaxCrashes = 0
PROPERTIES
  Atomic
CHECK_DEADLOCK FALSE
