SPECIFICATION Spec
CONSTANTS
  MaxRequests = 2
  Allowed <- Disturbances
  MaxDisturbances = 2
VIEW View
INVARIANTS
  TypeOK
  AcceptedIsMutual
  OpenRequestIsHeld
CHECK_DEADLOCK FALSE
