\* The restart loop under several transport errors, with data in between and
\* the timer for the responder's Complete.
SPECIFICATION FairSpec
CONSTANTS
  Happenings <- DataEvents
  Monitors <- OneMonitor
  MaxConsecutiveRestarts = 1
  AcceptTimeout = FALSE
  CompleteTimeout = TRUE
  MaxNotices = 1
  MaxErrors = 3
  MaxRestarts = 0
  MaxStops = 1
  MaxCrashes = 0
INVARIANTS ClosedOnce RestartsBounded
PROPERTIES ErrorsAreHandled
CHECK_DEADLOCK FALSE
