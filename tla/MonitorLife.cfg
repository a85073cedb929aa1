\* The end of the channel, and restarts by the monitor and by others: which
\* monitor lives.
SPECIFICATION FairSpec
CONSTANTS
  Happenings <- LifeEvents
  Monitors <- TwoMonitors
  MaxConsecutiveRestarts = 1
  AcceptTimeout = TRUE
  CompleteTimeout = FALSE
  MaxNotices = 1
  MaxErrors = 1
  MaxRestarts = 1
  MaxStops = 0
  MaxCrashes = 1
INVARIANTS TypeOK LiveIsTracked
PROPERTIES MonitorStops AcceptTimerRight
CHECK_DEADLOCK FALSE
