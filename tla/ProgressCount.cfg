\* Two goroutines that report the blocks of one channel.
SPECIFICATION Spec
CONSTANTS
  c1 = c1
  c2 = c2
  None = None
  Callers <- TwoCallers
  Evt = "DataQueued"
  Sizes <- TwoBlocks
  Limits <- SomeLimits
  MaxUpdates = 1
  MaxReports = 2
  MaxCrashes = 1
SYMMETRY CallerSymmetry
INVARIANTS TypeOK CountedOnce ProgressAgrees PausesAtLimit
CHECK_DEADLOCK FALSE
