\* A validation update of a channel that terminates meanwhile.
SPECIFICATION Spec
CONSTANTS
  c1 = c1
  c2 = c2
  None = None
  Callers <- OneCaller
  Evt = "DataQueued"
  Sizes <- ThreeBlocks
  Limits <- MoreLimits
  MaxUpdates = 1
  MaxReports = 1
  MaxCrashes = 0
INVARIANTS UpdateReturns
CHECK_DEADLOCK FALSE
