\* A store of an older version is migrated, with a crash, and used.
SPECIFICATION FairSpec
CONSTANTS
  c1 = c1
  c2 = c2
  Channels = {c1, c2}
  Nil = Nil
  MaxLength = 4
  OldStores <- MCOldStores
  Inputs <- MCInputs
  MaxEvents = 2
  MaxCrashes = 1
INVARIANTS TypeOK 
PROPERTIES Timeline 
CHECK_DEADLOCK FALSE
