CONSTANTS
  c1 = c1
  c2 = c2
  c3 = c3
  Calls = {c1, c2, c3}
  Scenarios <- MCScenarios
  Nil = Nil
  MaxRequests = 3
  MaxObjects = 4
SPECIFICATION FairSpec
INVARIANTS TypeOK OneRequest OwnRequest OldIsOver ReleasedAtEnd
PROPERTIES AllReturn OpenReturns
CHECK_DEADLOCK FALSE
