\* Users of both peers, two blocks, a restart, a message that cannot be sent.
\* A transfer with an excuse that no property allows is followed up to its second call.
SPECIFICATION Spec
CONSTANTS
  MaxCalls = 3
  MaxRestarts = 1
  MaxFailures = 1
  MaxData = 2
  Limits <- MCLimits
CONSTRAINT Followed
INVARIANTS TypeOK  
 
\* A transfer that ran out of blocks and calls does nothing any more.
CHECK_DEADLOCK FALSE
