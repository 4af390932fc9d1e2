SPECIFICATION FairSpec
CONSTANTS
  A = A  B = B
  Null = Null
  Jobs = {1, 2, 3}
  GroupOf <- MCGroupOf
  Concurrency = 2
  Strategies = {TRUE, FALSE}
  Torn = {3}
  Orphans = {1}
  MaxAttempts = 2
  MaxStalled = 1
  MaxFaults = 1
INVARIANTS HandsAccounted EveryLockHeld
PROPERTIES Served Drained
CHECK_DEADLOCK FALSE
