SPECIFICATION Spec
CONSTANTS
  A = A  B = B
  Jobs = {1, 2, 3}
  Groups = {A, B}
  GroupOf <- MCGroupOf
  KeepCompleted = 1
  Asks <- MCAsks
  Pages <- MCPages
  Kids = {2}
  Unbounded = 2
  Cap = 3
  Scan = 2
  Limits = {0, 2}
  MaxMoves = 2
  Movers = {1}
  MaxSkips = 1
INVARIANTS TypeOK AnswerWasTrue RestingJobsShown
CHECK_DEADLOCK FALSE
