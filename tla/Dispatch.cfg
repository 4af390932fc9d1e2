SPECIFICATION Spec
CONSTANTS
  A = A  B = B  C = C
  w1 = w1  s1 = s1
  Jobs = {1, 2, 3, 4}
  Groups = {A, B, C}
  GroupOf <- MCGroupOf
  Blockers = {w1}
  Strategists = {s1}
  Limits = {1, 2}
  Priority <- MCPriority
  ScanLimit = 2
  ListSizes = {2}
  TopPercent = 80
  ScanDepth = 2
  MaxUpsets = 1
  MaxRebuilds = 2
  FewRebuilds = TRUE
INVARIANTS TypeOK IdleGroupReachable RebuildRepairs
CHECK_DEADLOCK FALSE
