SPECIFICATION Spec
CONSTANTS
  p1 = p1  c1 = c1  c2 = c2  c3 = c3
  s1 = s1  s2 = s2
  Parents = {p1}
  Children = {c1, c2, c3}
  ParentOf <- MCParentOf
  Slots = {s1, s2}
  None = None
  MaxAttempts = 2
  MaxStalled = 2
  KeepCompleted = TRUE
  KeepFailed = FALSE
  Delayable = {c2}
  Stallable = {c1, p1}
  Removable = {c2, c3, p1}
  RemoveResolved = FALSE
SYMMETRY SlotSymmetry
CHECK_DEADLOCK FALSE
INVARIANTS CounterExact ParentAfterChildren ResultsComplete
