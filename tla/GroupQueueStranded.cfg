SPECIFICATION Spec
CONSTANTS
  a1 = a1  a2 = a2  a3 = a3  b1 = b1  c1 = c1
  A = A  B = B  C = C
  w1 = w1  w2 = w2  w3 = w3
  None = None
  Jobs = {a1, a2, b1}
  Groups = {A, B}
  Slots = {w1, w2}
  GroupOf <- MCGroupOf
  Score <- MCScore
  Limits = {1}
  StartLimit = 1
  MaxAttempts = 2
  WorkerMaxAttempts = 3
  MaxStalled = 2
  KeepCompleted = FALSE
  KeepFailed = FALSE
  Delayable = {}
  Backoffs = {TRUE, FALSE}
  WeakStages = {"running", "exhausted", "recorded"}
  MayPause = FALSE
INVARIANTS IdleGroupIsReady
SYMMETRY SlotSymmetry
CHECK_DEADLOCK FALSE
