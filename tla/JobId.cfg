SPECIFICATION Spec
CONSTANTS
  i1 = i1  i2 = i2
  s1 = s1  s2 = s2
  Ids = {i1, i2}
  Slots = {s1, s2}
  None = None
  MaxJobs = 3
INVARIANTS TypeOK NoneLost NoneReturns KeysHaveJobs
CHECK_DEADLOCK FALSE
