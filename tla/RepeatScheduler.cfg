SPECIFICATION FairRepeatSpec
CONSTANTS
  d1 = d1  d2 = d2  n1 = n1  p1 = p1  p2 = p2
  None = None
  Defs = {d1, d2}
  Names = {n1}
  NameOf <- MCNameOf
  Schedulers = {p1, p2}
  Every = 1
  MaxTime = 3
  Fragile = {d1}
  Mortal = {p2}
  Removable = {d2}
INVARIANTS NeverForgotten Spaced DeadNeverRuns
PROPERTIES EveryRepeatRuns
CHECK_DEADLOCK FALSE
