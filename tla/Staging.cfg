SPECIFICATION FairSpec
CONSTANTS
  p1 = p1  p2 = p2
  Jobs = {1, 2}
  Promoters = {p1, p2}
  Calls = {p1, p2}
  CallerOf <- MCCallerOf
  Orders = {0, 1}
  Delay = 2
  Latency = 1
  Skew = 1
  Ttl = 1
  Limit = 2
  SeqBase = 4
  MaxTime = 3
  MaxAdds = 2
  MaxUpsets = 1
INVARIANTS TypeOK ServedInOrder
PROPERTIES Promoted
CHECK_DEADLOCK FALSE
