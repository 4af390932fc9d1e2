SPECIFICATION FairSpec
CONSTANTS
  w = w  x = x
  Jobs = {1, 2, 3}
  Batches = {TRUE, FALSE}
  BatchSize = 2
  Waiters = {w, x}
  WaitFor <- MCWaitFor
  Timed = {x}
  Awaited = {1, 2}
  Forgotten = {2}
  Silent = {2}
  MaxFaults = 1
INVARIANTS AddAnswersTrue NoLostWakeup
PROPERTIES Answered
CHECK_DEADLOCK FALSE
