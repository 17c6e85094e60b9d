SPECIFICATION ViewsFairSpec
CONSTANTS
  Post = {p1}
  User = {u1, u2}
  Flush = {w1, w2}
  MaxFails = 1
  MaxOpens = 2
INVARIANT NotLost
INVARIANT NotInflated
PROPERTY QueuedIsCounted
CHECK_DEADLOCK FALSE
