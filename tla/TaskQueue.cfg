SPECIFICATION OrderedFairSpec
CONSTANTS
  a = a
  b = b
  w1 = w1
  w2 = w2
  Task = {a, b}
  Name <- CallAndReconcile
  MaxRetries = 1
  Worker = {w1, w2}
  None = None
  MaxFaults = 2
INVARIANT TypeOK
INVARIANT NothingLost
INVARIANT GivenUpLate
INVARIANT OnceUnlessHurt
PROPERTY EveryTaskSettles
CHECK_DEADLOCK FALSE
