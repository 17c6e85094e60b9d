SPECIFICATION OrderedFairSpec
CONSTANTS
  r1 = r1
  r2 = r2
  r3 = r3
  r4 = r4
  Request = {r1, r2, r3, r4}
  MaxCalls = 1
  Window = 2
  None = None
  RedisFails = TRUE
  MaxClock = 4
INVARIANT BucketTypeOK
INVARIANT Budget
PROPERTY EveryCheckEnds
CHECK_DEADLOCK FALSE
