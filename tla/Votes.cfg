SPECIFICATION FairSpec
CONSTANTS
  Post = {p1, p2}
  User = {u1, u2}
  Request = {r1, r2, r3}
  None = None
  Drifted = {p2}
  MaxDrift = 1
INVARIANT TypeOK
INVARIANT CountersExact
PROPERTY DriftHeals
CHECK_DEADLOCK FALSE
