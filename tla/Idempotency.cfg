SPECIFICATION Spec
CONSTANTS
  Key = {k1}
  Payload = {p1, p2}
  Request = {r1, r2, r3, r4}
  None = None
  Faults = {"redis", "late", "slow", "crash"}
SYMMETRY Symmetric
INVARIANT TypeOK
INVARIANT AtMostOnce
INVARIANT ReplayIsGenuine
CHECK_DEADLOCK FALSE
