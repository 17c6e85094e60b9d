SPECIFICATION Spec
CONSTANTS
  Code = {c1, c2}
  Request = {r1, r2, r3}
  None = None
  Ops = {"save", "verify", "reset", "resetAuth"}
  MaxAttempts = 2
  MaxVersion = 2
SYMMETRY Symmetric
INVARIANT TypeOK
INVARIANT AcceptedOnce
PROPERTY ReplacesWhatItChecked
CHECK_DEADLOCK FALSE
