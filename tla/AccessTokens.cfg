SPECIFICATION AuthSpec
CONSTANTS
  Token = {t1}
  Request = {r1, r2, r3}
  NoValue = NoValue
  Second = 2
  Life = 2
  MaxTime = 6
  MaxFaults = 2
SYMMETRY Symmetry
INVARIANTS AuthTypeOK LoggedOutIsRefused AcceptedInTime
CHECK_DEADLOCK FALSE
