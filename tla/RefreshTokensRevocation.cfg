SPECIFICATION Spec
CONSTANTS
  t1 = t1
  t2 = t2
  t3 = t3
  t4 = t4
  f1 = f1
  f2 = f2
  u1 = u1
  r1 = r1
  r2 = r2
  r3 = r3
  r4 = r4
  Token = {t1, t2, t3}
  Family = {f1}
  User = {u1}
  Owner <- OneOwner
  Request = {r1, r2, r3}
  NoToken = NoToken
  NoRequest = NoRequest
  Faults = FALSE
SYMMETRY Symmetric
INVARIANT RevocationEndsSessions
CHECK_DEADLOCK FALSE
