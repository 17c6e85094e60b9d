SPECIFICATION OrderedFairSpec
CONSTANTS
  t1 = t1
  t2 = t2
  t3 = t3
  t4 = t4
  f1 = f1
  f2 = f2
  u1 = u1
  r1 = r1
  r2 = r2
  r3 = r3
  r4 = r4
  Token = {t1, t2, t3, t4}
  Family = {f1, f2}
  User = {u1}
  Owner <- OneOwner
  Request = {r1, r2, r3, r4}
  NoToken = NoToken
  NoRequest = NoRequest
  Faults = TRUE
INVARIANT TypeOK
INVARIANT OneLivePerFamily
INVARIANT SameSuccessor
INVARIANT FinalUnlessOvertaken
PROPERTY EveryRequestEnds
PROPERTY ChainSpec
CHECK_DEADLOCK FALSE
