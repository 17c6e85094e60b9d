SPECIFICATION OrderedFairSpec
CONSTANTS
  a = a
  b = b
  c = c
  r1 = r1
  r2 = r2
  r3 = r3
  User = {a, b, c}
  Request = {r1, r2, r3}
  Named <- NamedPairs
  None = None
  MaxFaults = 1
INVARIANT TypeOK
INVARIANT CountersExact
INVARIANT AnswersAddUp
PROPERTY EveryRequestEnds
CHECK_DEADLOCK FALSE
