SPECIFICATION PairedFairSpec
CONSTANTS
  Reader = {r1, r2}
  Writer = {w1, w2}
  Partner = w2
  None = None
INVARIANTS TypeOK StaleIsExcused
PROPERTY EventuallyFresh
