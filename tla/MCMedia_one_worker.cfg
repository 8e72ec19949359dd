SPECIFICATION FairSpec
CONSTANTS
  Media = {m1}
  Workers = {w1}
  Copies = {c1, c2}
  Kinds = {k1, k2}
  None = None
  MaxCount = 1
  MaxAttempts = 2
  MaxReceives = 3
INVARIANTS DerivativesStored RequestKept
PROPERTY SettlesOrSetAside
CHECK_DEADLOCK FALSE
