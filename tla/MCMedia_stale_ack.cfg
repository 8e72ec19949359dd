SPECIFICATION Spec
CONSTANTS
  Media = {m1}
  Workers = {w1, w2}
  Copies = {c1}
  Kinds = {k1, k2}
  None = None
  MaxCount = 1
  MaxAttempts = 2
  MaxReceives = 2
INVARIANT RequestKept
CHECK_DEADLOCK FALSE
