SPECIFICATION Spec
CONSTANTS
  Media = {m1}
  Workers = {w1, w2}
  Copies = {c1, c2}
  Kinds = {k1, k2}
  None = None
  MaxCount = 1
  MaxAttempts = 2
  MaxReceives = 2
INVARIANTS TypeOK SingleClaimant OneOutcome MediaMatchesEvidence
PROPERTY ReviewSpec
SYMMETRY Symmetry
CHECK_DEADLOCK FALSE
