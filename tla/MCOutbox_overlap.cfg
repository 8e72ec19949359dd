SPECIFICATION Spec
CONSTANTS
  Events = {e1, e2}
  Handled = {e1}
  Relays = {r1, r2}
  Consumers = {k1, k2}
  None = None
  BatchSize = 2
  MaxCopies = 1
INVARIANT TypeOK
PROPERTIES DeliverySpec OnlyCrashesAbandon
SYMMETRY Symmetry
CHECK_DEADLOCK FALSE
