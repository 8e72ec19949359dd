SPECIFICATION FairSpec
CONSTANTS
  Events = {e1, e2}
  Handled = {e1}
  Relays = {r1}
  Consumers = {k1}
  None = None
  BatchSize = 2
  MaxCopies = 1
PROPERTY Published
CHECK_DEADLOCK FALSE
