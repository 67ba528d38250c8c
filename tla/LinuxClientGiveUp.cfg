CHECK_DEADLOCK FALSE
SPECIFICATION Spec
CONSTANTS
  Conns = {k1, k2}
  MaxRetry = 2
PROPERTIES
  GivesUpAtLimit
