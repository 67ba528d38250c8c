\* The process stops when main returns.
CHECK_DEADLOCK FALSE
SPECIFICATION FairSpec
CONSTANTS
  Conns = {k1, k2, k3}
  MaxRetry = 2
INVARIANTS
  TypeOK
  OneConnection
  RetryWithinLimit
PROPERTIES
  BrokenIsReplaced
  ShutdownEnds
