\* The client may end, or have nothing to do.
SPECIFICATION FairSpec
CONSTANTS
  Conns = {u1}
  NoConn = NoConn
  BufferCap = 2
  RecentCap = 1
  MaxChunks = 3
  Choices <- MCChoices
  NotSaid = NotSaid
INVARIANTS
  TypeOK
  NoGap
  StopLeavesNoConnection
  RetryAsConfigured
PROPERTIES
  ShutdownEnds
CHECK_DEADLOCK FALSE
