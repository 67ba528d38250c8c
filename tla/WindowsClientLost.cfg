SPECIFICATION FairSpec
CONSTANTS
  Conns = {u1}
  NoConn = NoConn
  BufferCap = 1
  RecentCap = 1
  MaxChunks = 0
  Choices <- MCChoices
  NotSaid = NotSaid
PROPERTIES
  LostConnectionReplaced
CHECK_DEADLOCK FALSE
