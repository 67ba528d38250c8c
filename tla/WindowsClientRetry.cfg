SPECIFICATION Spec
CONSTANTS
  Conns = {u1}
  NoConn = NoConn
  BufferCap = 1
  RecentCap = 1
  MaxChunks = 0
  Choices <- MCShipped
  NotSaid = NotSaid
INVARIANTS
  UnlimitedIsNone
CHECK_DEADLOCK FALSE
