\* The server may stop, with every handler gone.
SPECIFICATION FairSpec
CONSTANTS
  c1 = c1
  c2 = c2
  c3 = c3
  a1 = a1
  a2 = a2
  Conns <- MCConns
  NoConn = NoConn
  Ids <- MCIds
  NoId = NoId
  IdOf <- MCIdOf
  Timers = {t1, t2}
  NoTimer = NoTimer
  MaxRetry = 1
  MaxInput = 2
INVARIANTS
  TypeOK
  OwnerHasHandler
  NoGhostClient
  RegisteredUnlessReused
  PortOrder
  LateClientAtMostOne
PROPERTIES
  LockLostByOwner
  DisconnectCleansUp
CHECK_DEADLOCK FALSE
