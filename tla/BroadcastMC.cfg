\* The server may stop, with everything delivered, or die of a panic.
SPECIFICATION FairSpec
CONSTANTS
  c1 = c1
  c2 = c2
  a1 = a1
  a2 = a2
  Clients <- MCClients
  NoClient = NoClient
  IdChoices <- MCIdChoices
  QueueCap = 2
  SockCap = 1
  MaxChunks = 3
INVARIANTS
  TypeOK
  GaplessStream
PROPERTIES
  ImplementsAtomicBroadcast
  ReadChunkArrives
  ShutdownEndsLoop
CHECK_DEADLOCK FALSE
