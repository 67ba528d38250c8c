SPECIFICATION FairSpec
CONSTANTS
  c1 = c1
  c2 = c2
  a1 = a1
  a2 = a2
  Clients <- MCClients
  NoClient = NoClient
  IdChoices <- MCIdChoices
  QueueCap = 2
  SockCap = 1
  MaxChunks = 3
PROPERTY
  OthersUnaffected
CHECK_DEADLOCK FALSE
