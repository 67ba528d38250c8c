SPECIFICATION MCSpec
CONSTANTS
  Clients = {c1, c2, c3}
  NoClient = NoClient
  Timers = {t1, t2, t3, t4}
  NoTimer = NoTimer
  Day = 4
  LevelWords = {"", "WARNING", "ERROR"}
  MaxLines = 2
  Commands = {"log", "send", "help"}
  Words = {"--filter", "--format", "--command", "json", ""}
  Bytes = {"n", "a", "b"}
  MaxArgs = 4
  MaxAnswer = 5
  MaxLogs = 3
  MaxLogLines = 5
  ClientConfigs <- MCClientConfigs
  ServerConfigs <- MCServerConfigs
  ClientFlags <- MCClientFlags
  ServerFlags <- MCServerFlags
  MaxChars = 2
  Subs = {s1, s2}
  InputCap = 1
  QueueCap = 1
  MaxBufferSize = 1
  MaxData = 2
  Writers = {w1, w2}
  Nobody = Nobody
  TheReader = TheReader
  MaxBytes = 2
  Terms = {p1, p2}
  NoTerm = NoTerm
  MaxTyped = 1
INVARIANTS
  TypeOK
  LeaseRuns
  NoOrphanTimer
  FiltersAreRight
  OptionsAsGiven
  LinesAreTheAnswer
  VerdictsAreRight
  SettingsPrecedence
  OncePerClient
  OwnerWrites
  LinkUnlessShared
PROPERTIES
  NoStrangerEndsLease
  LeaseEnds
  ImplementsWriteLock
  BroadcastArrives
  PortWriteReturns
  ReadEnds
CHECK_DEADLOCK FALSE
