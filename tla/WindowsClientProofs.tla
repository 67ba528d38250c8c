------------------------- MODULE WindowsClientProofs -------------------------
(***************************************************************************)
(* Proofs for the Windows client, from the lemmas about the proxy's steps. *)
(***************************************************************************)
EXTENDS WindowsClient, LocalProxyProofs

------------------------------------------------------------------------------
(* The settings. *)

\* The limit that counts: a 0 in the file becomes 10.
TheLimit == IF AskedLimit = 0 THEN 10 ELSE AskedLimit

\* It is what LoadClient and the flags make of the two limits.
LEMMA LimitIsAsked ==
  ASSUME choice \in [file : Int \cup {NotSaid}, flag : Int]
  PROVE  maxRetry = TheLimit
<1> DEFINE n == choice.file
           said == IF n = NotSaid THEN <<>> ELSE [maxRetry |-> n]
           cfg == Unmarshal(said, ZeroClient)
           files == FileSaying(n)
           flags == [server |-> <<>>, pty |-> "", maxRetry |-> choice.flag, interval |-> 0]
           loaded == ApplyClientDefaults(cfg)
<1>1. /\ n \in Int \/ n = NotSaid
      /\ choice.flag \in Int /\ NotSaid \notin Int
  BY ChoiceAssumption
<1>2. Readable(files) = {1} /\ files[1].parsed = TRUE /\ files[1].cfg = said
  BY DEF Readable, FileSaying
<1>3. First({1}) = 1
  BY DEF First
<1>4. LoadClient(files) = [ok |-> TRUE, cfg |-> loaded]
  BY <1>2, <1>3 DEF LoadClient
<1>5. ZeroClient["maxRetry"] = 0 /\ DefaultClientConfig["maxRetry"] = 10 /\ "maxRetry" \in DOMAIN ZeroClient
  BY DEF ZeroClient, DefaultClientConfig
<1>6. /\ "maxRetry" \in DOMAIN cfg
      /\ cfg["maxRetry"] = IF n = NotSaid THEN 0 ELSE n
  <2>1. n = NotSaid => DOMAIN said = {}
    OBVIOUS
  <2>2. n # NotSaid => DOMAIN said = {"maxRetry"} /\ said["maxRetry"] = n
    OBVIOUS
  <2> QED BY <1>5, <2>1, <2>2 DEF Unmarshal
<1> HIDE DEF cfg
<1>7. /\ "maxRetry" \in DOMAIN loaded
      /\ loaded["maxRetry"] = IF n = NotSaid \/ n = 0 THEN 10 ELSE n
  BY <1>1, <1>5, <1>6 DEF ApplyClientDefaults
<1> HIDE DEF loaded, files
<1>8. Settings = ClientSettings(files, flags)
  BY DEF Settings, files
<1>9. ClientSettings(files, flags)["maxRetry"] =
        IF choice.flag = 0 THEN loaded["maxRetry"] ELSE choice.flag
  BY <1>4, <1>7 DEF ClientSettings
<1> QED BY <1>1, <1>7, <1>8, <1>9 DEF maxRetry, AskedLimit, TheLimit

------------------------------------------------------------------------------
(* The invariant. *)

\* Before the proxy is started its loops are not, and nobody but reconnectLoop dials:
\* one connection is all there ever is.
Connected == /\ main = "start" => (conn = 0 /\ retrier = "off" /\ ~cmRunning /\ ~cmStop)
             /\ main \in {"start", "wait", "sleep", "proxy"} => (acceptor = "off" /\ reader = "off")
             /\ main \notin {"done", "fatal"} => (conn = dialled /\ dialled <= 1)
             /\ main \in {"proxy", "run", "stop", "stopManager"} => (conn # 0 /\ retrier # "connect")
             /\ retrier = "connect" => conn = 0
             /\ main = "done" => (~cmRunning /\ retrier # "connect" /\ 1 .. dialled \subseteq closed)

\* The loop's count is the number of dials that failed, one ahead during a dial.
Counted == /\ cmStop => ~cmRunning
           /\ TheLimit > 0 =>
                /\ retrier \in {"off", "select", "check"} => retryCount = failed
                /\ retrier = "connect" => (retryCount = failed + 1 /\ retryCount <= TheLimit)
                /\ failed <= TheLimit
           /\ (retrier = "done" /\ cmRunning) => (TheLimit > 0 /\ failed = TheLimit)

CInv == TypeOK /\ PInv /\ Connected /\ Counted

\* The client at its start.
LEMMA CInvInit == Init => CInv
<1> SUFFICES ASSUME Init PROVE CInv
  OBVIOUS
<1>1. PInv
  BY PInvInit DEF Init
<1>2. choice \in [file : Int \cup {NotSaid}, flag : Int]
  BY ChoiceAssumption DEF Init
<1>3. cmRunning \in BOOLEAN /\ cmStop \in BOOLEAN
  BY DEF Init
<1>4. TypeOK
  BY <1>1, <1>2, <1>3 DEF TypeOK, PInv, Init
<1>5. Connected
  BY DEF Connected, Init, ProxyInit
<1>6. TheLimit \in Int
  BY <1>2 DEF TheLimit, AskedLimit
<1>7. Counted
  BY <1>6 DEF Counted, Init
<1> QED BY <1>1, <1>4, <1>5, <1>7 DEF CInv

\* The proxy's goroutines: they start nothing.
LEMMA ProxyStepKeeps ==
  ASSUME CInv, ProxyStep
  PROVE  CInv'
<1> USE DEF ProxyStep, managerVars, monitorVars
<1>1. PInv'
  BY ProxyNextKeeps DEF CInv
<1>2. TypeOK'
  BY <1>1 DEF CInv, TypeOK, PInv
<1>3. acceptor = "off" /\ reader = "off" => acceptor' = "off" /\ reader' = "off"
  BY DEF ProxyNext, AcceptLoop, ReadLoop, Handle, AcceptFails, Register, TakeBuffer, SendBuffer,
         ReaderGet, RemoteReadFails, Publish, RemoteRead, Accept, HandlerSelect,
         HandlerReadFails, HandlerWrite, HandlerReturns, HandlerRead, UserCloses, WriterWrites,
         handlerFrame, acceptVars, readVars
<1>4. closed' = closed
  BY DEF ProxyNext, AcceptLoop, ReadLoop, Handle, AcceptFails, Register, TakeBuffer, SendBuffer,
         ReaderGet, RemoteReadFails, Publish, RemoteRead, Accept, HandlerSelect,
         HandlerReadFails, HandlerWrite, HandlerReturns, HandlerRead, UserCloses, WriterWrites,
         handlerFrame, acceptVars, readVars
<1>5. Connected' /\ Counted'
  BY <1>3, <1>4 DEF CInv, Connected, Counted, TheLimit, AskedLimit
<1> QED BY <1>1, <1>2, <1>5 DEF CInv

\* A step that leaves the proxy alone.
LEMMA ProxyUntouched ==
  ASSUME PInv, UNCHANGED proxyVars
  PROVE  PInv' /\ UNCHANGED <<acceptor, reader, closed>>
<1>1. UNCHANGED <<running, stopChan, remoteConn, localConns, remoteBuffer, mu, acceptVars,
                  handler, readVars, writers, user, got, closed, lost>>
  BY DEF proxyVars
<1>2. remoteConn' \in Nat /\ closed' \subseteq Nat /\ lost' \subseteq Nat
  BY <1>1 DEF PInv, ProxyTypeOK
<1> QED BY <1>1, <1>2, RemoteChangeKeeps DEF acceptVars, readVars

\* The steps of reconnectLoop.
LEMMA RetrierKeeps ==
  ASSUME CInv, Retrier
  PROVE  CInv'
<1> USE DEF monitorVars
<1>1. UNCHANGED proxyVars /\ UNCHANGED <<choice, main, cmRunning, cmStop, monitor, lastConn>>
  BY DEF Retrier, RetrierSelect, RetrierCheck, RetrierConnect
<1>2. PInv' /\ UNCHANGED <<acceptor, reader, closed>>
  BY <1>1, ProxyUntouched DEF CInv
<1>3. TypeOK /\ TheLimit \in Int /\ TheLimit' = TheLimit /\ maxRetry = TheLimit
  BY <1>1, LimitIsAsked DEF CInv, TypeOK, AskedLimit, TheLimit
<1>4. CASE RetrierSelect
  <2>1. TypeOK'
    BY <1>2, <1>3, <1>4 DEF RetrierSelect, TypeOK, PInv
  <2>2. Connected'
    BY <1>2, <1>3, <1>4 DEF RetrierSelect, CInv, Connected, TypeOK
  <2>3. Counted'
    BY <1>3, <1>4 DEF RetrierSelect, CInv, Counted, TypeOK
  <2> QED BY <1>2, <2>1, <2>2, <2>3 DEF CInv
<1>5. CASE RetrierCheck
  <2>1. TypeOK'
    BY <1>2, <1>3, <1>5 DEF RetrierCheck, TypeOK, PInv
  <2>2. Connected'
    BY <1>2, <1>3, <1>5 DEF RetrierCheck, CInv, Connected, TypeOK
  <2>3. Counted'
    BY <1>3, <1>5 DEF RetrierCheck, CInv, Counted, TypeOK
  <2> QED BY <1>2, <2>1, <2>2, <2>3 DEF CInv
<1>6. CASE RetrierConnect
  <2>1. TypeOK'
    BY <1>2, <1>3, <1>6 DEF RetrierConnect, Dial, TypeOK, PInv
  <2>2. Connected'
    BY <1>2, <1>3, <1>6 DEF RetrierConnect, Dial, CInv, Connected, TypeOK
  <2>3. Counted'
    BY <1>3, <1>6 DEF RetrierConnect, Dial, CInv, Counted, TypeOK
  <2> QED BY <1>2, <2>1, <2>2, <2>3 DEF CInv
<1> QED BY <1>4, <1>5, <1>6 DEF Retrier

\* What monitorLoop does to the proxy is to give it a connection.
LEMMA MonitorKeeps ==
  ASSUME CInv, Monitor
  PROVE  CInv'
<1> USE DEF managerVars
<1>1. UNCHANGED <<choice, main, conn, cmRunning, cmStop, retrier, retryCount, failed, dialled>>
  BY DEF Monitor, MonitorStart, MonitorCheck, MonitorCompare
<1>2. TypeOK /\ PInv
  BY DEF CInv
<1>3. PInv' /\ UNCHANGED <<acceptor, reader>> /\ closed \subseteq closed'
  <2>1. CASE MonitorStart \/ MonitorCheck
    BY <1>2, <2>1, ProxyUntouched DEF MonitorStart, MonitorCheck
  <2>2. CASE MonitorCompare
    <3>1. remoteConn' \in Nat /\ closed' \subseteq Nat /\ lost' \subseteq Nat
      BY <1>2, <2>2 DEF MonitorCompare, TypeOK, ProxyTypeOK
    <3>2. closed \subseteq closed'
      BY <2>2 DEF MonitorCompare
    <3> QED BY <1>2, <2>2, <3>1, <3>2, RemoteChangeKeeps DEF MonitorCompare, acceptVars, readVars
  <2> QED BY <2>1, <2>2 DEF Monitor
<1>4. TypeOK'
  <2>1. monitor' \in {"off", "start", "check", "compare", "done"} /\ lastConn' \in Nat
    BY <1>2 DEF Monitor, MonitorStart, MonitorCheck, MonitorCompare, TypeOK
  <2> QED BY <1>1, <1>2, <1>3, <2>1 DEF TypeOK, PInv
<1>5. Connected' /\ Counted'
  BY <1>1, <1>3 DEF CInv, Connected, Counted, TheLimit, AskedLimit
<1> QED BY <1>3, <1>4, <1>5 DEF CInv

\* The steps of main, with Start and Stop, and the signal.
LEMMA MainKeeps ==
  ASSUME CInv, Main \/ Signal
  PROVE  CInv'
<1> USE DEF managerVars, monitorVars
<1>1. TypeOK /\ PInv /\ TheLimit \in Int
  BY DEF CInv, TypeOK, AskedLimit, TheLimit
<1>2. TheLimit' = TheLimit
  BY DEF Main, Signal, ManagerStart, WaitLooks, WaitSleeps, StartProxy, StartProxyFails,
         StopProxy, StopManager, ManagerStop, TheLimit, AskedLimit
<1>3. CASE ManagerStart
  <2>1. PInv' /\ UNCHANGED <<acceptor, reader, closed>>
    BY <1>1, <1>3, ProxyUntouched DEF ManagerStart
  <2>2. TypeOK'
    BY <1>1, <1>3, <2>1 DEF ManagerStart, Dial, TypeOK, PInv
  <2>3. Connected'
    BY <1>1, <1>3, <2>1 DEF ManagerStart, Dial, CInv, Connected, TypeOK
  <2>4. Counted'
    BY <1>1, <1>2, <1>3 DEF ManagerStart, CInv, Connected, Counted, TypeOK
  <2> QED BY <2>1, <2>2, <2>3, <2>4 DEF CInv
<1>4. CASE WaitLooks \/ WaitSleeps \/ Signal
  <2>1. PInv' /\ UNCHANGED <<acceptor, reader, closed>>
    BY <1>1, <1>4, ProxyUntouched DEF WaitLooks, WaitSleeps, Signal
  <2>2. TypeOK'
    BY <1>1, <1>4, <2>1 DEF WaitLooks, WaitSleeps, Signal, TypeOK, PInv
  <2>3. Connected' /\ Counted'
    BY <1>1, <1>2, <1>4, <2>1 DEF WaitLooks, WaitSleeps, Signal, CInv, Connected, Counted
  <2> QED BY <2>1, <2>2, <2>3 DEF CInv
<1>5. CASE StartProxy
  <2>1. PInv' /\ closed' = closed
    BY <1>1, <1>5, ProxyStartKeeps DEF StartProxy, ProxyStart, CInv, Connected, TypeOK
  <2>2. TypeOK'
    BY <1>1, <1>5, <2>1 DEF StartProxy, TypeOK, PInv
  <2>3. Connected' /\ Counted'
    BY <1>1, <1>2, <1>5, <2>1 DEF StartProxy, CInv, Connected, Counted
  <2> QED BY <2>1, <2>2, <2>3 DEF CInv
<1>6. CASE StartProxyFails
  <2>1. remoteConn' \in Nat /\ closed' \subseteq Nat /\ lost' \subseteq Nat
    BY <1>1, <1>6 DEF StartProxyFails, TypeOK, ProxyTypeOK
  <2>2. PInv'
    BY <1>1, <1>6, <2>1, RemoteChangeKeeps DEF StartProxyFails
  <2>3. TypeOK'
    BY <1>1, <1>6, <2>2 DEF StartProxyFails, ManagerStop, TypeOK, PInv
  <2>4. Connected' /\ Counted'
    BY <1>1, <1>2, <1>6 DEF StartProxyFails, ManagerStop, CInv, Connected, Counted
  <2> QED BY <2>2, <2>3, <2>4 DEF CInv
<1>7. CASE StopProxy
  <2>1. PInv'
    BY <1>1, <1>7, ProxyStopKeeps DEF StopProxy
  <2>2. TypeOK'
    BY <1>1, <1>7, <2>1 DEF StopProxy, TypeOK, PInv
  <2>3. Connected' /\ Counted'
    BY <1>1, <1>2, <1>7 DEF StopProxy, CInv, Connected, Counted
  <2> QED BY <2>1, <2>2, <2>3 DEF CInv
<1>8. CASE StopManager
  <2>1. remoteConn' \in Nat /\ closed' \subseteq Nat /\ lost' \subseteq Nat
    BY <1>1, <1>8 DEF StopManager, TypeOK, ProxyTypeOK
  <2>2. PInv'
    BY <1>1, <1>8, <2>1, RemoteChangeKeeps DEF StopManager
  <2>3. TypeOK'
    BY <1>1, <1>8, <2>2 DEF StopManager, ManagerStop, TypeOK, PInv
  <2>4. 1 .. dialled' \subseteq closed'
    BY <1>1, <1>8 DEF StopManager, ManagerStop, CInv, Connected, TypeOK
  <2>5. Connected' /\ Counted'
    BY <1>1, <1>2, <1>8, <2>4 DEF StopManager, ManagerStop, CInv, Connected, Counted
  <2> QED BY <2>2, <2>3, <2>5 DEF CInv
<1> QED BY <1>3, <1>4, <1>5, <1>6, <1>7, <1>8 DEF Main

\* A connection that ends from outside changes nothing the client has.
LEMMA ServerLosesKeeps ==
  ASSUME CInv, NEW k \in 1 .. dialled, ServerLoses(k)
  PROVE  CInv'
<1> USE DEF managerVars, monitorVars
<1>1. TypeOK /\ PInv
  BY DEF CInv
<1>2. remoteConn' \in Nat /\ closed' \subseteq Nat /\ lost' \subseteq Nat
  BY <1>1 DEF ServerLoses, TypeOK, ProxyTypeOK
<1>3. PInv'
  BY <1>1, <1>2, RemoteChangeKeeps DEF ServerLoses
<1>4. TypeOK'
  BY <1>1, <1>3 DEF ServerLoses, TypeOK, PInv
<1>5. Connected' /\ Counted'
  BY DEF ServerLoses, acceptVars, readVars, CInv, Connected, Counted, TheLimit, AskedLimit
<1> QED BY <1>3, <1>4, <1>5 DEF CInv

\* Nothing happens.
LEMMA CInvStutters ==
  ASSUME CInv, UNCHANGED vars
  PROVE  CInv'
<1> USE DEF vars, managerVars, monitorVars
<1>1. PInv' /\ UNCHANGED <<acceptor, reader, closed>>
  BY ProxyUntouched DEF CInv
<1>2. TypeOK'
  BY <1>1 DEF CInv, TypeOK, PInv
<1>3. Connected' /\ Counted'
  BY <1>1 DEF CInv, Connected, Counted, TheLimit, AskedLimit
<1> QED BY <1>1, <1>2, <1>3 DEF CInv

\* The client's invariant holds throughout.
LEMMA CInvAlways == Spec => []CInv
<1>1. CInv /\ [Next]_vars => CInv'
  BY ProxyStepKeeps, RetrierKeeps, MonitorKeeps, MainKeeps, ServerLosesKeeps, CInvStutters
     DEF Next
<1> QED BY <1>1, CInvInit, PTL DEF Spec

------------------------------------------------------------------------------
(* TypeOK for every number of local connections and chunks, the discipline of    *)
(* p.mu included: a handler is inside it exactly while it writes to the server   *)
(* (proxy.go:106-113).                                                           *)
THEOREM WindowsClientTypes == Spec => []TypeOK
<1>1. CInv => TypeOK
  BY DEF CInv
<1> QED BY <1>1, CInvAlways, PTL

(* A local program that has been sent the buffer misses no chunk, for every      *)
(* number of local connections, chunks and sizes of the buffer (proxy.go:74-80). *)
THEOREM LocalProgramsMissNothing == Spec => []NoGap
<1>1. CInv => NoGap
  BY PInvNoGap DEF CInv
<1> QED BY <1>1, CInvAlways, PTL

(* A client that was stopped has closed every connection it ever made            *)
(* (main.go:155-166, 186-193).                                                   *)
THEOREM StoppedClientIsDisconnected == Spec => []StopLeavesNoConnection
<1>1. CInv => StopLeavesNoConnection
  BY DEF CInv, Connected, StopLeavesNoConnection
<1> QED BY <1>1, CInvAlways, PTL

(* reconnectLoop keeps to the limit that the flag, the file and the default      *)
(* give, whatever integers other than a 0 in the file these are                  *)
(* (main.go:198-202, defaults.go:107).                                           *)
THEOREM RetriesAreAsConfigured == Spec => []RetryAsConfigured
<1>1. CInv => RetryAsConfigured
  BY DEF CInv, Counted, RetryAsConfigured, GivesUp, TheLimit
<1> QED BY <1>1, CInvAlways, PTL
==============================================================================
