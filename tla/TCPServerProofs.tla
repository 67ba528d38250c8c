--------------------------- MODULE TCPServerProofs ---------------------------
(***************************************************************************)
(* Safety of the server with any connections and addresses, any number of  *)
(* retries and any amount of input.                                        *)
(*                                                                         *)
(* That the owner always has a handler (OwnerHasHandler) is inductive, and *)
(* so is that the registry holds served clients only (NoGhostClient) once  *)
(* an entry is known to be of its connection's address (TypeOK).  TypeOK   *)
(* itself needs that a handler that tries, checks or writes has a chunk.   *)
(***************************************************************************)
EXTENDS TCPServer, TLAPS

\* Between a Read and the end of its chunk, the handler's buffer holds the chunk.
BufferFull == \A c \in Conns : pc[c] \in {"try", "check", "write"} => buf[c] # 0

TInv == TypeOK /\ BufferFull

\* The server starts with well-typed variables.
LEMMA InitTInv == Init => TInv
<1> SUFFICES ASSUME Init PROVE TInv
  OBVIOUS
<1>1. /\ input \in 0 .. MaxInput
      /\ inbox \in [Conns -> Seq(1 .. MaxInput)]
      /\ port \in Seq(Conns \X (1 .. MaxInput))
  BY BoundAssumption DEF Init
<1>2. /\ tries \in [Conns -> 0 .. MaxRetry]
      /\ buf \in [Conns -> 0 .. MaxInput]
      /\ conn \in [Conns -> {"new", "open", "gone", "closed"}]
      /\ pc \in [Conns -> Serving \cup {"none", "cleanup", "done"}]
      /\ clients \in [Ids -> Conns \cup {NoConn}]
  BY BoundAssumption DEF Init
<1>3. \A i \in Ids : clients[i] = NoConn
  BY DEF Init
<1>4. \A c \in Conns : pc[c] = "none"
  BY DEF Init
<1> QED
  BY <1>1, <1>2, <1>3, <1>4 DEF Init, TInv, TypeOK, BufferFull

\* Every step of the server, of its clients and of the timers keeps the types.
LEMMA NextTInv == TInv /\ [Next]_vars => TInv'
<1> SUFFICES ASSUME TInv, [Next]_vars PROVE TInv'
  OBVIOUS
<1> USE ConnAssumption, BoundAssumption DEF TInv, TypeOK, BufferFull, Serving,
        netVars, handlerVars, serverVars, Goto, ReadOn
<1>1. CASE Start
  BY <1>1 DEF Start
<1>2. CASE Stop
  BY <1>2 DEF Stop
<1>3. ASSUME NEW c \in Conns, Dial(c) PROVE TInv'
  BY <1>3 DEF Dial
<1>4. ASSUME NEW c \in Conns, Send(c) PROVE TInv'
  BY <1>4 DEF Send
<1>5. ASSUME NEW c \in Conns, Hangup(c) PROVE TInv'
  <2>1. inbox' \in [Conns -> Seq(1 .. MaxInput)]
    <3>1. [inbox EXCEPT ![c] = <<>>] \in [Conns -> Seq(1 .. MaxInput)]
      OBVIOUS
    <3> QED
      BY <1>5, <3>1 DEF Hangup
  <2>2. conn' \in [Conns -> {"new", "open", "gone", "closed"}]
    BY <1>5 DEF Hangup
  <2> QED
    BY <1>5, <2>1, <2>2 DEF Hangup
<1>6. ASSUME NEW c \in Conns, Accept(c) PROVE TInv'
  BY <1>6 DEF Accept
<1>7. ASSUME NEW c \in Conns, Register(c) PROVE TInv'
  BY <1>7 DEF Register
<1>8. ASSUME NEW c \in Conns, Read(c) PROVE TInv'
  <2>1. /\ Head(inbox[c]) \in 1 .. MaxInput
        /\ Tail(inbox[c]) \in Seq(1 .. MaxInput)
    BY <1>8, SMTT(30) DEF Read
  <2>2. inbox' \in [Conns -> Seq(1 .. MaxInput)]
    BY <1>8, <2>1 DEF Read
  <2>3. /\ buf' \in [Conns -> 0 .. MaxInput]
        /\ buf'[c] # 0
        /\ \A d \in Conns \ {c} : buf'[d] = buf[d] /\ pc'[d] = pc[d]
    BY <1>8, <2>1, SMTT(30) DEF Read
  <2>4. pc' \in [Conns -> Serving \cup {"none", "cleanup", "done"}]
    BY <1>8 DEF Read
  <2>5. BufferFull'
    BY <2>3
  <2>6. UNCHANGED <<conn, input, tries, port, serverVars>>
    BY <1>8 DEF Read
  <2> QED
    BY <2>2, <2>3, <2>4, <2>5, <2>6
<1>9. ASSUME NEW c \in Conns, Attempt(c) PROVE TInv'
  <2>1. pc' \in [Conns -> Serving \cup {"none", "cleanup", "done"}]
    BY <1>9 DEF Attempt
  <2>2. tries' \in [Conns -> 0 .. MaxRetry]
    <3>1. CASE tries' = [tries EXCEPT ![c] = 0]
      BY <3>1
    <3>2. CASE tries[c] < MaxRetry /\ tries' = [tries EXCEPT ![c] = @ + 1]
      BY <3>2
    <3> QED
      BY <1>9, <3>1, <3>2 DEF Attempt
  <2>3. BufferFull'
    BY <1>9 DEF Attempt
  <2>4. UNCHANGED <<buf, port, netVars, serverVars>>
    BY <1>9 DEF Attempt
  <2> QED
    BY <2>1, <2>2, <2>3, <2>4
<1>10. ASSUME NEW c \in Conns, Check(c) PROVE TInv'
  <2>1. CASE owner = IdOf[c]
    BY <1>10, <2>1 DEF Check
  <2>2. CASE owner # IdOf[c]
    <3>1. /\ pc' = [pc EXCEPT ![c] = "read"]
          /\ buf' = [buf EXCEPT ![c] = 0]
          /\ UNCHANGED <<tries, port, netVars, serverVars>>
      BY <1>10, <2>2 DEF Check
    <3>2. BufferFull'
      BY <3>1
    <3> QED
      BY <3>1, <3>2, SMTT(30)
  <2> QED
    BY <2>1, <2>2
<1>11. ASSUME NEW c \in Conns, Write(c) PROVE TInv'
  <2>1. Append(port, <<c, buf[c]>>) \in Seq(Conns \X (1 .. MaxInput))
    BY <1>11 DEF Write
  <2>2. port' \in Seq(Conns \X (1 .. MaxInput))
    BY <1>11, <2>1 DEF Write
  <2>3. /\ pc' = [pc EXCEPT ![c] = "read"]
        /\ buf' = [buf EXCEPT ![c] = 0]
        /\ UNCHANGED <<tries, netVars, serverVars>>
    BY <1>11 DEF Write
  <2>4. BufferFull'
    BY <2>3
  <2> QED
    BY <2>2, <2>3, <2>4, SMTT(30)
<1>12. ASSUME NEW c \in Conns, Disconnect(c) PROVE TInv'
  BY <1>12 DEF Disconnect, ReadFails
<1>13. ASSUME NEW c \in Conns, Cleanup(c) PROVE TInv'
  BY <1>13 DEF Cleanup
<1>14. ASSUME NEW t \in Timers, LeaseStep(t) PROVE TInv'
  BY <1>14 DEF LeaseStep
<1>15. CASE UNCHANGED vars
  BY <1>15 DEF vars
<1> QED
  BY <1>1, <1>2, <1>3, <1>4, <1>5, <1>6, <1>7, <1>8, <1>9, <1>10, <1>11, <1>12,
     <1>13, <1>14, <1>15 DEF Next, Handler

\* Types, the bound of the retry loop, and that every registry entry is of its
\* connection's address.
THEOREM ServerTypeCorrect == Spec => []TypeOK
<1>1. Spec => []TInv
  BY InitTInv, NextTInv, PTL DEF Spec
<1> QED
  BY <1>1, PTL DEF TInv

------------------------------------------------------------------------------
(* The lock's owner and the registry. *)

SInv == /\ TInv
        /\ OwnerHasHandler
        /\ NoGhostClient

\* At the start the lock is free and the registry empty.
LEMMA InitSInv == Init => SInv
<1>1. Init => OwnerHasHandler
  BY DEF Init, Lock!Init, OwnerHasHandler
<1>2. Init => NoGhostClient
  BY DEF Init, NoGhostClient
<1> QED
  BY <1>1, <1>2, InitTInv DEF SInv

\* A step that leaves alone the lock's owner, the registry and who is served.
LEMMA NothingMoves ==
  ASSUME SInv, UNCHANGED <<owner, clients, pc>>
  PROVE  OwnerHasHandler' /\ NoGhostClient'
BY DEF SInv, OwnerHasHandler, NoGhostClient

\* A step that moves one served handler to another point of its loop, and gives
\* the lock to nobody else.
LEMMA HandlerMovesOn ==
  ASSUME SInv, NEW c \in Conns, NEW l \in Serving, Goto(c, l),
         pc[c] \in Serving,
         owner' \in {owner, IdOf[c]},
         UNCHANGED clients
  PROVE  OwnerHasHandler' /\ NoGhostClient'
<1>1. /\ pc'[c] \in Serving
      /\ \A d \in Conns \ {c} : pc'[d] = pc[d]
  BY DEF SInv, TInv, TypeOK, Goto
<1>2. OwnerHasHandler'
  <2>1. CASE owner' = IdOf[c]
    BY <1>1, <2>1 DEF OwnerHasHandler
  <2>2. CASE owner' = owner
    BY <1>1, <2>2 DEF SInv, OwnerHasHandler
  <2> QED
    BY <2>1, <2>2
<1>3. NoGhostClient'
  BY <1>1 DEF SInv, TInv, TypeOK, NoGhostClient
<1> QED
  BY <1>2, <1>3

\* A handler leaves its loop only after its entry was deleted, and only when its
\* address does not own the lock (or goes on to release it).
LEMMA HandlerLeaves ==
  ASSUME SInv, NEW c \in Conns, NEW l \in {"cleanup", "done"}, Goto(c, l),
         owner' \in {owner, NoId},
         l = "done" => owner' # IdOf[c],
         \A i \in Ids : clients'[i] \in {clients[i], NoConn},
         \A i \in Ids : clients'[i] # c \/ clients'[i] = NoConn
  PROVE  OwnerHasHandler' /\ NoGhostClient'
<1>1. /\ pc'[c] = l
      /\ \A d \in Conns \ {c} : pc'[d] = pc[d]
  BY DEF SInv, TInv, TypeOK, Goto
<1>2. OwnerHasHandler'
  BY <1>1 DEF SInv, OwnerHasHandler
<1>3. NoGhostClient'
  BY <1>1 DEF SInv, TInv, TypeOK, NoGhostClient
<1> QED
  BY <1>2, <1>3

\* Every step keeps the owner's handler and keeps ghosts out of the registry.
LEMMA NextSInv == SInv /\ [Next]_vars => SInv'
<1> SUFFICES ASSUME SInv, [Next]_vars PROVE OwnerHasHandler' /\ NoGhostClient'
  BY NextTInv DEF SInv
<1> USE DEF netVars, handlerVars, serverVars, lockVars
<1>1. CASE Start
  BY <1>1, NothingMoves DEF Start
<1>2. CASE Stop
  BY <1>2 DEF Stop, SInv, OwnerHasHandler, NoGhostClient
<1>3. ASSUME NEW c \in Conns, Dial(c) \/ Send(c) \/ Hangup(c) \/ Accept(c)
      PROVE  OwnerHasHandler' /\ NoGhostClient'
  BY <1>3, NothingMoves DEF Dial, Send, Hangup, Accept
<1>4. ASSUME NEW c \in Conns, Register(c)
      PROVE  OwnerHasHandler' /\ NoGhostClient'
  <2>1. /\ pc'[c] \in Serving
        /\ \A d \in Conns \ {c} : pc'[d] = pc[d]
    BY <1>4 DEF SInv, TInv, TypeOK, Register, Goto, Serving
  <2>2. OwnerHasHandler'
    BY <1>4, <2>1 DEF SInv, OwnerHasHandler, Register
  <2>3. \A i \in Ids : clients'[i] \in {clients[i], c}
    BY <1>4 DEF SInv, TInv, TypeOK, Register
  <2>4. NoGhostClient'
    BY <2>1, <2>3, ZenonT(30) DEF SInv, TInv, TypeOK, NoGhostClient
  <2> QED
    BY <2>2, <2>4
<1>5. ASSUME NEW c \in Conns, Read(c)
      PROVE  OwnerHasHandler' /\ NoGhostClient'
  BY <1>5, HandlerMovesOn DEF Read, Serving
<1>6. ASSUME NEW c \in Conns, Attempt(c)
      PROVE  OwnerHasHandler' /\ NoGhostClient'
  <2>1. CASE Goto(c, "check") /\ owner' \in {owner, IdOf[c]}
    BY <1>6, <2>1, HandlerMovesOn DEF Attempt, Serving
  <2>2. CASE UNCHANGED <<pc, owner>>
    BY <1>6, <2>2, NothingMoves DEF Attempt
  <2> QED
    BY <1>6, <2>1, <2>2 DEF Attempt, Lock!Acquire
<1>7. ASSUME NEW c \in Conns, Check(c) \/ Write(c)
      PROVE  OwnerHasHandler' /\ NoGhostClient'
  BY <1>7, HandlerMovesOn DEF Check, Write, ReadOn, Serving
<1>8. ASSUME NEW c \in Conns, Disconnect(c)
      PROVE  OwnerHasHandler' /\ NoGhostClient'
  \* An entry of another address is another connection's.
  <2>1. /\ \A i \in Ids : clients'[i] \in {clients[i], NoConn}
        /\ \A i \in Ids : clients'[i] # c \/ clients'[i] = NoConn
    BY <1>8, ConnAssumption DEF Disconnect, SInv, TInv, TypeOK
  <2> QED
    BY <1>8, <2>1, HandlerLeaves DEF Disconnect
<1>9. ASSUME NEW c \in Conns, Cleanup(c)
      PROVE  OwnerHasHandler' /\ NoGhostClient'
  <2>1. owner' \in {owner, NoId} /\ owner' # IdOf[c]
    BY <1>9, ConnAssumption, LockAssumption DEF Cleanup, Lock!ForceRelease, Lock!Free
  <2>2. \A i \in Ids : clients'[i] # c \/ clients'[i] = NoConn
    BY <1>9, ConnAssumption DEF Cleanup, SInv, NoGhostClient, Serving
  <2> QED
    BY <1>9, <2>1, <2>2, HandlerLeaves DEF Cleanup
<1>10. ASSUME NEW t \in Timers, LeaseStep(t)
       PROVE  OwnerHasHandler' /\ NoGhostClient'
  <2>1. owner' \in {owner, NoId}
    BY <1>10 DEF LeaseStep, Lock!Fire, Lock!Expire
  <2> QED
    BY <1>10, <2>1 DEF LeaseStep, SInv, OwnerHasHandler, NoGhostClient
<1>11. CASE UNCHANGED vars
  BY <1>11, NothingMoves DEF vars
<1> QED
  BY <1>1, <1>2, <1>3, <1>4, <1>5, <1>6, <1>7, <1>8, <1>9, <1>10, <1>11
  DEF Next, Handler

\* The lock's owner always has a handler that has not returned, whatever
\* connections share its address: a client that left does not own the lock.
THEOREM OwnerAlwaysHasHandler == Spec => []OwnerHasHandler
<1>1. Spec => []SInv
  BY InitSInv, NextSInv, PTL DEF Spec
<1> QED
  BY <1>1, PTL DEF SInv

\* The registry never holds a client whose handler has ended.
THEOREM NoClientIsGhost == Spec => []NoGhostClient
<1>1. Spec => []SInv
  BY InitSInv, NextSInv, PTL DEF Spec
<1> QED
  BY <1>1, PTL DEF SInv

------------------------------------------------------------------------------
(* The registry after Stop, and while the server runs. *)

\* The listener is open exactly while the server runs.
LInv == /\ listener = "open" <=> running
        /\ LateClientAtMostOne

\* A stopped server registers at most the connection it had accepted.
THEOREM StoppedServerKeepsAtMostOne == Spec => []LateClientAtMostOne
<1>1. Init => LInv
  BY DEF Init, LInv, LateClientAtMostOne
<1>2. LInv /\ TInv /\ [Next]_vars => LInv'
  <2> SUFFICES ASSUME LInv, TInv, [Next]_vars PROVE LInv'
    OBVIOUS
  <2> USE DEF LInv, LateClientAtMostOne, netVars, handlerVars, serverVars
  <2>1. CASE Start
    BY <2>1 DEF Start
  <2>2. CASE Stop
    BY <2>2 DEF Stop
  <2>3. ASSUME NEW c \in Conns,
               \/ Dial(c) \/ Send(c) \/ Hangup(c) \/ Read(c) \/ Attempt(c) \/ Check(c)
               \/ Write(c) \/ Cleanup(c)
        PROVE  LInv'
    <3>1. UNCHANGED <<listener, running, clients, accepted>>
      BY <2>3 DEF Dial, Send, Hangup, Read, Attempt, Check, Write, Cleanup
    <3> QED
      BY <3>1
  <2>4. ASSUME NEW c \in Conns, Accept(c) PROVE LInv'
    BY <2>4 DEF Accept
  <2>5. ASSUME NEW c \in Conns, Register(c) PROVE LInv'
    <3>1. /\ accepted = c /\ c # NoConn /\ accepted' = NoConn
          /\ UNCHANGED <<listener, running>>
          /\ \A i \in Ids : i # IdOf[c] => clients'[i] = clients[i]
      BY <2>5, ConnAssumption DEF Register, TInv, TypeOK
    <3> QED
      BY <3>1
  <2>6. ASSUME NEW c \in Conns, Disconnect(c) PROVE LInv'
    <3>1. /\ UNCHANGED <<listener, running, accepted>>
          /\ \A i \in Ids : clients'[i] \in {clients[i], NoConn}
      BY <2>6 DEF Disconnect, TInv, TypeOK
    <3> QED
      BY <3>1
  <2>7. ASSUME NEW t \in Timers, LeaseStep(t) PROVE LInv'
    BY <2>7 DEF LeaseStep
  <2>8. CASE UNCHANGED vars
    BY <2>8 DEF vars
  <2> QED
    BY <2>1, <2>2, <2>3, <2>4, <2>5, <2>6, <2>7, <2>8 DEF Next, Handler
<1>3. Spec => []TInv
  BY InitTInv, NextTInv, PTL DEF Spec
<1> QED
  BY <1>1, <1>2, <1>3, PTL DEF Spec, LInv

\* A connection nobody has made is neither accepted nor served, and nobody makes one
\* before Start.
Untouched == /\ \A d \in Conns : conn[d] = "new" => pc[d] = "none" /\ accepted # d
             /\ listener = "none" => \A d \in Conns : conn[d] = "new"

RInv == Untouched /\ RegisteredUnlessReused

\* While the server runs, only another connection from the same address can make a
\* served client miss the broadcasts.
THEOREM ServedIsRegisteredUnlessReused == Spec => []RegisteredUnlessReused
<1>1. Init => RInv
  BY ConnAssumption DEF Init, RInv, Untouched, RegisteredUnlessReused, Serving
<1>2. RInv /\ TInv /\ [Next]_vars => RInv'
  <2> SUFFICES ASSUME RInv, TInv, [Next]_vars PROVE RInv'
    OBVIOUS
  <2> USE ConnAssumption
      DEF RInv, Untouched, RegisteredUnlessReused, netVars, handlerVars, serverVars, Serving
  <2> /\ conn \in [Conns -> {"new", "open", "gone", "closed"}]
      /\ pc \in [Conns -> Serving \cup {"none", "cleanup", "done"}]
      /\ clients \in [Ids -> Conns \cup {NoConn}]
    BY DEF TInv, TypeOK
  <2>1. CASE Start
    BY <2>1 DEF Start
  <2>2. CASE Stop
    <3>1. /\ ~running' /\ listener' = "closed"
          /\ UNCHANGED <<pc, accepted>>
          /\ \A c \in Conns : conn'[c] \in {conn[c], "closed"}
      BY <2>2 DEF Stop
    <3> QED
      BY <3>1
  <2>3. ASSUME NEW c \in Conns, Dial(c) \/ Hangup(c) PROVE RInv'
    <3>1. /\ UNCHANGED <<listener, running, clients, accepted, pc>>
          /\ conn'[c] # "new" /\ listener # "none"
          /\ \A d \in Conns \ {c} : conn'[d] = conn[d]
      BY <2>3 DEF Dial, Hangup
    <3> QED
      BY <3>1
  <2>4. ASSUME NEW c \in Conns, Send(c) PROVE RInv'
    BY <2>4 DEF Send
  <2>5. ASSUME NEW c \in Conns, Accept(c) PROVE RInv'
    BY <2>5 DEF Accept
  <2>6. ASSUME NEW c \in Conns, Register(c) PROVE RInv'
    <3>1. /\ UNCHANGED <<listener, running, conn>>
          /\ conn[c] # "new"
          /\ accepted' = NoConn
          /\ clients'[IdOf[c]] = c
          /\ \A i \in Ids \ {IdOf[c]} : clients'[i] = clients[i]
          /\ \A d \in Conns \ {c} : pc'[d] = pc[d]
      BY <2>6 DEF Register, Goto
    <3> QED
      BY <3>1
  <2>7. ASSUME NEW c \in Conns, Read(c) \/ Attempt(c) \/ Check(c) \/ Write(c) PROVE RInv'
    <3>1. /\ UNCHANGED <<listener, running, clients, accepted, conn>>
          /\ pc[c] \in Serving
          /\ \A d \in Conns \ {c} : pc'[d] = pc[d]
      BY <2>7 DEF Read, Attempt, Check, Write, Goto, ReadOn
    <3> QED
      BY <3>1
  <2>8. ASSUME NEW c \in Conns, Disconnect(c) PROVE RInv'
    <3>1. /\ UNCHANGED <<listener, running, accepted, conn>>
          /\ conn[c] # "new"
          /\ pc'[c] \notin Serving
          /\ \A i \in Ids \ {IdOf[c]} : clients'[i] = clients[i]
          /\ \A d \in Conns \ {c} : pc'[d] = pc[d]
      BY <2>8 DEF Disconnect, ReadFails, Goto
    <3> QED
      BY <3>1
  <2>9. ASSUME NEW c \in Conns, Cleanup(c) PROVE RInv'
    <3>1. /\ UNCHANGED <<listener, running, clients, accepted, conn>>
          /\ pc[c] = "cleanup" /\ pc'[c] = "done"
          /\ \A d \in Conns \ {c} : pc'[d] = pc[d]
      BY <2>9 DEF Cleanup, Goto
    <3> QED
      BY <3>1
  <2>10. ASSUME NEW t \in Timers, LeaseStep(t) PROVE RInv'
    BY <2>10 DEF LeaseStep
  <2>11. CASE UNCHANGED vars
    BY <2>11 DEF vars
  <2> QED
    BY <2>1, <2>2, <2>3, <2>4, <2>5, <2>6, <2>7, <2>8, <2>9, <2>10, <2>11 DEF Next, Handler
<1>3. Spec => []TInv
  BY InitTInv, NextTInv, PTL DEF Spec
<1> QED
  BY <1>1, <1>2, <1>3, PTL DEF Spec, RInv

------------------------------------------------------------------------------
(* The order of the input at the port. *)

\* Chunks are numbered as they are sent: those at the port, the one the handler has and
\* those in flight follow each other, for every connection.
ChunkOrder(c) ==
  /\ \A j \in 1 .. Len(inbox[c]) : /\ inbox[c][j] <= input
                                   /\ buf[c] < inbox[c][j]
                                   /\ \A i \in 1 .. j - 1 : inbox[c][i] < inbox[c][j]
  /\ buf[c] <= input
  /\ \A k \in 1 .. Len(port) :
       port[k][1] = c => /\ port[k][2] <= input
                         /\ buf[c] # 0 => port[k][2] < buf[c]
                         /\ \A j \in 1 .. Len(inbox[c]) : port[k][2] < inbox[c][j]

OInv == PortOrder /\ \A c \in Conns : ChunkOrder(c)

\* A step that leaves the input and the port alone.
LEMMA OrderStays ==
  ASSUME OInv, UNCHANGED <<inbox, buf, input, port>> PROVE OInv'
BY DEF OInv, ChunkOrder, PortOrder

\* A step in which a handler has dealt with its chunk, or dropped it.
LEMMA OrderWithoutChunk ==
  ASSUME TInv, OInv, NEW c \in Conns, buf' = [buf EXCEPT ![c] = 0],
         UNCHANGED <<inbox, input, port>>
  PROVE  OInv'
<1> USE BoundAssumption
<1>1. /\ buf \in [Conns -> 0 .. MaxInput] /\ input \in 0 .. MaxInput
      /\ inbox \in [Conns -> Seq(1 .. MaxInput)]
  BY DEF TInv, TypeOK
<1>2. ASSUME NEW d \in Conns PROVE ChunkOrder(d)'
  <2>1. CASE d = c
    <3>1. buf'[d] = 0
      BY <1>1, <2>1
    <3>2. \A j \in 1 .. Len(inbox[d]) : inbox[d][j] \in 1 .. MaxInput
      BY <1>1
    <3> QED
      BY <1>1, <3>1, <3>2, BoundAssumption DEF OInv, ChunkOrder
  <2>2. CASE d # c
    BY <1>1, <2>2 DEF OInv, ChunkOrder
  <2> QED
    BY <2>1, <2>2
<1>3. PortOrder'
  BY DEF OInv, PortOrder
<1> QED
  BY <1>2, <1>3 DEF OInv

\* Whatever is dropped, the port gets the chunks of a connection in the order in which
\* they were sent, and none twice.
THEOREM PortKeepsOrder == Spec => []PortOrder
<1>1. Init => OInv
  <2> SUFFICES ASSUME Init PROVE OInv
    OBVIOUS
  <2>1. /\ port = <<>> /\ input = 0
        /\ \A c \in Conns : inbox[c] = <<>> /\ buf[c] = 0
    BY DEF Init
  <2> QED
    BY <2>1 DEF OInv, PortOrder, ChunkOrder
<1>2. OInv /\ TInv /\ [Next]_vars => OInv'
  <2> SUFFICES ASSUME OInv, TInv, [Next]_vars PROVE OInv'
    OBVIOUS
  <2> USE BoundAssumption
  <2>0. /\ inbox \in [Conns -> Seq(1 .. MaxInput)]
        /\ input \in 0 .. MaxInput
        /\ buf \in [Conns -> 0 .. MaxInput]
        /\ port \in Seq(Conns \X (1 .. MaxInput))
    BY DEF TInv, TypeOK
  <2>1. CASE Start \/ Stop \/ UNCHANGED vars
    BY <2>1, OrderStays DEF Start, Stop, vars, netVars, handlerVars
  <2>2. ASSUME NEW c \in Conns,
               \/ Dial(c) \/ Accept(c) \/ Register(c) \/ Attempt(c) \/ Disconnect(c) \/ Cleanup(c)
        PROVE  OInv'
    BY <2>2, OrderStays
    DEF Dial, Accept, Register, Attempt, Disconnect, Cleanup, netVars, handlerVars
  <2>3. ASSUME NEW t \in Timers, LeaseStep(t) PROVE OInv'
    BY <2>3, OrderStays DEF LeaseStep, netVars, handlerVars
  <2>4. ASSUME NEW c \in Conns, Send(c) PROVE OInv'
    <3>1. /\ input' = input + 1 /\ UNCHANGED <<port, buf>>
          /\ inbox' = [inbox EXCEPT ![c] = Append(inbox[c], input + 1)]
      BY <2>4 DEF Send, handlerVars
    <3>2. ASSUME NEW d \in Conns PROVE ChunkOrder(d)'
      <4>1. CASE d = c
        <5>1. inbox'[d] = Append(inbox[c], input + 1) /\ inbox[c] \in Seq(1 .. MaxInput)
          BY <2>0, <3>1, <4>1
        <5>2. /\ Len(inbox'[d]) = Len(inbox[c]) + 1
              /\ \A j \in 1 .. Len(inbox[c]) : /\ inbox'[d][j] = inbox[c][j]
                                               /\ inbox[c][j] \in 1 .. MaxInput
              /\ inbox'[d][Len(inbox[c]) + 1] = input + 1
          BY <5>1, <2>0, SMTT(30)
        <5>3. \A j \in 1 .. Len(inbox'[d]) :
                 j \in 1 .. Len(inbox[c]) \/ j = Len(inbox[c]) + 1
          BY <5>1, <5>2
        <5>4. Len(inbox[c]) \in Nat /\ buf[c] \in 0 .. MaxInput
          BY <5>1, <2>0
        <5>5. \A k \in 1 .. Len(port) : port[k][2] \in 1 .. MaxInput
          BY <2>0
        <5>6. \A j \in 1 .. Len(inbox'[d]) :
                 /\ inbox'[d][j] <= input'
                 /\ buf'[d] < inbox'[d][j]
                 /\ \A i \in 1 .. j - 1 : inbox'[d][i] < inbox'[d][j]
          BY <2>0, <3>1, <4>1, <5>2, <5>3, <5>4, SMTT(30) DEF OInv, ChunkOrder
        <5>7. \A k \in 1 .. Len(port') :
                 port'[k][1] = d => /\ port'[k][2] <= input'
                                    /\ buf'[d] # 0 => port'[k][2] < buf'[d]
                                    /\ \A j \in 1 .. Len(inbox'[d]) : port'[k][2] < inbox'[d][j]
          <6> SUFFICES ASSUME NEW k \in 1 .. Len(port), port[k][1] = c
                       PROVE  /\ port[k][2] <= input + 1
                              /\ buf[c] # 0 => port[k][2] < buf[c]
                              /\ \A j \in 1 .. Len(inbox'[d]) : port[k][2] < inbox'[d][j]
            BY <3>1, <4>1
          <6>1. /\ port[k][2] <= input
                /\ buf[c] # 0 => port[k][2] < buf[c]
                /\ \A j \in 1 .. Len(inbox[c]) : port[k][2] < inbox[c][j]
            BY DEF OInv, ChunkOrder
          <6>2. port[k][2] <= input + 1 /\ port[k][2] < input + 1
            <7>1. port[k][2] \in Nat
              <8>1. port[k][2] \in 1 .. MaxInput
                BY <5>5
              <8> QED
                BY <8>1
            <7>2. input \in Nat
              BY <2>0
            <7> QED
              BY <6>1, <7>1, <7>2
          <6> QED
            BY <5>2, <5>3, <6>1, <6>2
        <5>8. buf'[d] <= input'
          <6>1. buf[c] <= input
            BY DEF OInv, ChunkOrder
          <6> QED
            BY <2>0, <3>1, <4>1, <5>4, <6>1
        <5> QED
          BY <5>6, <5>7, <5>8 DEF ChunkOrder
      <4>2. CASE d # c
        <5>1. inbox'[d] = inbox[d] /\ inbox[d] \in Seq(1 .. MaxInput) /\ buf[d] \in 0 .. MaxInput
          BY <2>0, <3>1, <4>2
        <5>2. \A k \in 1 .. Len(port) : port[k][2] \in 1 .. MaxInput
          BY <2>0
        <5>3. \A j \in 1 .. Len(inbox[d]) : inbox[d][j] \in 1 .. MaxInput
          BY <5>1
        <5>4. ChunkOrder(d)
          BY DEF OInv
        <5>5. ASSUME NEW x \in 0 .. MaxInput, x <= input PROVE x <= input'
          BY <2>0, <3>1, <5>5
        <5>6. \A j \in 1 .. Len(inbox[d]) : inbox[d][j] <= input'
          BY <5>3, <5>4, <5>5 DEF ChunkOrder
        <5>7. \A k \in 1 .. Len(port) : port[k][1] = d => port[k][2] <= input'
          BY <5>2, <5>4, <5>5 DEF ChunkOrder
        <5>8. buf[d] <= input'
          BY <5>1, <5>4, <5>5 DEF ChunkOrder
        <5> QED
          BY <3>1, <5>1, <5>4, <5>6, <5>7, <5>8 DEF ChunkOrder
      <4> QED
        BY <4>1, <4>2
    <3> QED
      BY <3>1, <3>2 DEF OInv, PortOrder
  <2>5. ASSUME NEW c \in Conns, Hangup(c) PROVE OInv'
    <3>1. /\ UNCHANGED <<input, buf, port>>
          /\ \A d \in Conns : inbox'[d] \in {inbox[d], <<>>}
      BY <2>0, <2>5 DEF Hangup, handlerVars
    <3>2. ASSUME NEW d \in Conns PROVE ChunkOrder(d)'
      BY <3>1 DEF OInv, ChunkOrder
    <3> QED
      BY <3>1, <3>2 DEF OInv, PortOrder
  <2>6. ASSUME NEW c \in Conns, Read(c) PROVE OInv'
    <3>1. /\ UNCHANGED <<input, port>>
          /\ inbox[c] # <<>>
          /\ buf' = [buf EXCEPT ![c] = Head(inbox[c])]
          /\ inbox' = [inbox EXCEPT ![c] = Tail(inbox[c])]
      BY <2>6 DEF Read
    <3>2. ASSUME NEW d \in Conns PROVE ChunkOrder(d)'
      <4>1. CASE d = c
        <5>1. /\ inbox[c] \in Seq(1 .. MaxInput) /\ Len(inbox[c]) \in Nat \ {0}
              /\ buf'[d] = inbox[c][1] /\ inbox'[d] = Tail(inbox[c])
          BY <2>0, <3>1, <4>1
        <5>2. /\ Len(inbox'[d]) = Len(inbox[c]) - 1
              /\ \A j \in 1 .. Len(inbox'[d]) : /\ inbox'[d][j] = inbox[c][j + 1]
                                                /\ j + 1 \in 1 .. Len(inbox[c])
          BY <5>1
        <5>3. \A j \in 1 .. Len(inbox[c]) : inbox[c][j] \in 1 .. MaxInput
          BY <5>1
        <5>4. \A j \in 1 .. Len(inbox'[d]) :
                 /\ inbox'[d][j] <= input
                 /\ buf'[d] < inbox'[d][j]
                 /\ \A i \in 1 .. j - 1 : inbox'[d][i] < inbox'[d][j]
          <6> TAKE j \in 1 .. Len(inbox'[d])
          <6>1. j + 1 \in 1 .. Len(inbox[c]) /\ inbox'[d][j] = inbox[c][j + 1] /\ j \in 1 .. Len(inbox[c])
            BY <5>1, <5>2
          <6>2. inbox[c][j + 1] <= input /\ inbox[c][1] < inbox[c][j + 1]
            BY <5>1, <6>1 DEF OInv, ChunkOrder
          <6>3. ASSUME NEW i \in 1 .. j - 1 PROVE inbox'[d][i] < inbox'[d][j]
            <7>1. /\ i \in 1 .. Len(inbox'[d]) /\ i + 1 \in 1 .. (j + 1) - 1
              BY <5>1, <5>2, <6>1, SMTT(30)
            <7>2. inbox'[d][i] = inbox[c][i + 1]
              BY <7>1, <5>2
            <7> QED
              BY <7>1, <7>2, <6>1 DEF OInv, ChunkOrder
          <6> QED
            BY <5>1, <6>1, <6>2, <6>3
        <5>5. \A k \in 1 .. Len(port) :
                 port[k][1] = d => /\ port[k][2] <= input
                                   /\ port[k][2] < buf'[d]
                                   /\ \A j \in 1 .. Len(inbox'[d]) : port[k][2] < inbox'[d][j]
          BY <4>1, <5>1, <5>2 DEF OInv, ChunkOrder
        <5>6. buf'[d] <= input
          BY <5>1 DEF OInv, ChunkOrder
        <5> QED
          BY <3>1, <5>4, <5>5, <5>6 DEF ChunkOrder
      <4>2. CASE d # c
        <5>1. inbox'[d] = inbox[d] /\ buf'[d] = buf[d]
          BY <2>0, <3>1, <4>2
        <5> QED
          BY <3>1, <5>1 DEF OInv, ChunkOrder
      <4> QED
        BY <4>1, <4>2
    <3> QED
      BY <3>1, <3>2 DEF OInv, PortOrder
  <2>7. ASSUME NEW c \in Conns, Check(c) PROVE OInv'
    <3>1. UNCHANGED <<inbox, input, port>> /\ (UNCHANGED buf \/ buf' = [buf EXCEPT ![c] = 0])
      BY <2>7 DEF Check, ReadOn, netVars
    <3> QED
      BY <3>1, OrderStays, OrderWithoutChunk
  <2>8. ASSUME NEW c \in Conns, Write(c) PROVE OInv'
    <3>1. /\ UNCHANGED <<inbox, input>>
          /\ buf' = [buf EXCEPT ![c] = 0]
          /\ port' \in {port, Append(port, <<c, buf[c]>>)}
          /\ buf[c] # 0 /\ buf[c] \in 1 .. MaxInput
      BY <2>0, <2>8 DEF Write, ReadOn, netVars, TInv, BufferFull
    <3>2. CASE port' = port
      BY <3>1, <3>2, OrderWithoutChunk
    <3>3. CASE port' = Append(port, <<c, buf[c]>>)
      <4>1. /\ Len(port') = Len(port) + 1 /\ Len(port) \in Nat
            /\ port'[Len(port) + 1] = <<c, buf[c]>>
            /\ \A k \in 1 .. Len(port) : /\ port'[k] = port[k]
                                         /\ port[k][2] \in 1 .. MaxInput
            /\ \A k \in 1 .. Len(port') : k \in 1 .. Len(port) \/ k = Len(port) + 1
        <5>1. buf[c] \in 1 .. MaxInput
          BY <3>1
        <5>2. port \in Seq(Conns \X (1 .. MaxInput)) /\ <<c, buf[c]>> \in Conns \X (1 .. MaxInput)
          BY <2>0, <5>1
        <5> QED
          BY <3>3, <5>2
      <4>2. PortOrder'
        <5> SUFFICES ASSUME NEW j \in 1 .. Len(port'), NEW i \in 1 .. j - 1,
                            port'[i][1] = port'[j][1]
                     PROVE  port'[i][2] < port'[j][2]
          BY DEF PortOrder
        <5>1. CASE j \in 1 .. Len(port)
          <6>1. i \in 1 .. Len(port)
            BY <5>1, <4>1
          <6> QED
            BY <5>1, <6>1, <4>1 DEF OInv, PortOrder
        <5>2. CASE j = Len(port) + 1
          <6>1. i \in 1 .. Len(port) /\ port'[j][1] = c /\ port'[j][2] = buf[c]
            BY <5>2, <4>1
          <6>2. port[i][1] = c
            BY <6>1, <4>1
          <6> QED
            BY <6>1, <6>2, <3>1, <3>3, <4>1 DEF OInv, ChunkOrder
        <5> QED
          BY <5>1, <5>2, <4>1
      <4>3. ASSUME NEW d \in Conns PROVE ChunkOrder(d)'
        <5>1. \A j \in 1 .. Len(inbox[d]) : inbox[d][j] \in 1 .. MaxInput
          BY <2>0
        <5>2. CASE d = c
          <6>1. buf'[d] = 0
            BY <2>0, <3>1, <3>3, <5>2
          <6>2. ASSUME NEW k \in 1 .. Len(port'), port'[k][1] = d
                PROVE  /\ port'[k][2] <= input
                       /\ \A j \in 1 .. Len(inbox[d]) : port'[k][2] < inbox[d][j]
            <7>1. CASE k \in 1 .. Len(port)
              BY <5>2, <6>2, <7>1, <4>1 DEF OInv, ChunkOrder
            <7>2. CASE k = Len(port) + 1
              BY <5>2, <7>2, <3>1, <3>3, <4>1 DEF OInv, ChunkOrder
            <7> QED
              BY <4>1, <7>1, <7>2
          <6>3. \A j \in 1 .. Len(inbox[d]) : /\ inbox[d][j] <= input
                                              /\ 0 < inbox[d][j]
                                              /\ \A i \in 1 .. j - 1 : inbox[d][i] < inbox[d][j]
            BY <5>1 DEF OInv, ChunkOrder
          <6>4. 0 <= input
            BY <2>0
          <6> QED
            BY <3>1, <3>3, <6>1, <6>2, <6>3, <6>4 DEF ChunkOrder
        <5>3. CASE d # c
          <6>1. buf'[d] = buf[d] /\ inbox'[d] = inbox[d]
            BY <2>0, <3>1, <3>3, <5>3
          <6>2. ASSUME NEW k \in 1 .. Len(port'), port'[k][1] = d
                PROVE  k \in 1 .. Len(port) /\ port'[k] = port[k]
            BY <4>1, <5>3, <6>2
          <6>3. ChunkOrder(d)
            BY DEF OInv
          <6>4. input' = input
            BY <3>1
          <6>5. ASSUME NEW k \in 1 .. Len(port'), port'[k][1] = d
                PROVE  /\ port'[k][2] <= input
                       /\ buf[d] # 0 => port'[k][2] < buf[d]
                       /\ \A j \in 1 .. Len(inbox[d]) : port'[k][2] < inbox[d][j]
            <7>1. k \in 1 .. Len(port) /\ port'[k] = port[k] /\ port[k][1] = d
              BY <6>2, <6>5
            <7> QED
              BY <6>3, <7>1 DEF ChunkOrder
          <6>6. /\ buf[d] <= input
                /\ \A j \in 1 .. Len(inbox[d]) : /\ inbox[d][j] <= input
                                                  /\ buf[d] < inbox[d][j]
                                                  /\ \A i \in 1 .. j - 1 : inbox[d][i] < inbox[d][j]
            BY <6>3 DEF ChunkOrder
          <6> QED
            BY <6>1, <6>4, <6>5, <6>6 DEF ChunkOrder
        <5> QED
          BY <5>2, <5>3
      <4> QED
        BY <4>2, <4>3 DEF OInv
    <3> QED
      BY <3>1, <3>2, <3>3
  <2> QED
    BY <2>1, <2>2, <2>3, <2>4, <2>5, <2>6, <2>7, <2>8 DEF Next, Handler
<1>3. Spec => []TInv
  BY InitTInv, NextTInv, PTL DEF Spec
<1> QED
  BY <1>1, <1>2, <1>3, PTL DEF Spec, OInv

------------------------------------------------------------------------------
(* Who loses the lock. *)

\* A handler is past its loop only when its connection has ended, and an ended
\* connection stays ended.
EndedInCleanup == \A c \in Conns : pc[c] = "cleanup" => conn[c] \in {"gone", "closed"}

\* Every step keeps that handlers clean up after ended connections only.
LEMMA NextEnded == EndedInCleanup /\ TInv /\ [Next]_vars => EndedInCleanup'
<1> SUFFICES ASSUME EndedInCleanup, TInv, [Next]_vars PROVE EndedInCleanup'
  OBVIOUS
<1> USE DEF EndedInCleanup, netVars, handlerVars
<1> /\ conn \in [Conns -> {"new", "open", "gone", "closed"}]
    /\ pc \in [Conns -> Serving \cup {"none", "cleanup", "done"}]
  BY DEF TInv, TypeOK
<1>1. CASE Start \/ UNCHANGED vars
  BY <1>1 DEF Start, vars
<1>2. CASE Stop
  BY <1>2 DEF Stop
<1>3. ASSUME NEW c \in Conns, Dial(c) \/ Send(c) \/ Hangup(c) \/ Accept(c)
      PROVE  EndedInCleanup'
  BY <1>3 DEF Dial, Send, Hangup, Accept
<1>4. ASSUME NEW c \in Conns, Register(c) \/ Read(c) \/ Attempt(c) \/ Check(c) \/ Write(c)
      PROVE  EndedInCleanup'
  <2>1. /\ UNCHANGED conn
        /\ \/ UNCHANGED pc
           \/ \E l \in Serving : Goto(c, l)
    BY <1>4 DEF Register, Read, Attempt, Check, Write, ReadOn, Serving
  <2>2. "cleanup" \notin Serving
    BY DEF Serving
  <2> QED
    BY <2>1, <2>2 DEF Goto
<1>5. ASSUME NEW c \in Conns, Disconnect(c) \/ Cleanup(c) PROVE EndedInCleanup'
  BY <1>5 DEF Disconnect, ReadFails, Cleanup, Goto
<1>6. ASSUME NEW t \in Timers, LeaseStep(t) PROVE EndedInCleanup'
  BY <1>6 DEF LeaseStep
<1> QED
  BY <1>1, <1>2, <1>3, <1>4, <1>5, <1>6 DEF Next, Handler

\* A lock is never taken from its owner, except by the end of a connection from the
\* owner's address or by the owner's own lease: a handler that found itself the owner,
\* and whose lease then went to somebody else, does not release the other's lock.
THEOREM LockIsLostByItsOwnerOnly == Spec => LockLostByOwner
<1> DEFINE Lost == (locked /\ owner' # owner) =>
                     \/ \E c \in Conns : /\ IdOf[c] = owner
                                          /\ conn[c] \in {"gone", "closed"}
                                          /\ pc[c] = "cleanup" /\ pc'[c] = "done"
                     \/ \E t \in Timers : Lock!Expire(t) /\ timer[t].client = owner
<1>1. Init => EndedInCleanup
  BY DEF Init, EndedInCleanup
<1>2. EndedInCleanup /\ TInv /\ [Next]_vars => Lost
  <2> SUFFICES ASSUME EndedInCleanup, TInv, [Next]_vars, locked, owner' # owner
               PROVE  \/ \E c \in Conns : /\ IdOf[c] = owner
                                           /\ conn[c] \in {"gone", "closed"}
                                           /\ pc[c] = "cleanup" /\ pc'[c] = "done"
                      \/ \E t \in Timers : Lock!Expire(t) /\ timer[t].client = owner
    OBVIOUS
  <2>1. ASSUME NEW c \in Conns, Cleanup(c)
        PROVE  /\ IdOf[c] = owner
               /\ conn[c] \in {"gone", "closed"}
               /\ pc[c] = "cleanup" /\ pc'[c] = "done"
    BY <2>1 DEF Cleanup, Lock!ForceRelease, Goto, lockVars, EndedInCleanup, TInv, TypeOK
  <2>2. ASSUME NEW t \in Timers, LeaseStep(t)
        PROVE  Lock!Expire(t) /\ timer[t].client = owner
    BY <2>2 DEF LeaseStep, Lock!Fire, Lock!Expire
  <2>3. ASSUME NEW c \in Conns, Attempt(c) PROVE FALSE
    BY <2>3 DEF Attempt, Lock!Acquire, lockVars
  <2>4. ASSUME NEW c \in Conns,
               \/ Dial(c) \/ Send(c) \/ Hangup(c) \/ Accept(c) \/ Register(c)
               \/ Read(c) \/ Check(c) \/ Write(c) \/ Disconnect(c)
        PROVE  FALSE
    BY <2>4 DEF Dial, Send, Hangup, Accept, Register, Read, Check, Write, Disconnect, lockVars
  <2>5. ~(Start \/ Stop \/ UNCHANGED vars)
    BY DEF Start, Stop, vars, lockVars
  <2> QED
    BY <2>1, <2>2, <2>3, <2>4, <2>5 DEF Next, Handler
<1>3. Spec => []TInv
  BY InitTInv, NextTInv, PTL DEF Spec
<1>4. Spec => []EndedInCleanup
  BY <1>1, <1>3, NextEnded, PTL DEF Spec
<1>5. Spec => [][Lost]_vars
  BY <1>2, <1>3, <1>4, PTL DEF Spec
<1> QED
  BY <1>5 DEF LockLostByOwner

------------------------------------------------------------------------------
(* The server uses the lock as its operations allow, so what is proved of     *)
(* every Arbiter holds in the server.                                         *)

LP == INSTANCE ArbiterProofs WITH Clients <- Ids, NoClient <- NoId

\* Every step of the server is a step of the arbiter or leaves it alone.
THEOREM ServerRunsArbiter == Spec => Lock!Spec
<1>1. Init => Lock!Init
  BY DEF Init
<1>2. [Next]_vars => [Lock!Next]_(Lock!vars)
  <2> SUFFICES ASSUME [Next]_vars PROVE [Lock!Next]_(Lock!vars)
    OBVIOUS
  <2>1. ASSUME NEW c \in Conns, Attempt(c) PROVE [Lock!Next]_(Lock!vars)
    BY <2>1, ConnAssumption DEF Attempt, lockVars, Lock!vars, Lock!Next
  <2>2. ASSUME NEW c \in Conns, Cleanup(c) PROVE [Lock!Next]_(Lock!vars)
    BY <2>2, ConnAssumption DEF Cleanup, lockVars, Lock!vars, Lock!Next
  <2>3. ASSUME NEW t \in Timers, LeaseStep(t) PROVE [Lock!Next]_(Lock!vars)
    BY <2>3 DEF LeaseStep, Lock!Next
  <2>4. CASE UNCHANGED lockVars
    BY <2>4 DEF lockVars, Lock!vars
  <2>5. ASSUME NEW c \in Conns,
               \/ Dial(c) \/ Send(c) \/ Hangup(c) \/ Accept(c) \/ Register(c)
               \/ Read(c) \/ Check(c) \/ Write(c) \/ Disconnect(c)
        PROVE  UNCHANGED lockVars
    BY <2>5 DEF Dial, Send, Hangup, Accept, Register, Read, Check, Write, Disconnect
  <2>6. CASE Start \/ Stop \/ UNCHANGED vars
    BY <2>4, <2>6 DEF Start, Stop, vars
  <2> QED
    BY <2>1, <2>2, <2>3, <2>4, <2>5, <2>6 DEF Next, Handler
<1> QED
  BY <1>1, <1>2, PTL DEF Spec, Lock!Spec

\* In the server too, a held lock always has a lease that will end it: a client
\* that keeps its connection open cannot keep the lock for ever.
THEOREM ServerLeaseRuns == Spec => []Lock!LeaseRuns
<1>1. Lock!Init => LP!Init
  BY DEF Lock!Init, LP!Init, Lock!Idle, LP!Idle
<1>2. [Lock!Next]_(Lock!vars) => [LP!Next]_(LP!vars)
  BY DEF Lock!Next, LP!Next, Lock!vars, LP!vars, Lock!Acquire, LP!Acquire,
         Lock!Release, LP!Release, Lock!ForceRelease, LP!ForceRelease,
         Lock!Free, LP!Free, Lock!ExtendTimeout, LP!ExtendTimeout,
         Lock!Fire, LP!Fire, Lock!Expire, LP!Expire, Lock!Rearm, LP!Rearm,
         Lock!Unused, LP!Unused, Lock!StopTimer, LP!StopTimer,
         Lock!Idle, LP!Idle, Lock!Armed, LP!Armed, Lock!Fired, LP!Fired
<1>3. LP!LeaseRuns => Lock!LeaseRuns
  BY DEF LP!LeaseRuns, Lock!LeaseRuns, LP!Armed, Lock!Armed, LP!Fired, Lock!Fired
<1>4. LP!NoClientAssumption /\ LP!NoTimerAssumption
  BY LockAssumption DEF LP!NoClientAssumption, LP!NoTimerAssumption
<1>5. LP!Spec => []LP!LeaseRuns
  BY <1>4, LP!HeldLockHasLease, PTL
<1> QED
  BY <1>1, <1>2, <1>3, <1>5, ServerRunsArbiter, PTL DEF Lock!Spec, LP!Spec
==============================================================================
