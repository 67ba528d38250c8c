--------------------------- MODULE LocalProxyProofs ---------------------------
(***************************************************************************)
(* What the steps of the proxy keep, for any number of local connections   *)
(* and any sizes of the buffer.  The proxy's module has no specification   *)
(* of its own, so these are lemmas about its steps; WindowsClientProofs    *)
(* uses them.                                                              *)
(***************************************************************************)
EXTENDS LocalProxy, TLAPS

\* The connection acceptLoop has in hand is not served yet.
InHand == acceptor \in {"register", "buffer", "send"} =>
             newConn \in Conns /\ handler[newConn] = "off" /\ user[newConn] # "new"

\* Nothing is on its way to a connection that is not registered yet.
Fresh == \A c \in Conns :
           (user[c] = "new" \/ (acceptor = "register" /\ newConn = c)) =>
              c \notin localConns /\ got[c] = {} /\ handler[c] = "off"
              /\ \A k \in 1 .. MaxChunks : <<c, k>> \notin writers

\* A registered connection without a handler is the one in hand.
Unserved == \A c \in localConns :
              handler[c] = "off" => acceptor \in {"buffer", "send"} /\ newConn = c

\* The buffer holds the first chunks that were published.
Buffered == /\ reader = "publish" => chunk >= 1
            /\ Len(remoteBuffer) = IF published < BufferCap THEN published ELSE BufferCap
            /\ \A i \in 1 .. Len(remoteBuffer) : remoteBuffer[i] = i

\* What NoGap says about the chunks S that a connection has or will have, when n chunks
\* are published; and what holds before the buffer is sent.
Complete(S, n) == \A k \in 1 .. n : \/ k \in S
                                    \/ k > BufferCap
                                    \/ k <= n - RecentCap /\ \A j \in 1 .. k : j \notin S
OnlyLive(S, n) == \A j, k \in 1 .. n : (j \in S /\ j <= k) => k \in S

\* A registered connection that its user has not closed.
Present(c) == c \in localConns /\ user[c] = "open"

Copying == Present(newConn) =>
             /\ acceptor = "buffer" => OnlyLive(Assured(newConn), published)
             /\ acceptor = "send" => Complete(Assured(newConn) \cup recent, published)

Served == \A c \in Conns : (Present(c) /\ handler[c] # "off") => Complete(Assured(c), published)

PInv == ProxyTypeOK /\ InHand /\ Fresh /\ Unserved /\ Buffered /\ Copying /\ Served

\* Nothing is connected, buffered or published at the start.
LEMMA PInvInit == ProxyInit => PInv
<1> SUFFICES ASSUME ProxyInit PROVE PInv
  OBVIOUS
<1> USE ConnAssumption, BufferAssumption DEF ProxyInit
<1>1. ProxyTypeOK
  <2>1. \A c \in Conns : mu = c <=> handler[c] = "write"
    OBVIOUS
  <2>2. got \in [Conns -> SUBSET (1 .. MaxChunks)]
    OBVIOUS
  <2>3. remoteBuffer \in Seq(1 .. MaxChunks)
    OBVIOUS
  <2>4. writers \subseteq Conns \X (1 .. MaxChunks)
    OBVIOUS
  <2>5. chunk \in 0 .. MaxChunks
    OBVIOUS
  <2>6. handler \in [Conns -> {"off", "select", "read", "write", "return", "done"}]
    OBVIOUS
  <2>7. user \in [Conns -> {"new", "open", "closed"}]
    OBVIOUS
  <2>8. running \in BOOLEAN /\ stopChan \in BOOLEAN
    OBVIOUS
  <2> QED BY <2>1, <2>2, <2>3, <2>4, <2>5, <2>6, <2>7, <2>8 DEF ProxyTypeOK
<1>2. InHand /\ Fresh /\ Unserved
  BY DEF InHand, Fresh, Unserved
<1>3. published = 0 /\ Len(remoteBuffer) = 0
  BY DEF published
<1>4. Buffered
  BY <1>3 DEF Buffered
<1>5. Copying /\ Served
  BY DEF Copying, Served, Present
<1> QED BY <1>1, <1>2, <1>4, <1>5 DEF PInv

\* A connection that was served misses only what NoGap lets it miss.
LEMMA PInvNoGap == PInv => NoGap
  BY DEF PInv, Served, NoGap, Complete, Present, ProxyTypeOK

\* One more chunk for everybody keeps both.
LEMMA CompleteGrows ==
  ASSUME NEW S, NEW n \in Nat, Complete(S, n)
  PROVE  Complete(S \cup {n + 1}, n + 1)
  BY BufferAssumption DEF Complete

\* One more published chunk keeps what came live closed upwards.
LEMMA OnlyLiveGrows ==
  ASSUME NEW S, NEW n \in Nat, OnlyLive(S, n)
  PROVE  OnlyLive(S \cup {n + 1}, n + 1)
  BY DEF OnlyLive

\* Copying the end of the buffer completes what came live.
LEMMA BufferCompletes ==
  ASSUME PInv, NEW S, OnlyLive(S, published)
  PROVE  Complete(S \cup Recent, published)
<1> USE BufferAssumption
<1> DEFINE L == Len(remoteBuffer)
<1>1. published \in Nat /\ L \in Nat
  BY DEF PInv, ProxyTypeOK, Buffered, published
<1>2. Recent = {j \in 1 .. L : j > L - RecentCap}
  BY <1>1 DEF Recent, PInv, Buffered
<1>3. L = IF published < BufferCap THEN published ELSE BufferCap
  BY DEF PInv, Buffered
<1> HIDE DEF L
<1> QED BY <1>1, <1>2, <1>3 DEF OnlyLive, Complete

------------------------------------------------------------------------------
(* Steps that publish nothing, deliver nothing and leave the connection in hand alone. *)

InHandAt == {"register", "buffer", "send"}

Quiet == /\ UNCHANGED <<newConn, recent, remoteBuffer, writers, got>>
         /\ acceptor' = acceptor \/ (acceptor \notin InHandAt /\ acceptor' \notin InHandAt)
         /\ published' = published
         /\ reader' = "publish" => chunk' >= 1
         /\ localConns' \subseteq localConns
         /\ \A c \in Conns : handler'[c] = "off" <=> handler[c] = "off"
         /\ \A c \in Conns : user'[c] = user[c] \/ (user[c] # "new" /\ user'[c] = "closed")

\* A step that publishes nothing and moves no connection keeps the invariant.
LEMMA QuietKeeps ==
  ASSUME PInv, Quiet, ProxyTypeOK'
  PROVE  PInv'
<1> USE DEF PInv, Quiet
<1>1. InHand'
  BY DEF InHand, InHandAt, ProxyTypeOK
<1>2. Fresh'
  BY DEF Fresh, InHandAt, ProxyTypeOK
<1>3. Unserved'
  BY DEF Unserved, InHandAt, ProxyTypeOK
<1>4. Buffered'
  BY DEF Buffered
<1>5. \A c \in Conns : Present(c)' => Present(c)
  BY DEF Present
<1>6. \A c : Assured(c)' = Assured(c)
  BY DEF Assured
<1>7. Copying'
  <2> SUFFICES ASSUME Present(newConn)', acceptor' \in {"buffer", "send"}
               PROVE  /\ acceptor = acceptor'
                      /\ acceptor' = "buffer" => OnlyLive(Assured(newConn)', published')
                      /\ acceptor' = "send" => Complete(Assured(newConn)' \cup recent', published')
    BY DEF Copying
  <2>1. acceptor = acceptor' /\ newConn \in Conns /\ newConn' = newConn
    BY DEF InHand, InHandAt
  <2>2. Present(newConn) /\ Assured(newConn)' = Assured(newConn)
    BY <1>5, <1>6, <2>1 DEF Present
  <2> QED BY <2>1, <2>2 DEF Copying
<1>8. Served'
  <2> SUFFICES ASSUME NEW c \in Conns, Present(c)', handler'[c] # "off"
               PROVE  Complete(Assured(c)', published')
    BY DEF Served
  <2>1. Complete(Assured(c), published)
    BY <1>5 DEF Served
  <2> QED BY <2>1, <1>6
<1> QED BY <1>1, <1>2, <1>3, <1>4, <1>7, <1>8

\* A handler's step.
LEMMA HandleKeeps ==
  ASSUME PInv, NEW c \in Conns, Handle(c) \/ HandlerRead(c)
  PROVE  PInv'
<1> USE ConnAssumption DEF handlerFrame, acceptVars, readVars, HandlerGoes, Unlocked
<1>1. UNCHANGED <<acceptor, newConn, recent, remoteBuffer, reader, chunk, writers, got>>
  BY DEF Handle, HandlerSelect, HandlerReadFails, HandlerWrite, HandlerReturns, HandlerRead
<1>2. ProxyTypeOK
  BY DEF PInv
<1>3. ProxyTypeOK'
  <2>1. CASE HandlerSelect(c)
    BY <1>2, <2>1 DEF HandlerSelect, ProxyTypeOK
  <2>2. CASE HandlerReadFails(c)
    BY <1>2, <2>2 DEF HandlerReadFails, ProxyTypeOK
  <2>3. CASE HandlerWrite(c)
    BY <1>2, <2>3 DEF HandlerWrite, ProxyTypeOK
  <2>4. CASE HandlerReturns(c)
    BY <1>2, <2>4 DEF HandlerReturns, ProxyTypeOK
  <2>5. CASE HandlerRead(c)
    BY <1>2, <2>5 DEF HandlerRead, ProxyTypeOK
  <2> QED BY <2>1, <2>2, <2>3, <2>4, <2>5 DEF Handle
<1>4. localConns' \subseteq localConns
  BY DEF Handle, HandlerSelect, HandlerReadFails, HandlerWrite, HandlerReturns, HandlerRead
<1>5. handler[c] # "off" /\ \E to \in {"select", "read", "write", "return", "done"} :
        handler' = [handler EXCEPT ![c] = to]
  BY DEF Handle, HandlerSelect, HandlerReadFails, HandlerWrite, HandlerReturns, HandlerRead
<1>6. user' = user \/ user' = [user EXCEPT ![c] = "closed"]
  BY DEF Handle, HandlerSelect, HandlerReadFails, HandlerWrite, HandlerReturns, HandlerRead
<1>7. user[c] # "new"
  BY <1>5 DEF PInv, Fresh
<1>8. published' = published /\ (reader' = "publish" => chunk' >= 1)
  BY <1>1 DEF published, PInv, Buffered
<1>9. Quiet
  BY <1>1, <1>2, <1>4, <1>5, <1>6, <1>7, <1>8 DEF Quiet, ProxyTypeOK
<1> QED BY <1>3, <1>9, QuietKeeps

\* The steps of remoteReadLoop that publish nothing.
LEMMA ReadKeeps ==
  ASSUME PInv, ReaderGet \/ RemoteRead \/ RemoteReadFails
  PROVE  PInv'
<1> USE BufferAssumption DEF acceptVars
<1>1. ProxyTypeOK'
  <2>1. CASE ReaderGet
    BY <2>1 DEF PInv, ReaderGet, ProxyTypeOK
  <2>2. CASE RemoteRead
    BY <2>2 DEF PInv, RemoteRead, ProxyTypeOK
  <2>3. CASE RemoteReadFails
    BY <2>3 DEF PInv, RemoteReadFails, ProxyTypeOK
  <2> QED BY <2>1, <2>2, <2>3
<1>2. published' = published /\ (reader' = "publish" => chunk' >= 1)
  BY DEF PInv, ProxyTypeOK, published, ReaderGet, RemoteRead, RemoteReadFails
<1>3. Quiet
  BY <1>2 DEF Quiet, ReaderGet, RemoteRead, RemoteReadFails
<1> QED BY <1>1, <1>3, QuietKeeps

\* A local program closes its connection.
LEMMA UserClosesKeeps ==
  ASSUME PInv, NEW c \in Conns, UserCloses(c)
  PROVE  PInv'
<1>1. ProxyTypeOK'
  BY DEF PInv, UserCloses, ProxyTypeOK, acceptVars, readVars
<1>2. published' = published /\ (reader' = "publish" => chunk' >= 1)
  BY DEF UserCloses, readVars, published, PInv, Buffered
<1>3. Quiet
  BY <1>2 DEF Quiet, UserCloses, acceptVars, readVars, PInv, ProxyTypeOK
<1> QED BY <1>1, <1>3, QuietKeeps

\* Start, which finds the loops not started.
LEMMA ProxyStartKeeps ==
  ASSUME PInv, NEW conn \in Nat, ProxyStart(conn), acceptor = "off", reader = "off"
  PROVE  PInv'
<1>1. ProxyTypeOK'
  BY DEF PInv, ProxyStart, ProxyTypeOK
<1>2. published' = published /\ (reader' = "publish" => chunk' >= 1)
  BY DEF ProxyStart, published, PInv, Buffered
<1>3. Quiet
  BY <1>2 DEF Quiet, ProxyStart, InHandAt
<1> QED BY <1>1, <1>3, QuietKeeps

\* Stop closes the connections and forgets none of what they were sent.
LEMMA ProxyStopKeeps ==
  ASSUME PInv, ProxyStop
  PROVE  PInv'
<1> USE DEF acceptVars, readVars
<1>1. ProxyTypeOK'
  BY DEF PInv, ProxyStop, ProxyTypeOK
<1>2. published' = published /\ (reader' = "publish" => chunk' >= 1)
  BY DEF ProxyStop, published, PInv, Buffered
<1>3. \A c \in localConns : user[c] # "new"
  BY DEF PInv, Fresh, ProxyTypeOK
<1>4. Quiet
  BY <1>2, <1>3 DEF Quiet, ProxyStop, PInv, ProxyTypeOK
<1> QED BY <1>1, <1>4, QuietKeeps

\* Connections to the server that others end or replace.
LEMMA RemoteChangeKeeps ==
  ASSUME PInv, remoteConn' \in Nat, closed' \subseteq Nat, lost' \subseteq Nat,
         UNCHANGED <<running, stopChan, localConns, remoteBuffer, mu, acceptVars, handler,
                     readVars, writers, user, got>>
  PROVE  PInv'
<1> USE DEF acceptVars, readVars
<1>1. ProxyTypeOK'
  BY DEF PInv, ProxyTypeOK
<1>2. published' = published /\ (reader' = "publish" => chunk' >= 1)
  BY DEF published, PInv, Buffered
<1>3. Quiet
  BY <1>2 DEF Quiet
<1> QED BY <1>1, <1>3, QuietKeeps

------------------------------------------------------------------------------
(* acceptLoop. *)

\* A connection that is accepted has nothing yet.
LEMMA AcceptKeeps ==
  ASSUME PInv, NEW c \in Conns, Accept(c)
  PROVE  PInv'
<1> USE DEF PInv, Accept, readVars
<1>1. ProxyTypeOK'
  BY DEF ProxyTypeOK
<1>2. InHand' /\ Fresh'
  BY DEF ProxyTypeOK, InHand, Fresh
<1>3. Unserved'
  BY DEF ProxyTypeOK, Unserved
<1>4. published' = published /\ \A d : Assured(d)' = Assured(d)
  BY DEF published, Assured
<1>5. Buffered'
  BY <1>4 DEF Buffered
<1>6. Copying'
  BY DEF Copying
<1>7. Served'
  <2> SUFFICES ASSUME NEW d \in Conns, Present(d)', handler'[d] # "off"
               PROVE  Complete(Assured(d)', published')
    BY DEF Served
  <2>1. d # c /\ Present(d)
    BY DEF Fresh, Present, ProxyTypeOK
  <2> QED BY <2>1, <1>4 DEF Served
<1> QED BY <1>1, <1>2, <1>3, <1>5, <1>6, <1>7

\* The acceptor ends.
LEMMA AcceptFailsKeeps ==
  ASSUME PInv, AcceptFails
  PROVE  PInv'
<1>1. ProxyTypeOK'
  BY DEF PInv, AcceptFails, ProxyTypeOK, readVars
<1>2. published' = published /\ (reader' = "publish" => chunk' >= 1)
  BY DEF AcceptFails, readVars, published, PInv, Buffered
<1>3. Quiet
  BY <1>2 DEF Quiet, AcceptFails, InHandAt
<1> QED BY <1>1, <1>3, QuietKeeps

\* A registered connection gets what is published from now on.
LEMMA RegisterKeeps ==
  ASSUME PInv, Register
  PROVE  PInv'
<1> USE DEF PInv, Register, readVars
<1>1. newConn \in Conns /\ handler[newConn] = "off" /\ newConn \notin localConns
  BY DEF InHand, Fresh
<1>2. ProxyTypeOK'
  BY <1>1 DEF ProxyTypeOK
<1>3. InHand' /\ Fresh' /\ Unserved'
  BY <1>1 DEF ProxyTypeOK, InHand, Fresh, Unserved
<1>4. published' = published /\ \A d : Assured(d)' = Assured(d)
  BY DEF published, Assured
<1>5. Buffered'
  BY <1>4 DEF Buffered
<1>6. Copying'
  <2>1. Assured(newConn)' = {}
    BY <1>1 DEF Fresh, Assured
  <2>2. OnlyLive(Assured(newConn)', published')
    BY <2>1 DEF OnlyLive
  <2> QED BY <2>2 DEF Copying
<1>7. Served'
  <2> SUFFICES ASSUME NEW d \in Conns, Present(d)', handler'[d] # "off"
               PROVE  Complete(Assured(d)', published')
    BY DEF Served
  <2>1. Present(d)
    BY <1>1 DEF Present
  <2> QED BY <2>1, <1>4 DEF Served
<1> QED BY <1>2, <1>3, <1>5, <1>6, <1>7

\* The copy is the buffer of this moment, and what came live follows it.
LEMMA TakeBufferKeeps ==
  ASSUME PInv, TakeBuffer
  PROVE  PInv'
<1> USE DEF TakeBuffer, readVars
<1>1. Recent \subseteq 1 .. MaxChunks
  BY BufferAssumption DEF Recent, PInv, ProxyTypeOK
<1>2. ProxyTypeOK'
  BY <1>1 DEF PInv, ProxyTypeOK
<1>3. InHand' /\ Fresh' /\ Unserved'
  BY DEF PInv, ProxyTypeOK, InHand, Fresh, Unserved
<1>4. published' = published /\ \A d : Assured(d)' = Assured(d)
  BY DEF published, Assured
<1>5. Buffered'
  BY <1>4 DEF PInv, Buffered
<1>6. Copying'
  <2> SUFFICES ASSUME Present(newConn)'
               PROVE  Complete(Assured(newConn)' \cup recent', published')
    BY DEF Copying
  <2>1. OnlyLive(Assured(newConn), published)
    BY DEF PInv, Copying, Present
  <2>2. Complete(Assured(newConn) \cup Recent, published)
    BY <2>1, BufferCompletes
  <2>3. Assured(newConn)' = Assured(newConn) /\ recent' = Recent
    BY DEF Assured
  <2> QED BY <1>4, <2>2, <2>3
<1>7. Served'
  <2> SUFFICES ASSUME NEW d \in Conns, Present(d)', handler'[d] # "off"
               PROVE  Complete(Assured(d)', published')
    BY DEF Served
  <2>1. Present(d)
    BY DEF Present
  <2> QED BY <2>1, <1>4 DEF PInv, Served
<1> QED BY <1>2, <1>3, <1>5, <1>6, <1>7 DEF PInv

\* With the copy the connection has all that NoGap asks for.
LEMMA SendBufferKeeps ==
  ASSUME PInv, SendBuffer
  PROVE  PInv'
<1> USE DEF SendBuffer, readVars
<1>1. newConn \in Conns /\ handler[newConn] = "off" /\ user[newConn] # "new" /\ ProxyTypeOK
  BY DEF PInv, InHand
<1>2. ProxyTypeOK'
  BY <1>1 DEF ProxyTypeOK, Receive
<1>3. InHand' /\ Fresh' /\ Unserved'
  BY <1>1 DEF PInv, ProxyTypeOK, InHand, Fresh, Unserved, Receive
<1>4. published' = published
  BY DEF published
<1>5. Buffered'
  BY <1>4 DEF PInv, Buffered
<1>6. Copying'
  BY DEF Copying
<1>7. Served'
  <2> SUFFICES ASSUME NEW d \in Conns, Present(d)', handler'[d] # "off"
               PROVE  Complete(Assured(d)', published')
    BY DEF Served
  <2>1. Present(d)
    BY DEF Present
  <2>2. CASE d = newConn
    <3>1. Complete(Assured(d) \cup recent, published)
      BY <2>1, <2>2 DEF PInv, Copying
    <3>2. Assured(d)' = Assured(d) \cup recent
      BY <1>1, <2>1, <2>2 DEF Assured, Receive, Present, ProxyTypeOK
    <3> QED BY <3>1, <3>2, <1>4
  <2>3. CASE d # newConn
    <3>1. handler[d] # "off" /\ Assured(d)' = Assured(d)
      BY <1>1, <2>3 DEF Assured, Receive, ProxyTypeOK
    <3> QED BY <3>1, <2>1, <1>4 DEF PInv, Served
  <2> QED BY <2>2, <2>3
<1> QED BY <1>2, <1>3, <1>5, <1>6, <1>7 DEF PInv

------------------------------------------------------------------------------
(* What the server sends. *)

\* A chunk goes to all registered connections, and to the buffer while there is room.
LEMMA PublishKeeps ==
  ASSUME PInv, Publish
  PROVE  PInv'
<1> USE BufferAssumption DEF Publish, acceptVars
<1>1. /\ chunk \in Nat /\ chunk >= 1 /\ published = chunk - 1 /\ published \in Nat
      /\ published' = published + 1 /\ ProxyTypeOK /\ chunk \in 1 .. MaxChunks
  BY DEF PInv, ProxyTypeOK, Buffered, published
<1>2. ProxyTypeOK'
  <2>1. remoteBuffer' \in Seq(1 .. MaxChunks)
    <3> DEFINE Chunks == 1 .. MaxChunks
    <3>1. remoteBuffer \in Seq(Chunks) /\ chunk \in Chunks
      BY <1>1 DEF ProxyTypeOK
    <3>2. remoteBuffer' \in {remoteBuffer, Append(remoteBuffer, chunk)}
      OBVIOUS
    <3> HIDE DEF Chunks
    <3>3. remoteBuffer' \in Seq(Chunks)
      BY <3>1, <3>2
    <3> QED BY <3>3 DEF Chunks
  <2>2. writers' \subseteq Conns \X (1 .. MaxChunks)
    BY <1>1 DEF ProxyTypeOK
  <2> QED BY <1>1, <2>1, <2>2 DEF ProxyTypeOK
<1>3. InHand' /\ Unserved'
  BY DEF PInv, InHand, Unserved
<1>4. Fresh'
  BY <1>1 DEF PInv, Fresh
<1>5. Buffered'
  <2>1. remoteBuffer \in Seq(1 .. MaxChunks)
    BY <1>1 DEF ProxyTypeOK
  <2> QED BY <1>1, <2>1 DEF PInv, Buffered
<1>6. ASSUME NEW d \in localConns
      PROVE  Assured(d)' = Assured(d) \cup {published + 1}
  BY <1>1, <1>6 DEF Assured, ProxyTypeOK
<1>7. Copying'
  <2> SUFFICES ASSUME Present(newConn)'
               PROVE  /\ acceptor = "buffer" => OnlyLive(Assured(newConn)', published')
                      /\ acceptor = "send" => Complete(Assured(newConn)' \cup recent, published')
    BY DEF Copying
  <2>1. Present(newConn) /\ newConn \in localConns
    BY DEF Present
  <2>2. Assured(newConn)' = Assured(newConn) \cup {published + 1}
    <3> DEFINE d == newConn
    <3>1. d \in localConns
      BY <2>1
    <3> QED BY <3>1, <1>1 DEF Assured, ProxyTypeOK
  <2>3. CASE acceptor = "buffer"
    BY <1>1, <2>1, <2>2, <2>3, OnlyLiveGrows DEF PInv, Copying
  <2>4. CASE acceptor = "send"
    <3>1. Complete((Assured(newConn) \cup recent) \cup {published + 1}, published + 1)
      BY <1>1, <2>1, <2>4, CompleteGrows DEF PInv, Copying
    <3>2. (Assured(newConn) \cup recent) \cup {published + 1} = Assured(newConn)' \cup recent
      BY <2>2
    <3> QED BY <1>1, <2>4, <3>1, <3>2
  <2> QED BY <2>3, <2>4
<1>8. Served'
  <2> SUFFICES ASSUME NEW d \in Conns, Present(d)', handler'[d] # "off"
               PROVE  Complete(Assured(d)', published')
    BY DEF Served
  <2>1. Present(d) /\ d \in localConns
    BY DEF Present
  <2>2. Complete(Assured(d), published)
    BY <2>1 DEF PInv, Served
  <2> QED BY <1>1, <1>6, <2>1, <2>2, CompleteGrows, ZenonT(30)
<1> QED BY <1>2, <1>3, <1>4, <1>5, <1>7, <1>8 DEF PInv

\* A chunk that was on its way has arrived.
LEMMA WriterWritesKeeps ==
  ASSUME PInv, NEW c \in Conns, NEW k \in 1 .. chunk, WriterWrites(c, k)
  PROVE  PInv'
<1> USE DEF WriterWrites, acceptVars, readVars
<1>1. ProxyTypeOK /\ k \in 1 .. MaxChunks
  BY BufferAssumption DEF PInv, ProxyTypeOK
<1>2. ProxyTypeOK'
  BY <1>1 DEF ProxyTypeOK, Receive
<1>3. InHand' /\ Unserved'
  BY DEF PInv, InHand, Unserved
<1>4. Fresh'
  BY <1>1 DEF PInv, Fresh, Receive, ProxyTypeOK
<1>5. published' = published
  BY DEF published
<1>6. Buffered'
  BY <1>5 DEF PInv, Buffered
<1>7. \A d \in Conns : Present(d)' => Present(d) /\ Assured(d)' = Assured(d)
  BY <1>1 DEF Present, Assured, Receive, ProxyTypeOK
<1>8. Copying'
  <2> SUFFICES ASSUME Present(newConn)'
               PROVE  /\ acceptor = "buffer" => OnlyLive(Assured(newConn)', published')
                      /\ acceptor = "send" => Complete(Assured(newConn)' \cup recent, published')
    BY DEF Copying
  <2>1. newConn \in Conns /\ newConn' = newConn
    BY <1>1 DEF Present, ProxyTypeOK
  <2>2. Present(newConn) /\ Assured(newConn)' = Assured(newConn)
    BY <1>1, <2>1 DEF Present, Assured, Receive, ProxyTypeOK
  <2> QED BY <2>2, <1>5 DEF PInv, Copying
<1>9. Served'
  <2> SUFFICES ASSUME NEW d \in Conns, Present(d)', handler'[d] # "off"
               PROVE  Complete(Assured(d)', published')
    BY DEF Served
  <2> QED BY <1>5, <1>7 DEF PInv, Served
<1> QED BY <1>2, <1>3, <1>4, <1>6, <1>8, <1>9 DEF PInv

\* Every step of the proxy's goroutines and of the local programs.
LEMMA ProxyNextKeeps ==
  ASSUME PInv, ProxyNext
  PROVE  PInv'
  BY HandleKeeps, ReadKeeps, UserClosesKeeps, AcceptKeeps, AcceptFailsKeeps, RegisterKeeps,
     TakeBufferKeeps, SendBufferKeeps, PublishKeeps, WriterWritesKeeps
     DEF ProxyNext, AcceptLoop, ReadLoop
===============================================================================
