----------------------------- MODULE LocalProxy -----------------------------
(***************************************************************************)
(* internal/localproxy/proxy.go: the TCP port on the user's machine behind *)
(* which the Windows client hides its connection to the server.  One       *)
(* goroutine accepts local connections, one per connection carries input   *)
(* to the server, one reads the server, and every chunk it reads starts a  *)
(* goroutine per local connection that writes the chunk to it.             *)
(*                                                                         *)
(* A chunk is what one Read of the server returns; chunks are numbered     *)
(* from 1 and the buffer is measured in chunks.  Connections to the server *)
(* are numbered by the dial that made them, 0 is nil.  What a local        *)
(* program received is a set: the code keeps no order between the writing  *)
(* goroutines.  p.mu is held over more than one step by a handler that     *)
(* writes to the server only; mu is that handler's connection or NoConn.   *)
(*                                                                         *)
(* A definition named for a fault that nothing uses is a faulty variant of *)
(* the one that follows it; a mutant of PROJECT.json puts it there.        *)
(***************************************************************************)
EXTENDS Integers, Sequences

CONSTANTS Conns,        \* the local connections
          NoConn,
          BufferCap,    \* 1 MB, the size at which remoteBuffer stops growing
          RecentCap,    \* 64 KB, what a new connection gets of it at most
          MaxChunks     \* BOUND: chunks the server sends

ASSUME ConnAssumption == NoConn \notin Conns
ASSUME BufferAssumption == /\ BufferCap \in Nat \ {0}
                           /\ RecentCap \in Nat \ {0}
                           /\ MaxChunks \in Nat

VARIABLES running,       \* p.running; p.localListener is open while it is true
          stopChan,      \* p.stopChan is closed
          remoteConn,    \* p.remoteConn
          localConns,    \* p.localConns
          remoteBuffer,  \* p.remoteBuffer
          mu,            \* the handler inside p.mu, or NoConn
          acceptor,      \* acceptLoop: where it is
          newConn,       \*   localConn
          recent,        \*   the part of the buffer sendBufferedData writes
          handler,       \* handleLocalConnection of each connection: where it is
          reader,        \* remoteReadLoop: where it is
          readConn,      \*   its remoteConn
          chunk,         \*   number of chunks read so far; the last one is data
          writers,       \* the goroutines <<c, k>> that write chunk k to c
          user,          \* each local socket: "new", "open", "closed" (by either end)
          got,           \* the chunks each local program has received
          closed,        \* server connections closed by this program
          lost           \* server connections the server has ended

acceptVars == <<acceptor, newConn, recent>>
readVars == <<reader, readConn, chunk>>
proxyVars == <<running, stopChan, remoteConn, localConns, remoteBuffer, mu, acceptVars,
               handler, readVars, writers, user, got, closed, lost>>

------------------------------------------------------------------------------
\* NewLocalProxy.
ProxyInit == /\ running = FALSE
             /\ stopChan = FALSE
             /\ remoteConn = 0
             /\ localConns = {}
             /\ remoteBuffer = <<>>
             /\ mu = NoConn
             /\ acceptor = "off"
             /\ newConn = NoConn
             /\ recent = {}
             /\ handler = [c \in Conns |-> "off"]
             /\ reader = "off"
             /\ readConn = 0
             /\ chunk = 0
             /\ writers = {}
             /\ user = [c \in Conns |-> "new"]
             /\ got = [c \in Conns |-> {}]
             /\ closed = {}
             /\ lost = {}

\* p.mu can be taken.
Unlocked == mu = NoConn

\* Start with a port that can be listened on.
ProxyStart(conn) ==
  /\ Unlocked
  /\ remoteConn' = conn
  /\ running' = TRUE
  /\ acceptor' = "accept"
  /\ reader' = "get"
  /\ UNCHANGED <<stopChan, localConns, remoteBuffer, mu, newConn, recent, handler, readConn,
                 chunk, writers, user, got, closed, lost>>

ProxyStopKeepsConns ==
  /\ Unlocked
  /\ running
  /\ running' = FALSE
  /\ stopChan' = TRUE
  /\ localConns' = {}
  /\ closed' = closed \cup ({remoteConn} \ {0})
  /\ UNCHANGED <<remoteConn, remoteBuffer, mu, acceptVars, handler, readVars, writers, user,
                 got, lost>>

\* Stop.  A connection that acceptLoop has not yet registered is not closed.
ProxyStop ==
  /\ Unlocked
  /\ running
  /\ running' = FALSE
  /\ stopChan' = TRUE
  /\ user' = [c \in Conns |-> IF c \in localConns THEN "closed" ELSE user[c]]
  /\ localConns' = {}
  /\ closed' = closed \cup ({remoteConn} \ {0})
  /\ UNCHANGED <<remoteConn, remoteBuffer, mu, acceptVars, handler, readVars, writers, got, lost>>

(* acceptLoop. *)

\* The look at stopChan and Accept.  Stop closes stopChan and the listener in one
\* critical section, so that either of them ends the loop.
Accept(c) ==
  /\ acceptor = "accept"
  /\ running
  /\ user[c] = "new"
  /\ acceptor' = "register"
  /\ newConn' = c
  /\ user' = [user EXCEPT ![c] = "open"]
  /\ UNCHANGED <<running, stopChan, remoteConn, localConns, remoteBuffer, mu, recent, handler,
                 readVars, writers, got, closed, lost>>

AcceptFails ==
  /\ acceptor = "accept"
  /\ stopChan
  /\ acceptor' = "done"
  /\ UNCHANGED <<running, stopChan, remoteConn, localConns, remoteBuffer, mu, newConn, recent,
                 handler, readVars, writers, user, got, closed, lost>>

\* The chunks sendBufferedData takes from the buffer.
Recent == {remoteBuffer[i] : i \in {j \in 1 .. Len(remoteBuffer) : j > Len(remoteBuffer) - RecentCap}}

\* p.localConns[localConn] = true.
Register ==
  /\ acceptor = "register"
  /\ Unlocked
  /\ acceptor' = "buffer"
  /\ localConns' = localConns \cup {newConn}
  /\ UNCHANGED <<running, stopChan, remoteConn, remoteBuffer, mu, newConn, recent, handler,
                 readVars, writers, user, got, closed, lost>>

\* sendBufferedData: buffer := p.remoteBuffer.
TakeBuffer ==
  /\ acceptor = "buffer"
  /\ Unlocked
  /\ acceptor' = "send"
  /\ recent' = Recent
  /\ UNCHANGED <<running, stopChan, remoteConn, localConns, remoteBuffer, mu, newConn, handler,
                 readVars, writers, user, got, closed, lost>>

\* The set of chunks S is written to c; a closed connection takes nothing.
Receive(c, S) == [got EXCEPT ![c] = IF user[c] = "open" THEN @ \cup S ELSE @]

\* sendBufferedData: localConn.Write(buffer[start:]); then the handler is started.
SendBuffer ==
  /\ acceptor = "send"
  /\ acceptor' = "accept"
  /\ got' = Receive(newConn, recent)
  /\ handler' = [handler EXCEPT ![newConn] = "select"]
  /\ newConn' = NoConn
  /\ recent' = {}
  /\ UNCHANGED <<running, stopChan, remoteConn, localConns, remoteBuffer, mu, readVars, writers,
                 user, closed, lost>>

(* handleLocalConnection. *)

handlerFrame == <<running, stopChan, remoteConn, remoteBuffer, acceptVars, readVars, writers,
                  got, closed, lost>>

HandlerGoes(c, from, to) == /\ handler[c] = from
                            /\ handler' = [handler EXCEPT ![c] = to]

HandlerSelect(c) ==
  /\ HandlerGoes(c, "select", IF stopChan THEN "return" ELSE "read")
  /\ UNCHANGED <<localConns, mu, user, handlerFrame>>

HandlerReadFails(c) ==
  /\ user[c] = "closed"
  /\ HandlerGoes(c, "read", "return")
  /\ UNCHANGED <<localConns, mu, user, handlerFrame>>

\* The user types something, and p.mu is taken.  It is kept while the server takes the
\* input, if there is a server.
HandlerRead(c) ==
  /\ user[c] = "open"
  /\ Unlocked
  /\ IF remoteConn # 0
     THEN HandlerGoes(c, "read", "write") /\ mu' = c
     ELSE HandlerGoes(c, "read", "select") /\ UNCHANGED mu
  /\ UNCHANGED <<localConns, user, handlerFrame>>

HandlerWriteKeepsLock(c) ==
  /\ HandlerGoes(c, "write", "select")
  /\ UNCHANGED <<localConns, mu, user, handlerFrame>>

\* remoteConn.Write returns: the server took the input, or the connection is gone.
HandlerWrite(c) ==
  /\ HandlerGoes(c, "write", "select")
  /\ mu' = NoConn
  /\ UNCHANGED <<localConns, user, handlerFrame>>

\* The deferred function: delete and Close.
HandlerReturns(c) ==
  /\ Unlocked
  /\ HandlerGoes(c, "return", "done")
  /\ localConns' = localConns \ {c}
  /\ user' = [user EXCEPT ![c] = "closed"]
  /\ UNCHANGED <<mu, handlerFrame>>

(* remoteReadLoop. *)

\* The look at stopChan, and remoteConn := p.remoteConn.
ReaderGet ==
  /\ reader = "get"
  /\ Unlocked
  /\ readConn' = remoteConn
  /\ reader' = IF stopChan THEN "done" ELSE "read"
  /\ UNCHANGED <<running, stopChan, remoteConn, localConns, remoteBuffer, mu, acceptVars,
                 handler, chunk, writers, user, got, closed, lost>>

RemoteRead ==
  /\ reader = "read"
  /\ readConn \notin closed \cup lost \cup {0}
  /\ chunk < MaxChunks
  /\ chunk' = chunk + 1
  /\ reader' = "publish"
  /\ UNCHANGED <<running, stopChan, remoteConn, localConns, remoteBuffer, mu, acceptVars,
                 handler, readConn, writers, user, got, closed, lost>>

\* Without a connection, and when Read fails, the loop sleeps and starts again.
RemoteReadFails ==
  /\ reader = "read"
  /\ readConn \in closed \cup lost \cup {0}
  /\ reader' = "get"
  /\ UNCHANGED <<running, stopChan, remoteConn, localConns, remoteBuffer, mu, acceptVars,
                 handler, readConn, chunk, writers, user, got, closed, lost>>

PublishToServed ==
  /\ reader = "publish"
  /\ Unlocked
  /\ reader' = "get"
  /\ remoteBuffer' = IF Len(remoteBuffer) < BufferCap
                     THEN Append(remoteBuffer, chunk) ELSE remoteBuffer
  /\ writers' = writers \cup ({c \in localConns : handler[c] # "off"} \X {chunk})
  /\ UNCHANGED <<running, stopChan, remoteConn, localConns, mu, acceptVars, handler, readConn,
                 chunk, user, got, closed, lost>>

\* The chunk is kept for later connections while there is room, and a goroutine for
\* each present connection is started.
Publish ==
  /\ reader = "publish"
  /\ Unlocked
  /\ reader' = "get"
  /\ remoteBuffer' = IF Len(remoteBuffer) < BufferCap
                     THEN Append(remoteBuffer, chunk) ELSE remoteBuffer
  /\ writers' = writers \cup (localConns \X {chunk})
  /\ UNCHANGED <<running, stopChan, remoteConn, localConns, mu, acceptVars, handler, readConn,
                 chunk, user, got, closed, lost>>

\* conn.Write(d) of one of these goroutines.
WriterWrites(c, k) ==
  /\ <<c, k>> \in writers
  /\ writers' = writers \ {<<c, k>>}
  /\ got' = Receive(c, {k})
  /\ UNCHANGED <<running, stopChan, remoteConn, localConns, remoteBuffer, mu, acceptVars,
                 handler, readVars, user, closed, lost>>

(* The environment. *)

\* A local program closes its connection.
UserCloses(c) ==
  /\ user[c] = "open"
  /\ user' = [user EXCEPT ![c] = "closed"]
  /\ UNCHANGED <<running, stopChan, remoteConn, localConns, remoteBuffer, mu, acceptVars,
                 handler, readVars, writers, got, closed, lost>>

\* The goroutines the proxy starts, as far as nobody outside has to act.
AcceptLoop == AcceptFails \/ Register \/ TakeBuffer \/ SendBuffer
Handle(c) == HandlerSelect(c) \/ HandlerReadFails(c) \/ HandlerWrite(c) \/ HandlerReturns(c)
ReadLoop == ReaderGet \/ RemoteReadFails \/ Publish

ProxyNext == \/ AcceptLoop \/ ReadLoop \/ RemoteRead
             \/ \E c \in Conns : \/ Accept(c) \/ Handle(c) \/ HandlerRead(c) \/ UserCloses(c)
                                 \/ \E k \in 1 .. chunk : WriterWrites(c, k)

------------------------------------------------------------------------------
\* The last conjunct is the discipline of p.mu: a handler holds it while it writes.
ProxyTypeOK ==
  /\ running \in BOOLEAN /\ stopChan \in BOOLEAN
  /\ remoteConn \in Nat /\ readConn \in Nat
  /\ closed \subseteq Nat /\ lost \subseteq Nat
  /\ localConns \subseteq Conns
  /\ remoteBuffer \in Seq(1 .. MaxChunks)
  /\ mu \in Conns \cup {NoConn} /\ newConn \in Conns \cup {NoConn}
  /\ acceptor \in {"off", "accept", "register", "buffer", "send", "done"}
  /\ recent \subseteq 1 .. MaxChunks
  /\ handler \in [Conns -> {"off", "select", "read", "write", "return", "done"}]
  /\ reader \in {"off", "get", "read", "publish", "done"}
  /\ chunk \in 0 .. MaxChunks
  /\ writers \subseteq Conns \X (1 .. MaxChunks)
  /\ user \in [Conns -> {"new", "open", "closed"}]
  /\ got \in [Conns -> SUBSET (1 .. MaxChunks)]
  /\ \A c \in Conns : mu = c <=> handler[c] = "write"

\* The chunks that went to the buffer and to the connections present.
published == IF reader = "publish" THEN chunk - 1 ELSE chunk

\* What a connection has received or will receive from a goroutine already started.
Assured(c) == got[c] \cup {k \in 1 .. MaxChunks : <<c, k>> \in writers}

(* A local connection that has been sent the buffer sees the server's output     *)
(* without a gap from the first chunk it saw, however acceptLoop, remoteReadLoop *)
(* and the writing goroutines interleave: registering before copying the buffer  *)
(* leaves no chunk between the two (proxy.go:74-80).  It has the most recent     *)
(* chunks as well.  Chunks published after the buffer is full are the exception: *)
(* a connection that comes later does not get them (proxy.go:153).               *)
NoGap ==
  \A c \in localConns :
     (handler[c] # "off" /\ user[c] = "open") =>
        \A k \in 1 .. published :
           \/ k \in Assured(c)
           \/ k > BufferCap
           \/ k <= published - RecentCap /\ \A j \in 1 .. k : j \notin Assured(c)
==============================================================================
