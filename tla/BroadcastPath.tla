---------------------------- MODULE BroadcastPath ----------------------------
(***************************************************************************)
(* The way of the serial data to the clients: readSerialAndBroadcast of    *)
(* cmd/server/main.go, the channel s.broadcast and broadcastLoop of        *)
(* internal/server/server.go, one socket per client, and the shutdown of   *)
(* main, which closes stopChan and then calls Stop.                        *)
(*                                                                         *)
(* The chunks read from the port are numbered from 1.  A connection is     *)
(* accepted in one step and registered in another; the write lock and the  *)
(* input of the clients are in TCPServer.                                  *)
(* A panic ends the process, so every step needs ~panicked.                *)
(*                                                                         *)
(* A definition named for a fault (BroadcastOrDrop) that nothing uses is a *)
(* faulty variant of the one that follows: a mutant of PROJECT.json puts   *)
(* it there, to see that a property notices the fault.                     *)
(***************************************************************************)
EXTENDS Naturals, Sequences, Functions

CONSTANTS Clients,      \* the connections that clients may make
          NoClient,
          IdChoices,    \* what the remote addresses of the connections may be
          QueueCap,     \* capacity of s.broadcast: 1024 in the code
          SockCap,      \* BOUND: chunks that fit into the socket buffers of a client
          MaxChunks     \* BOUND: chunks the serial port delivers

ASSUME ClientAssumption == NoClient \notin Clients
ASSUME IdAssumption == \A f \in IdChoices : DOMAIN f = Clients
ASSUME CapAssumption == /\ QueueCap \in Nat \ {0}
                        /\ SockCap \in Nat \ {0}
                        /\ MaxChunks \in Nat

VARIABLES id,           \* client.id of each connection: its remote address
          reader,       \* readSerialAndBroadcast: "select", "read", "send", "done"
          last,         \* number of chunks read from the port; the last one
          stopChan,     \* stopChan is closed
          queue,        \* s.broadcast
          running,      \* s.running; false once Stop has closed s.broadcast
          clients,      \* s.clients, at most one of an address
          accepting,    \* what acceptLoop accepted and has not yet registered, or NoClient
          returned,     \* the connections whose handleClient has returned
          looping,      \* broadcastLoop has not returned
          chunk,        \* dataCopy, the chunk broadcastLoop writes
          target,       \* the client broadcastLoop writes to, or NoClient
          todo,         \* the rest of its snapshot of the clients
          conn,         \* state of each connection
          sock,         \* chunks written to a client and not yet read by it
          got,          \* chunks each client has read
          stalled,      \* the clients that have stopped reading for good
          panicked      \* the process died of a send on a closed channel

readerVars == <<reader, last>>
registryVars == <<id, clients, accepting, returned>>
loopVars == <<looping, chunk, target, todo>>
netVars == <<conn, sock, got, stalled>>
vars == <<readerVars, stopChan, queue, running, registryVars, loopVars, netVars, panicked>>

------------------------------------------------------------------------------
\* Main has started the server and its goroutines; nobody is connected.
Init == /\ id \in IdChoices
        /\ reader = "select"
        /\ last = 0
        /\ stopChan = FALSE
        /\ queue = <<>>
        /\ running = TRUE
        /\ clients = {}
        /\ accepting = NoClient
        /\ returned = {}
        /\ looping = TRUE
        /\ chunk = 0
        /\ target = NoClient
        /\ todo = {}
        /\ conn = [c \in Clients |-> "new"]
        /\ sock = [c \in Clients |-> <<>>]
        /\ got = [c \in Clients |-> <<>>]
        /\ stalled = {}
        /\ panicked = FALSE

(* readSerialAndBroadcast. *)

\* select: return when stopChan is closed, else go on to port.Read.
Select == /\ ~panicked
          /\ reader = "select"
          /\ reader' = IF stopChan THEN "done" ELSE "read"
          /\ UNCHANGED <<last, stopChan, queue, running, registryVars, loopVars, netVars, panicked>>

\* port.Read returns data, or an error or nothing; until then the reader blocks.
ReadSerial == /\ ~panicked
              /\ reader = "read"
              /\ \/ /\ last < MaxChunks
                    /\ last' = last + 1
                    /\ reader' = "send"
                 \/ /\ reader' = "select"
                    /\ UNCHANGED last
              /\ UNCHANGED <<stopChan, queue, running, registryVars, loopVars, netVars, panicked>>

BroadcastOrDrop ==
  /\ ~panicked
  /\ reader = "send"
  /\ IF running
     THEN /\ queue' = IF Len(queue) < QueueCap THEN Append(queue, last) ELSE queue
          /\ reader' = "select"
          /\ UNCHANGED panicked
     ELSE /\ panicked' = TRUE
          /\ UNCHANGED <<queue, reader>>
  /\ UNCHANGED <<last, stopChan, running, registryVars, loopVars, netVars>>

BroadcastUnbounded ==
  /\ ~panicked
  /\ reader = "send"
  /\ IF running
     THEN /\ queue' = Append(queue, last)
          /\ reader' = "select"
          /\ UNCHANGED panicked
     ELSE /\ panicked' = TRUE
          /\ UNCHANGED <<queue, reader>>
  /\ UNCHANGED <<last, stopChan, running, registryVars, loopVars, netVars>>

\* srv.Broadcast(data): the send waits for room, and panics once the channel is
\* closed, also when it was already waiting.
Broadcast ==
  /\ ~panicked
  /\ reader = "send"
  /\ IF running
     THEN /\ Len(queue) < QueueCap
          /\ queue' = Append(queue, last)
          /\ reader' = "select"
          /\ UNCHANGED panicked
     ELSE /\ panicked' = TRUE
          /\ UNCHANGED <<queue, reader>>
  /\ UNCHANGED <<last, stopChan, running, registryVars, loopVars, netVars>>

(* broadcastLoop. *)

\* The loop goes on to some client of S, in the order of its snapshot, or back to
\* the channel.
WriteNext(S) == IF S = {}
                THEN target' = NoClient /\ todo' = {}
                ELSE \E c \in S : target' = c /\ todo' = S \ {c}

\* The loop takes a chunk and, under s.mu, a snapshot of the clients.
Dequeue == /\ ~panicked
           /\ looping
           /\ target = NoClient
           /\ queue # <<>>
           /\ chunk' = Head(queue)
           /\ queue' = Tail(queue)
           /\ WriteNext(clients)
           /\ UNCHANGED <<readerVars, stopChan, running, registryVars, looping, netVars, panicked>>

\* range ends: the channel is closed and drained.
EndLoop == /\ ~panicked
           /\ looping
           /\ target = NoClient
           /\ queue = <<>>
           /\ ~running
           /\ looping' = FALSE
           /\ UNCHANGED <<readerVars, stopChan, queue, running, registryVars, chunk, target,
                          todo, netVars, panicked>>

WriteOrSkip == /\ ~panicked
               /\ target # NoClient
               /\ sock' = IF conn[target] = "open" /\ Len(sock[target]) < SockCap
                          THEN [sock EXCEPT ![target] = Append(@, chunk)]
                          ELSE sock
               /\ WriteNext(todo)
               /\ UNCHANGED <<readerVars, stopChan, queue, running, registryVars, looping, chunk,
                              conn, got, stalled, panicked>>

\* conn.Write, holding no mutex: it blocks while the socket buffers of an open
\* connection are full, and its error on any other connection is ignored.
Write == /\ ~panicked
         /\ target # NoClient
         /\ IF conn[target] = "open"
            THEN /\ Len(sock[target]) < SockCap
                 /\ sock' = [sock EXCEPT ![target] = Append(@, chunk)]
            ELSE UNCHANGED sock
         /\ WriteNext(todo)
         /\ UNCHANGED <<readerVars, stopChan, queue, running, registryVars, looping, chunk,
                        conn, got, stalled, panicked>>

(* The clients and their handlers. *)

\* listener.Accept returns a connection.  Its address is not that of a connection still
\* open, but the handler of an earlier one may not have noticed its end.  Stop has closed
\* the listener once the server no longer runs.
Accept(c) == /\ ~panicked
             /\ running
             /\ accepting = NoClient
             /\ conn[c] = "new"
             /\ \A d \in Clients : id[d] = id[c] => conn[d] # "open"
             /\ conn' = [conn EXCEPT ![c] = "open"]
             /\ accepting' = c
             /\ UNCHANGED <<id, readerVars, stopChan, queue, running, clients, returned, loopVars,
                            sock, got, stalled, panicked>>

\* Everybody but those of c's address.
Others(c) == {d \in clients : id[d] # id[c]}

RegisterSeenByLoop ==
  /\ ~panicked
  /\ accepting # NoClient
  /\ clients' = Others(accepting) \cup {accepting}
  /\ todo' = IF target = NoClient THEN todo ELSE todo \cup {accepting}
  /\ accepting' = NoClient
  /\ UNCHANGED <<id, readerVars, stopChan, queue, running, returned, looping, chunk, target,
                 netVars, panicked>>

\* s.clients[client.id] = client, whether or not the server still runs.
Register ==
  /\ ~panicked
  /\ accepting # NoClient
  /\ clients' = Others(accepting) \cup {accepting}
  /\ accepting' = NoClient
  /\ UNCHANGED <<id, readerVars, stopChan, queue, running, returned, loopVars, netVars, panicked>>

\* The client closes its connection; what it has not read is lost.
Leave(c) == /\ ~panicked
            /\ conn[c] = "open"
            /\ conn' = [conn EXCEPT ![c] = "gone"]
            /\ sock' = [sock EXCEPT ![c] = <<>>]
            /\ UNCHANGED <<readerVars, stopChan, queue, running, registryVars, loopVars, got,
                           stalled, panicked>>

\* handleClient notices the end of its connection, deletes the entry of its address,
\* whoever's it is by now, and returns.
Remove(c) == /\ ~panicked
             /\ conn[c] \in {"gone", "closed"}
             /\ c # accepting
             /\ c \notin returned
             /\ clients' = Others(c)
             /\ returned' = returned \cup {c}
             /\ UNCHANGED <<id, readerVars, stopChan, queue, running, accepting, loopVars, netVars,
                            panicked>>

ClientRead(c) == /\ ~panicked
                 /\ conn[c] \in {"open", "closed"}
                 /\ c \notin stalled
                 /\ sock[c] # <<>>
                 /\ got' = [got EXCEPT ![c] = Append(@, Head(sock[c]))]
                 /\ sock' = [sock EXCEPT ![c] = Tail(@)]
                 /\ UNCHANGED <<readerVars, stopChan, queue, running, registryVars, loopVars,
                                conn, stalled, panicked>>

\* The client hangs or its host is gone without a word: the connection stays open.
Stall(c) == /\ ~panicked
            /\ conn[c] = "open"
            /\ c \notin stalled
            /\ stalled' = stalled \cup {c}
            /\ UNCHANGED <<readerVars, stopChan, queue, running, registryVars, loopVars, conn,
                           sock, got, panicked>>

(* The shutdown of main. *)

\* A signal arrives: close(stopChan).
Signal == /\ ~panicked
          /\ ~stopChan
          /\ stopChan' = TRUE
          /\ UNCHANGED <<readerVars, queue, running, registryVars, loopVars, netVars, panicked>>

StopAfterWrites ==
  /\ ~panicked
  /\ stopChan
  /\ running
  /\ target = NoClient
  /\ conn' = [c \in Clients |-> IF c \in clients THEN "closed" ELSE conn[c]]
  /\ clients' = {}
  /\ running' = FALSE
  /\ UNCHANGED <<id, readerVars, stopChan, queue, accepting, returned, loopVars, sock, got,
                 stalled, panicked>>

\* srv.Stop(): close every registered connection and s.broadcast.
Stop ==
  /\ ~panicked
  /\ stopChan
  /\ running
  /\ conn' = [c \in Clients |-> IF c \in clients THEN "closed" ELSE conn[c]]
  /\ clients' = {}
  /\ running' = FALSE
  /\ UNCHANGED <<id, readerVars, stopChan, queue, accepting, returned, loopVars, sock, got,
                 stalled, panicked>>

Reader == Select \/ ReadSerial \/ Broadcast
Loop == Dequeue \/ Write \/ EndLoop

Next == \/ Reader \/ Loop \/ Register \/ Signal \/ Stop
        \/ \E c \in Clients : \/ Accept(c) \/ Leave(c) \/ Remove(c)
                              \/ ClientRead(c) \/ Stall(c)

Spec == Init /\ [][Next]_vars

\* Goroutines that can run do, and a client that has not stalled reads what it
\* was sent.  The serial port need not deliver anything, and no signal need come.
Fairness == /\ WF_vars(Select \/ Broadcast)
            /\ WF_vars(Loop)
            /\ WF_vars(Register)
            /\ WF_vars(Stop)
            /\ \A c \in Clients : WF_vars(ClientRead(c))

FairSpec == Spec /\ Fairness

------------------------------------------------------------------------------
(* Properties. *)

Chunks == 1 .. MaxChunks

\* Types; the queue and the sockets never exceed their capacity, and an address has one
\* entry in the registry.
TypeOK == /\ id \in IdChoices
          /\ reader \in {"select", "read", "send", "done"}
          /\ last \in 0 .. MaxChunks
          /\ stopChan \in BOOLEAN
          /\ queue \in Seq(Chunks) /\ Len(queue) <= QueueCap
          /\ running \in BOOLEAN
          /\ clients \subseteq Clients
          /\ \A c, d \in clients : id[c] = id[d] => c = d
          /\ accepting \in Clients \cup {NoClient}
          /\ returned \subseteq Clients
          /\ looping \in BOOLEAN
          /\ chunk \in 0 .. MaxChunks
          /\ target \in Clients \cup {NoClient}
          /\ todo \subseteq Clients
          /\ conn \in [Clients -> {"new", "open", "gone", "closed"}]
          /\ sock \in [Clients -> Seq(Chunks)]
          /\ \A c \in Clients : Len(sock[c]) <= SockCap
          /\ got \in [Clients -> Seq(Chunks)]
          /\ stalled \subseteq Clients
          /\ panicked \in BOOLEAN

\* Everything written to client c, in order.
Stream(c) == got[c] \o sock[c]

\* What a client sees is a gapless piece of the serial stream, in order and
\* without repetition, however slow it and the others are.
GaplessStream ==
  \A c \in Clients : \A i \in 2 .. Len(Stream(c)) :
    Stream(c)[i] = Stream(c)[i - 1] + 1

Delivered(c, k) == \E i \in DOMAIN got[c] : got[c][i] = k

\* The handler of another connection from c's address has deleted c's entry: c is open
\* and gets no more broadcasts.
Forgotten(c) == /\ c \notin clients
                /\ \E d \in returned : d # c /\ id[d] = id[c]

\* The chunk is in the reader's hands or in the channel.
OnItsWay(k) == k \in Range(queue) \/ (reader = "send" /\ k = last)

\* While everybody reads, each chunk that was read from the port reaches every client
\* that is registered, also when the channel is full, unless the client goes away, the
\* server stops, or an earlier connection from the same address makes the server forget
\* the client.
ReadChunkArrives ==
  \A c \in Clients, k \in Chunks :
    (c \in clients /\ OnItsWay(k)) ~>
      \/ Delivered(c, k)
      \/ conn[c] # "open"
      \/ Forgotten(c)
      \/ \E d \in Clients : d \in stalled
      \/ panicked

\* The loop owes its chunk to the client it writes to and to the rest of its snapshot.
Owed(c) == c = target \/ c \in todo

\* What a client was given, with the chunk the loop owes it while it is connected.
Given(c) == Stream(c) \o IF conn[c] = "open" /\ Owed(c) THEN <<chunk>> ELSE <<>>

\* What a connection is to the abstract broadcast.
Phase(c) == IF conn[c] = "new" \/ (conn[c] = "open" /\ c = accepting) THEN "new"
            ELSE IF conn[c] # "open" THEN "ended"
            ELSE IF c \in clients THEN "member" ELSE "forgotten"

\* The path broadcasts atomically, as AtomicBroadcast specifies it: although the loop
\* writes to one client after the other, blocks in between, and clients join, leave, are
\* forgotten and are closed meanwhile, it is as if every client registered when the loop
\* takes a chunk were given it at once; and a connected client stops being one of them
\* only when an earlier connection from its address has ended.
Atomic == INSTANCE AtomicBroadcast
            WITH produced <- last,
                 sent <- chunk,
                 phase <- [c \in Clients |-> Phase(c)],
                 stream <- [c \in Clients |-> Given(c)]
ImplementsAtomicBroadcast == Atomic!Spec

\* Stop did not close c: it was registered after Stop, or was no longer registered.
Overlooked(c) == ~running /\ conn[c] = "open" /\ (c \in clients \/ Forgotten(c))

\* A signal ends broadcastLoop, also when it is blocked in a Write to a stalled client:
\* Stop needs s.mu only, and it closes that connection.  The only clients that can keep
\* the loop, by not reading, are those that Stop overlooks.
ShutdownEndsLoop ==
  stopChan ~> \/ ~looping
              \/ panicked
              \/ \E c \in stalled : c = target /\ Overlooked(c) /\ Len(sock[c]) = SockCap

\* A stalled client does not affect the others (README.md:8): a chunk that was read from
\* the port still reaches every client that reads.
OthersUnaffected ==
  \A c \in Clients, k \in Chunks :
    (c \in clients /\ OnItsWay(k)) ~>
      \/ Delivered(c, k)
      \/ conn[c] # "open"
      \/ Forgotten(c)
      \/ c \in stalled
      \/ panicked

\* Reading has stopped before the channel is closed (cmd/server/main.go:94: stop
\* reading data first), so nothing is sent on the closed channel.
NoSendAfterClose == ~panicked
==============================================================================
