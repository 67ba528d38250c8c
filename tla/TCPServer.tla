------------------------------ MODULE TCPServer ------------------------------
(***************************************************************************)
(* The client side of internal/server/server.go: acceptLoop, one           *)
(* handleClient goroutine per connection, Stop, and the arbiter whose      *)
(* methods they call.  The broadcast side is module BroadcastPath.         *)
(*                                                                         *)
(* Goroutines interleave between any two critical sections of s.mu and of  *)
(* the arbiter's mutex.  s.mu is a variable because the end of a handler   *)
(* calls the arbiter twice while it holds it; every other critical section *)
(* is one step.  A chunk is what one conn.Read returns.                    *)
(*                                                                         *)
(* A definition named for a fault (WriteTwice) that nothing uses is a      *)
(* faulty variant of the one that follows: a mutant of PROJECT.json puts   *)
(* it there, to see that a property notices the fault.                     *)
(***************************************************************************)
EXTENDS Naturals, Sequences

CONSTANTS Conns,        \* the connections that clients may make
          NoConn,
          Ids,          \* remote addresses: the client IDs
          NoId,
          IdOf,         \* the remote address of each connection
          Timers,       \* BOUND: timer objects at once (see Arbiter)
          NoTimer,
          MaxRetry,     \* attempts of the retry loop: 10 in the code
          MaxInput      \* BOUND: chunks all clients send together

ASSUME ConnAssumption == /\ NoConn \notin Conns
                         /\ IdOf \in [Conns -> Ids]
ASSUME LockAssumption == NoId \notin Ids /\ NoTimer \notin Timers
ASSUME BoundAssumption == MaxRetry \in Nat /\ MaxInput \in Nat

VARIABLES listener,     \* s.listener: "none" before Start, "open", "closed"
          running,      \* s.running
          clients,      \* s.clients, by id
          mu,           \* the handler inside s.mu, or NoConn
          accepted,     \* what acceptLoop accepted and has not yet registered
          conn,         \* state of each connection, as the server sees it
          inbox,        \* chunks sent and not yet read
          input,        \* number of chunks sent so far
          pc,           \* where the handler of each connection is
          tries,        \* failed attempts to acquire, for the current chunk
          buf,          \* the chunk the handler is dealing with, or 0
          port,         \* what the serial port was given: <<connection, chunk>>
          locked, owner, expireTimer, timer    \* the arbiter

netVars == <<conn, inbox, input>>
handlerVars == <<pc, tries, buf, port>>
serverVars == <<listener, running, clients, mu, accepted>>
lockVars == <<locked, owner, expireTimer, timer>>
vars == <<netVars, handlerVars, serverVars, lockVars>>

Lock == INSTANCE Arbiter WITH Clients <- Ids, NoClient <- NoId

\* The handler's program counter.  It is inside conn.Read ("read"), about to
\* call Acquire ("try") or Owner ("check") or serial.Write ("write"), about to
\* call ForceRelease with s.mu held ("cleanup"), or it has returned ("done").
Serving == {"read", "try", "check", "write"}

Goto(c, l) == pc' = [pc EXCEPT ![c] = l]

\* The handler has dealt with its chunk and reads the next one.
ReadOn(c) == Goto(c, "read") /\ buf' = [buf EXCEPT ![c] = 0]

------------------------------------------------------------------------------
Init == /\ listener = "none"
        /\ running = FALSE
        /\ clients = [i \in Ids |-> NoConn]
        /\ mu = NoConn
        /\ accepted = NoConn
        /\ conn = [c \in Conns |-> "new"]
        /\ inbox = [c \in Conns |-> <<>>]
        /\ input = 0
        /\ pc = [c \in Conns |-> "none"]
        /\ tries = [c \in Conns |-> 0]
        /\ buf = [c \in Conns |-> 0]
        /\ port = <<>>
        /\ Lock!Init

(* The clients and the network. *)

\* The kernel completes a connection; its address is not that of a connection
\* still open, but the handler of an earlier one may not have noticed its end.
Dial(c) == /\ listener = "open"
           /\ conn[c] = "new"
           /\ \A d \in Conns \ {c} : IdOf[d] = IdOf[c] => conn[d] \in {"new", "gone"}
           /\ conn' = [conn EXCEPT ![c] = "open"]
           /\ UNCHANGED <<inbox, input, handlerVars, serverVars, lockVars>>

Send(c) == /\ conn[c] = "open"
           /\ input < MaxInput
           /\ input' = input + 1
           /\ inbox' = [inbox EXCEPT ![c] = Append(@, input + 1)]
           /\ UNCHANGED <<conn, handlerVars, serverVars, lockVars>>

\* The client closes: the server can still read what is in flight, or the
\* connection was reset and it cannot.
Hangup(c) == /\ conn[c] = "open"
             /\ conn' = [conn EXCEPT ![c] = "gone"]
             /\ inbox' \in {inbox, [inbox EXCEPT ![c] = <<>>]}
             /\ UNCHANGED <<input, handlerVars, serverVars, lockVars>>

(* Start, acceptLoop and Stop. *)

Start == /\ listener = "none"
         /\ listener' = "open"
         /\ running' = TRUE
         /\ UNCHANGED <<clients, mu, accepted, netVars, handlerVars, lockVars>>

Accept(c) == /\ listener = "open"
             /\ accepted = NoConn
             /\ conn[c] # "new"
             /\ pc[c] = "none"
             /\ accepted' = c
             /\ UNCHANGED <<listener, running, clients, mu, netVars, handlerVars, lockVars>>

\* s.clients[client.id] = client, then the handler starts.
Register(c) == /\ accepted = c
               /\ mu = NoConn
               /\ clients' = [clients EXCEPT ![IdOf[c]] = c]
               /\ accepted' = NoConn
               /\ Goto(c, "read")
               /\ UNCHANGED <<listener, running, mu, tries, buf, port, netVars, lockVars>>

StopKeepsListener ==
  /\ running
  /\ mu = NoConn
  /\ conn' = [c \in Conns |-> IF clients[IdOf[c]] = c THEN "closed" ELSE conn[c]]
  /\ clients' = [i \in Ids |-> NoConn]
  /\ running' = FALSE
  /\ UNCHANGED <<listener, mu, accepted, inbox, input, handlerVars, lockVars>>

\* Stop while running; a second Stop returns at once.
Stop == /\ running
        /\ mu = NoConn
        /\ conn' = [c \in Conns |-> IF clients[IdOf[c]] = c THEN "closed" ELSE conn[c]]
        /\ clients' = [i \in Ids |-> NoConn]
        /\ listener' = "closed"
        /\ running' = FALSE
        /\ UNCHANGED <<mu, accepted, inbox, input, handlerVars, lockVars>>

(* handleClient. *)

\* conn.Read returns a chunk; a handler whose client owns the lock skips Acquire.
Read(c) == /\ pc[c] = "read"
           /\ conn[c] \in {"open", "gone"}
           /\ inbox[c] # <<>>
           /\ buf' = [buf EXCEPT ![c] = Head(inbox[c])]
           /\ inbox' = [inbox EXCEPT ![c] = Tail(@)]
           /\ Goto(c, IF owner = IdOf[c] THEN "check" ELSE "try")
           /\ UNCHANGED <<conn, input, tries, port, serverVars, lockVars>>

AttemptOnceMore(c) ==
  /\ pc[c] = "try"
  /\ \/ /\ Lock!Acquire(IdOf[c])
        /\ Goto(c, "check")
        /\ tries' = [tries EXCEPT ![c] = 0]
     \/ /\ locked
        /\ IF tries[c] <= MaxRetry
           THEN tries' = [tries EXCEPT ![c] = @ + 1] /\ UNCHANGED pc
           ELSE tries' = [tries EXCEPT ![c] = 0] /\ Goto(c, "check")
        /\ UNCHANGED lockVars
  /\ UNCHANGED <<buf, port, netVars, serverVars>>

\* The first Acquire and the MaxRetry ones of the loop: the handler goes on when
\* one succeeds or when all have failed.  It sleeps in between, holding nothing.
Attempt(c) ==
  /\ pc[c] = "try"
  /\ \/ /\ Lock!Acquire(IdOf[c])
        /\ Goto(c, "check")
        /\ tries' = [tries EXCEPT ![c] = 0]
     \/ /\ locked
        /\ IF tries[c] < MaxRetry
           THEN tries' = [tries EXCEPT ![c] = @ + 1] /\ UNCHANGED pc
           ELSE tries' = [tries EXCEPT ![c] = 0] /\ Goto(c, "check")
        /\ UNCHANGED lockVars
  /\ UNCHANGED <<buf, port, netVars, serverVars>>

CheckDropsClient(c) ==
  /\ pc[c] = "check"
  /\ IF owner = IdOf[c] THEN Goto(c, "write") /\ UNCHANGED buf ELSE ReadOn(c)
  /\ clients' = IF owner = IdOf[c] THEN clients ELSE [clients EXCEPT ![IdOf[c]] = NoConn]
  /\ UNCHANGED <<listener, running, mu, accepted, tries, port, netVars, lockVars>>

\* Only the owner goes on to write; anyone else's chunk is dropped here.
Check(c) == /\ pc[c] = "check"
            /\ IF owner = IdOf[c] THEN Goto(c, "write") /\ UNCHANGED buf ELSE ReadOn(c)
            /\ UNCHANGED <<tries, port, netVars, serverVars, lockVars>>

WriteTwice(c) == /\ pc[c] = "write"
                 /\ port' = Append(port, <<c, buf[c]>>)
                 /\ Goto(c, "check")
                 /\ UNCHANGED <<tries, buf, netVars, serverVars, lockVars>>

\* serial.Write, under no mutex.  Its result is ignored: the port gets the chunk, or the
\* beginning of it, or the write fails and the chunk is lost.
Write(c) == /\ pc[c] = "write"
            /\ port' \in {port, Append(port, <<c, buf[c]>>)}
            /\ ReadOn(c)
            /\ UNCHANGED <<tries, netVars, serverVars, lockVars>>

\* conn.Read fails: at once when Stop closed the connection, else when everything
\* in flight was read.
ReadFails(c) == /\ pc[c] = "read"
                /\ conn[c] = "closed" \/ (conn[c] = "gone" /\ inbox[c] = <<>>)

DisconnectKeepsLock(c) ==
  /\ ReadFails(c)
  /\ mu = NoConn
  /\ clients' = [clients EXCEPT ![IdOf[c]] = NoConn]
  /\ Goto(c, "done")
  /\ UNCHANGED <<listener, running, mu, accepted, tries, buf, port, netVars, lockVars>>

DisconnectKeepsEntry(c) ==
  /\ ReadFails(c)
  /\ mu = NoConn
  /\ IF owner = IdOf[c]
     THEN Goto(c, "cleanup") /\ mu' = c
     ELSE Goto(c, "done") /\ UNCHANGED mu
  /\ UNCHANGED <<listener, running, clients, accepted, tries, buf, port, netVars, lockVars>>

\* Under s.mu the handler deletes the entry of its id, whoever's it is by now,
\* and asks for the owner.  It never closes its connection.
Disconnect(c) ==
  /\ ReadFails(c)
  /\ mu = NoConn
  /\ clients' = [clients EXCEPT ![IdOf[c]] = NoConn]
  /\ IF owner = IdOf[c]
     THEN Goto(c, "cleanup") /\ mu' = c
     ELSE Goto(c, "done") /\ UNCHANGED mu
  /\ UNCHANGED <<listener, running, accepted, tries, buf, port, netVars, lockVars>>

CleanupKeepsMutex(c) ==
  /\ pc[c] = "cleanup"
  /\ \/ Lock!ForceRelease(IdOf[c])
     \/ owner # IdOf[c] /\ UNCHANGED lockVars
  /\ Goto(c, "done")
  /\ UNCHANGED <<mu, listener, running, clients, accepted, tries, buf, port, netVars>>

CleanupAnyOwner(c) ==
  /\ pc[c] = "cleanup"
  /\ IF locked THEN Lock!Free ELSE UNCHANGED lockVars
  /\ mu' = NoConn
  /\ Goto(c, "done")
  /\ UNCHANGED <<listener, running, clients, accepted, tries, buf, port, netVars>>

\* ForceRelease, which looks at the owner again: the lease may have expired since.
Cleanup(c) ==
  /\ pc[c] = "cleanup"
  /\ \/ Lock!ForceRelease(IdOf[c])
     \/ owner # IdOf[c] /\ UNCHANGED lockVars
  /\ mu' = NoConn
  /\ Goto(c, "done")
  /\ UNCHANGED <<listener, running, clients, accepted, tries, buf, port, netVars>>

(* The arbiter's timers. *)
LeaseStep(t) == /\ Lock!Fire(t) \/ Lock!Expire(t)
                /\ UNCHANGED <<netVars, handlerVars, serverVars>>

Handler(c) == Read(c) \/ Attempt(c) \/ Check(c) \/ Write(c) \/ Disconnect(c) \/ Cleanup(c)

Next == \/ Start
        \/ Stop
        \/ \E c \in Conns : \/ Dial(c) \/ Send(c) \/ Hangup(c)
                            \/ Accept(c) \/ Register(c) \/ Handler(c)
        \/ \E t \in Timers : LeaseStep(t)

Spec == Init /\ [][Next]_vars

\* The Go scheduler runs every goroutine that can run, and timers fire.  Clients
\* need not do anything, and nobody has to start or to stop the server.  serial.Write
\* need not return: on Windows and macOS it waits behind a Read of a silent device
\* (SerialPort).
Fairness == /\ WF_vars(\E c \in Conns : Register(c))
            /\ \A c \in Conns : WF_vars(\/ Read(c) \/ Attempt(c) \/ Check(c)
                                       \/ Disconnect(c) \/ Cleanup(c))
            /\ \A t \in Timers : WF_vars(LeaseStep(t))

FairSpec == Spec /\ Fairness

------------------------------------------------------------------------------
(* Properties. *)

\* Types.  The retry loop never exceeds its bound, and an entry of the registry
\* is a connection of that address.
TypeOK ==
  /\ listener \in {"none", "open", "closed"}
  /\ running \in BOOLEAN
  /\ clients \in [Ids -> Conns \cup {NoConn}]
  /\ \A i \in Ids : clients[i] # NoConn => IdOf[clients[i]] = i
  /\ mu \in Conns \cup {NoConn}
  /\ accepted \in Conns \cup {NoConn}
  /\ conn \in [Conns -> {"new", "open", "gone", "closed"}]
  /\ inbox \in [Conns -> Seq(1 .. MaxInput)]
  /\ input \in 0 .. MaxInput
  /\ pc \in [Conns -> Serving \cup {"none", "cleanup", "done"}]
  /\ tries \in [Conns -> 0 .. MaxRetry]
  /\ buf \in [Conns -> 0 .. MaxInput]
  /\ port \in Seq(Conns \X (1 .. MaxInput))

\* The lock is never owned by an address without a running handler: whatever the
\* order of expiry, re-acquisition and disconnection, the last handler of an
\* address leaves the lock to others.
OwnerHasHandler ==
  owner # NoId => \E c \in Conns : /\ IdOf[c] = owner
                                   /\ pc[c] \in Serving \cup {"cleanup"}

\* Every client that broadcastLoop would write to has a running handler: no
\* disconnected client stays in the registry.
NoGhostClient == \A i \in Ids : clients[i] # NoConn => pc[clients[i]] \in Serving

\* While the server runs, a connection that is served is in the registry, unless
\* another connection had the same address: the end of one deletes the entry of
\* the other.
RegisteredUnlessReused ==
  \A c \in Conns :
    /\ running
    /\ pc[c] \in Serving
    /\ \A d \in Conns \ {c} : IdOf[d] = IdOf[c] => conn[d] = "new"
    => clients[IdOf[c]] = c

\* The port gets the chunks of a connection in the order they were sent, none of
\* them twice, whatever was dropped.
PortOrder == \A j \in 1 .. Len(port) : \A i \in 1 .. j - 1 :
               port[i][1] = port[j][1] => port[i][2] < port[j][2]

\* A handler whose connection ended returns, so that (OwnerHasHandler) a client that
\* went away does not keep the lock, provided that its own serial.Write calls return:
\* whatever the others do, also one that is in serial.Write for ever, no handler waits
\* for ever for the lock or for s.mu.
DisconnectCleansUp ==
  \A c \in Conns : []<>(pc[c] # "write") =>
    ((conn[c] \in {"gone", "closed"} /\ pc[c] # "none") ~> (pc[c] = "done"))

\* Clients do not write to the serial port at the same time (README.md:9: the
\* exclusive write lock keeps the input of several people apart).
OneWriter == \A c, d \in Conns :
               pc[c] = "write" /\ pc[d] = "write" => IdOf[c] = IdOf[d]

\* A client loses the lock only when a connection from its own address has ended, or to
\* a timer that was armed for it: between the owner being looked at and ForceRelease the
\* lease may expire and another client may get the lock, and that client keeps it
\* (server.go:112-114).
LockLostByOwner ==
  [][(locked /\ owner' # owner) =>
       \/ \E c \in Conns : /\ IdOf[c] = owner
                            /\ conn[c] \in {"gone", "closed"}
                            /\ pc[c] = "cleanup" /\ pc'[c] = "done"
       \/ \E t \in Timers : Lock!Expire(t) /\ timer[t].client = owner]_vars

\* A stopped server has at most one client: the connection that acceptLoop had accepted
\* and not yet registered when Stop emptied the registry (server.go:80-93, 175-184).
LateClientAtMostOne ==
  (listener # "none" /\ ~running) =>
     \A i, j \in Ids : clients[i] # NoConn =>
        /\ accepted = NoConn
        /\ clients[j] # NoConn => i = j
==============================================================================
