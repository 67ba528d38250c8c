--------------------------- MODULE BroadcastProofs ---------------------------
(***************************************************************************)
(* The stream that clients see, for any number of clients, any capacities  *)
(* and any amount of data.                                                 *)
(*                                                                         *)
(* GaplessStream is not inductive: that the next chunk fits to what a      *)
(* client has needs to know where every chunk in flight is.  InOrder says  *)
(* that the loop, the channel and the reader hold consecutive numbers;     *)
(* Piece says that a client's stream is a run of consecutive numbers that  *)
(* ends, while the client is registered, with the loop's chunk or the one  *)
(* before it, depending on whether the loop still has to write to it.      *)
(***************************************************************************)
EXTENDS BroadcastPath, Integers, SequenceTheorems, TLAPS

\* s counts on from b + 1.
Consecutive(s, b) == \A i \in 1 .. Len(s) : s[i] = b + i

\* Chunks read and not yet in the channel.
InHand == IF reader = "send" THEN 1 ELSE 0

\* The loop's chunk, the channel and the reader's chunk are consecutive.
InOrder == /\ Consecutive(queue, chunk)
           /\ last = chunk + Len(queue) + InHand

\* The client the loop writes to is not also in the rest of its snapshot, and the loop
\* has no rest when it writes to nobody.
Snapshot == /\ target \notin todo
            /\ target = NoClient => todo = {}
            /\ target # NoClient => chunk \in Chunks

\* Who never connected or is not registered yet is owed nothing and has nothing.
Newcomer(c) == conn[c] = "new" \/ c = accepting
Registry == \A c \in Clients :
              Newcomer(c) => /\ c \notin clients /\ ~Owed(c)
                             /\ got[c] = <<>> /\ sock[c] = <<>>

\* Of the connections from one address one is open at most, and none is while another
\* has been accepted and is not registered yet.
Addresses == /\ \A c, d \in Clients :
                  conn[c] = "open" /\ conn[d] = "open" /\ id[c] = id[d] => c = d
             /\ accepting \in Clients =>
                  /\ conn[accepting] # "new"
                  /\ \A d \in Clients : d # accepting /\ id[d] = id[accepting] => conn[d] # "open"

\* b is the number of the chunk before the first one c was sent.
Run(c, b) == /\ Consecutive(got[c], b)
             /\ Consecutive(sock[c], b + Len(got[c]))
             /\ /\ conn[c] = "open" /\ (c \in clients \/ Owed(c))
                /\ Len(got[c]) + Len(sock[c]) > 0
                => /\ Owed(c) => b + Len(got[c]) + Len(sock[c]) = chunk - 1
                   /\ ~Owed(c) => b + Len(got[c]) + Len(sock[c]) = chunk

Piece == \A c \in Clients : \E b \in Int : Run(c, b)

Inv == TypeOK /\ InOrder /\ Snapshot /\ Registry /\ Addresses /\ Piece

\* Going on to the next client keeps the types and uses up the set exactly.
LEMMA WriteNextUsesUp ==
  ASSUME NEW S, S \subseteq Clients, WriteNext(S)
  PROVE  /\ target' \in Clients \cup {NoClient}
         /\ todo' \subseteq Clients
         /\ target' \notin todo'
         /\ target' = NoClient => todo' = {}
         /\ \A c \in Clients : (c = target' \/ c \in todo') <=> c \in S
<1>1. CASE S = {}
  BY <1>1, ClientAssumption DEF WriteNext
<1>2. CASE S # {}
  BY <1>2, ClientAssumption DEF WriteNext
<1> QED
  BY <1>1, <1>2

\* A client that was sent nothing counts on from anywhere.
LEMMA EmptyCounts == ASSUME NEW b PROVE Consecutive(<<>>, b)
BY DEF Consecutive

\* What Broadcast, Write and ClientRead append keeps a sequence counting on.
LEMMA AppendCounts ==
  ASSUME NEW s \in Seq(Chunks), NEW b \in Int, Consecutive(s, b),
         NEW x \in Chunks, x = b + Len(s) + 1
  PROVE  /\ Append(s, x) \in Seq(Chunks)
         /\ Len(Append(s, x)) = Len(s) + 1
         /\ Consecutive(Append(s, x), b)
BY DEF Consecutive

\* What Dequeue and ClientRead leave counts on behind the chunk they take.
LEMMA TailCounts ==
  ASSUME NEW s \in Seq(Chunks), s # <<>>, NEW b \in Int, Consecutive(s, b)
  PROVE  /\ Len(s) \in Nat /\ Len(s) > 0
         /\ Head(s) \in Chunks /\ Head(s) = b + 1
         /\ Tail(s) \in Seq(Chunks)
         /\ Len(Tail(s)) = Len(s) - 1
         /\ Consecutive(Tail(s), b + 1)
<1>1. /\ Len(s) \in Nat /\ Len(s) > 0
      /\ Head(s) \in Chunks
      /\ Tail(s) \in Seq(Chunks)
      /\ Len(Tail(s)) = Len(s) - 1
      /\ Head(s) = s[1]
  OBVIOUS
<1>2. Head(s) = b + 1
  BY <1>1 DEF Consecutive
<1>3. \A i \in 1 .. Len(Tail(s)) : Tail(s)[i] = b + 1 + i
  <2> TAKE i \in 1 .. Len(Tail(s))
  <2>1. i + 1 \in 1 .. Len(s) /\ Tail(s)[i] = s[i + 1]
    BY <1>1
  <2> QED
    BY <2>1 DEF Consecutive
<1> QED
  BY <1>1, <1>2, <1>3 DEF Consecutive

\* Two runs, one of them going on where the other ends, have no gap together.
LEMMA JoinedRunIsGapless ==
  ASSUME NEW g \in Seq(Chunks), NEW s \in Seq(Chunks), NEW b \in Int,
         Consecutive(g, b), Consecutive(s, b + Len(g))
  PROVE  \A i \in 2 .. Len(g \o s) : (g \o s)[i] = (g \o s)[i - 1] + 1
<1>1. Len(g \o s) \in Nat /\ Len(g \o s) = Len(g) + Len(s)
  OBVIOUS
<1>2. \A j \in 1 .. Len(g \o s) : (g \o s)[j] = b + j
  BY DEF Consecutive
<1> TAKE i \in 2 .. Len(g \o s)
<1>3. i \in 1 .. Len(g \o s) /\ i - 1 \in 1 .. Len(g \o s) /\ i \in Int
  BY <1>1
<1>4. (g \o s)[i] = b + i /\ (g \o s)[i - 1] = b + (i - 1)
  BY <1>2, <1>3
<1> QED
  BY <1>3, <1>4

\* When main has started the server nothing has been read or sent.
LEMMA InitInv == Init => Inv
<1> SUFFICES ASSUME Init PROVE Inv
  OBVIOUS
<1>1. /\ conn = [c \in Clients |-> "new"]
      /\ sock = [c \in Clients |-> <<>>]
      /\ got = [c \in Clients |-> <<>>]
      /\ queue = <<>> /\ last = 0 /\ chunk = 0
      /\ reader = "select" /\ target = NoClient /\ todo = {}
      /\ clients = {} /\ accepting = NoClient
  BY DEF Init
<1>2. TypeOK
  <2>1. <<>> \in Seq(Chunks) /\ Len(<<>>) = 0
    OBVIOUS
  <2>2. 0 \in 0 .. MaxChunks /\ 0 <= QueueCap /\ 0 <= SockCap
    BY CapAssumption
  <2>3. /\ sock \in [Clients -> Seq(Chunks)]
        /\ got \in [Clients -> Seq(Chunks)]
        /\ conn \in [Clients -> {"new", "open", "gone", "closed"}]
        /\ \A c \in Clients : Len(sock[c]) <= SockCap
    BY <1>1, <2>1, <2>2
  <2>4. queue \in Seq(Chunks) /\ Len(queue) <= QueueCap
    BY <1>1, <2>1, <2>2
  <2> QED
    BY <1>1, <2>2, <2>3, <2>4 DEF Init, TypeOK
<1>3. InOrder
  BY <1>1, EmptyCounts DEF InOrder, InHand
<1>4. Snapshot /\ Registry /\ Addresses
  BY <1>1, ClientAssumption DEF Snapshot, Registry, Newcomer, Owed, Addresses
<1>5. ASSUME NEW c \in Clients PROVE Run(c, 0)
  BY <1>1, EmptyCounts DEF Run
<1> QED
  BY <1>2, <1>3, <1>4, <1>5 DEF Inv, Piece

\* A step that leaves the loop and what c has alone leaves c's run.
LEMMA RunFrame ==
  ASSUME NEW c \in Clients, NEW b \in Int, Run(c, b),
         got'[c] = got[c], sock'[c] = sock[c], UNCHANGED loopVars,
         conn'[c] = "open" => conn[c] = "open",
         c \in clients' => c \in clients
  PROVE  Run(c, b)'
BY DEF Run, Owed, loopVars

\* A step that leaves the loop and everything sent alone leaves every run.
LEMMA PieceFrame ==
  ASSUME Piece, UNCHANGED <<loopVars, got, sock>>,
         \A c \in Clients : conn'[c] = "open" => conn[c] = "open",
         clients' \subseteq clients
  PROVE  Piece'
<1> SUFFICES ASSUME NEW c \in Clients PROVE (\E b \in Int : Run(c, b))'
  BY DEF Piece
<1>1. PICK b \in Int : Run(c, b)
  BY DEF Piece
<1>2. Run(c, b)'
  BY <1>1, RunFrame
<1> QED
  BY <1>2

\* A step that opens no connection and accepts none leaves the addresses apart.
LEMMA AddressesFrame ==
  ASSUME Addresses, UNCHANGED id, accepting' \in {accepting, NoClient},
         \A c \in Clients : /\ conn'[c] = "open" => conn[c] = "open"
                            /\ conn'[c] = "new" => conn[c] = "new"
  PROVE  Addresses'
BY ClientAssumption DEF Addresses

\* A step that leaves the loop, the registry, the connections and what everybody has alone.
LEMMA RegistryFrame ==
  ASSUME Registry, Addresses, UNCHANGED <<registryVars, target, todo, conn, got, sock>>
  PROVE  Registry' /\ Addresses'
<1>1. Registry'
  BY DEF Registry, Newcomer, Owed, registryVars
<1>2. Addresses'
  BY AddressesFrame DEF registryVars
<1> QED
  BY <1>1, <1>2

\* Steps of the reader.
LEMMA ReaderInv == ASSUME Inv, Reader PROVE Inv'
<1> USE DEF Inv
<1>1. CASE Select
  <2>1. TypeOK'
    BY <1>1 DEF Select, TypeOK, registryVars, loopVars, netVars
  <2>2. InOrder' /\ Snapshot'
    BY <1>1 DEF Select, InOrder, InHand, Snapshot, loopVars
  <2>3. Registry' /\ Addresses'
    BY <1>1, RegistryFrame DEF Select, loopVars, netVars
  <2>4. Piece'
    BY <1>1, PieceFrame DEF Select, registryVars, netVars
  <2> QED
    BY <2>1, <2>2, <2>3, <2>4
<1>2. CASE ReadSerial
  <2>1. TypeOK'
    BY <1>2, CapAssumption DEF ReadSerial, TypeOK, registryVars, loopVars, netVars
  <2>2. InOrder'
    <3>1. chunk \in Int /\ last \in Int /\ Len(queue) \in Nat
      BY DEF TypeOK
    <3> QED
      BY <1>2, <3>1 DEF ReadSerial, InOrder, InHand, loopVars
  <2>3. Snapshot'
    BY <1>2 DEF ReadSerial, Snapshot, loopVars
  <2>4. Registry' /\ Addresses'
    BY <1>2, RegistryFrame DEF ReadSerial, loopVars, netVars
  <2>5. Piece'
    BY <1>2, PieceFrame DEF ReadSerial, registryVars, netVars
  <2> QED
    BY <2>1, <2>2, <2>3, <2>4, <2>5
<1>3. CASE Broadcast
  <2>1. CASE ~running
    <3>1. TypeOK'
      BY <1>3, <2>1 DEF Broadcast, TypeOK, registryVars, loopVars, netVars
    <3>2. InOrder'
      BY <1>3, <2>1 DEF Broadcast, InOrder, InHand, loopVars
    <3>3. Registry' /\ Addresses'
      BY <1>3, <2>1, RegistryFrame DEF Broadcast, loopVars, netVars
    <3>4. Piece'
      BY <1>3, <2>1, PieceFrame DEF Broadcast, registryVars, netVars
    <3> QED
      BY <1>3, <3>1, <3>2, <3>3, <3>4 DEF Broadcast, Snapshot, loopVars
  <2>2. CASE running
    <3>1. /\ reader = "send" /\ reader' = "select"
          /\ Len(queue) < QueueCap
          /\ queue' = Append(queue, last)
          /\ UNCHANGED <<last, stopChan, running, registryVars, loopVars, netVars, panicked>>
      BY <1>3, <2>2 DEF Broadcast
    <3>2. /\ queue \in Seq(Chunks) /\ Len(queue) \in Nat
          /\ chunk \in Int /\ chunk >= 0
          /\ last \in Int /\ last <= MaxChunks
      BY CapAssumption DEF TypeOK
    <3>3. last = chunk + Len(queue) + 1 /\ Consecutive(queue, chunk)
      BY <3>1 DEF InOrder, InHand
    <3>4. last \in Chunks
      BY <3>2, <3>3, CapAssumption DEF Chunks
    <3>5. /\ queue' \in Seq(Chunks)
          /\ Len(queue') = Len(queue) + 1
          /\ Consecutive(queue', chunk)
      BY <3>1, <3>2, <3>3, <3>4, AppendCounts
    <3>6. Len(queue') <= QueueCap
      BY <3>1, <3>2, <3>5, CapAssumption
    <3>7. TypeOK'
      BY <3>1, <3>5, <3>6 DEF TypeOK, registryVars, loopVars, netVars
    <3>8. InOrder'
      BY <3>1, <3>2, <3>3, <3>5 DEF InOrder, InHand, loopVars
    <3>9. Snapshot' /\ Registry' /\ Addresses'
      BY <3>1, RegistryFrame DEF Snapshot, loopVars, netVars
    <3>10. Piece'
      BY <3>1, PieceFrame DEF registryVars, netVars
    <3> QED
      BY <3>7, <3>8, <3>9, <3>10
  <2> QED
    BY <2>1, <2>2
<1> QED
  BY <1>1, <1>2, <1>3 DEF Reader

\* Dequeue: the new chunk is the next one, and the loop owes it to every client
\* that is registered.
LEMMA DequeueInv == ASSUME Inv, Dequeue PROVE Inv'
<1> USE DEF Inv
<1>1. /\ target = NoClient /\ todo = {} /\ queue # <<>>
      /\ chunk' = Head(queue) /\ queue' = Tail(queue)
      /\ clients \subseteq Clients
      /\ WriteNext(clients)
      /\ UNCHANGED <<readerVars, stopChan, running, registryVars, looping, netVars, panicked>>
  BY DEF Dequeue, Snapshot, TypeOK
<1>2. /\ queue \in Seq(Chunks) /\ Len(queue) <= QueueCap
      /\ chunk \in Int /\ last \in Int
      /\ Consecutive(queue, chunk)
      /\ last = chunk + Len(queue) + InHand
  BY DEF TypeOK, InOrder
<1>3. /\ Len(queue) \in Nat /\ chunk' \in Chunks /\ chunk' = chunk + 1
      /\ queue' \in Seq(Chunks) /\ Len(queue') = Len(queue) - 1
      /\ Consecutive(queue', chunk')
  BY <1>1, <1>2, TailCounts
<1>4. /\ target' \in Clients \cup {NoClient}
      /\ todo' \subseteq Clients
      /\ target' \notin todo'
      /\ target' = NoClient => todo' = {}
      /\ \A c \in Clients : (c = target' \/ c \in todo') <=> c \in clients
  BY <1>1, WriteNextUsesUp
<1>5. TypeOK'
  <2>1. Len(queue') <= QueueCap
    BY <1>2, <1>3, CapAssumption
  <2>2. chunk' \in 0 .. MaxChunks
    BY <1>3, CapAssumption DEF Chunks
  <2> QED
    BY <1>1, <1>3, <1>4, <2>1, <2>2 DEF TypeOK, readerVars, registryVars, netVars
<1>6. InOrder'
  <2>1. InHand \in Int /\ InHand' = InHand
    BY <1>1 DEF InHand, readerVars
  <2>2. last' = chunk' + Len(queue') + InHand'
    BY <1>1, <1>2, <1>3, <2>1 DEF readerVars
  <2> QED
    BY <1>3, <2>2 DEF InOrder
<1>7. Snapshot' /\ Registry' /\ Addresses'
  <2>1. Snapshot'
    BY <1>1, <1>3, <1>4 DEF Snapshot
  <2>2. Registry'
    BY <1>1, <1>4 DEF Registry, Newcomer, Owed, registryVars, netVars
  <2>3. Addresses'
    BY <1>1, AddressesFrame DEF registryVars, netVars
  <2> QED
    BY <2>1, <2>2, <2>3
<1>8. Piece'
  <2> SUFFICES ASSUME NEW c \in Clients PROVE (\E b \in Int : Run(c, b))'
    BY DEF Piece
  <2>1. PICK b \in Int : Run(c, b)
    BY DEF Piece
  <2>2. ~Owed(c) /\ (Owed(c)' <=> c \in clients)
    BY <1>1, <1>4, ClientAssumption DEF Owed
  <2>3. got'[c] = got[c] /\ sock'[c] = sock[c] /\ conn'[c] = conn[c] /\ clients' = clients
    BY <1>1 DEF registryVars, netVars
  <2>4. conn[c] = "open" /\ c \in clients /\ Len(got[c]) + Len(sock[c]) > 0 =>
          b + Len(got[c]) + Len(sock[c]) = chunk' - 1
    <3>1. sock \in [Clients -> Seq(Chunks)] /\ got \in [Clients -> Seq(Chunks)]
      BY DEF TypeOK
    <3> QED
      BY <1>2, <1>3, <2>1, <2>2, <3>1 DEF Run
  <2>5. Run(c, b)'
    BY <2>1, <2>2, <2>3, <2>4 DEF Run
  <2> QED
    BY <2>5
<1> QED
  BY <1>5, <1>6, <1>7, <1>8

\* Write: the target gets the number after the last one it was sent, or its first.
LEMMA WriteInv == ASSUME Inv, Write PROVE Inv'
<1> USE DEF Inv
<1>1. /\ target \in Clients /\ target \notin todo /\ chunk \in Chunks
      /\ todo \subseteq Clients
      /\ WriteNext(todo)
      /\ UNCHANGED <<readerVars, stopChan, queue, running, registryVars, looping, chunk,
                     conn, got, stalled, panicked>>
  BY DEF Write, Snapshot, TypeOK
<1>2. /\ target' \in Clients \cup {NoClient}
      /\ todo' \subseteq Clients
      /\ target' \notin todo'
      /\ target' = NoClient => todo' = {}
      /\ \A c \in Clients : (c = target' \/ c \in todo') <=> c \in todo
  BY <1>1, WriteNextUsesUp
<1>3. /\ sock \in [Clients -> Seq(Chunks)] /\ got \in [Clients -> Seq(Chunks)]
      /\ \A c \in Clients : Len(sock[c]) <= SockCap
  BY DEF TypeOK
<1>4. /\ sock' \in [Clients -> Seq(Chunks)]
      /\ \A c \in Clients : c # target => sock'[c] = sock[c]
      /\ IF conn[target] = "open"
         THEN Len(sock[target]) < SockCap /\ sock'[target] = Append(sock[target], chunk)
         ELSE sock'[target] = sock[target]
  <2>1. Append(sock[target], chunk) \in Seq(Chunks)
    BY <1>1, <1>3
  <2> QED
    BY <1>1, <1>3, <2>1 DEF Write
<1>5. TypeOK'
  <2>1. \A c \in Clients : Len(sock'[c]) <= SockCap
    <3> TAKE c \in Clients
    <3>1. CASE c = target /\ conn[c] = "open"
      <4>1. sock[c] \in Seq(Chunks) /\ Len(sock[c]) \in Nat /\ Len(sock[c]) < SockCap
            /\ sock'[c] = Append(sock[c], chunk)
        BY <1>3, <1>4, <3>1
      <4>2. Len(sock'[c]) = Len(sock[c]) + 1
        BY <4>1
      <4> QED
        BY <4>1, <4>2, CapAssumption
    <3>2. CASE ~(c = target /\ conn[c] = "open")
      BY <1>3, <1>4, <3>2
    <3> QED
      BY <3>1, <3>2
  <2> QED
    BY <1>1, <1>2, <1>4, <2>1 DEF TypeOK, readerVars, registryVars
<1>6. InOrder' /\ Snapshot'
  BY <1>1, <1>2 DEF InOrder, InHand, Snapshot, readerVars, Chunks
<1>7. Registry' /\ Addresses'
  <2>1. Registry'
    BY <1>1, <1>2, <1>4 DEF Registry, Newcomer, Owed, registryVars
  <2>2. Addresses'
    BY <1>1, AddressesFrame DEF registryVars
  <2> QED
    BY <2>1, <2>2
<1>8. Piece'
  <2> SUFFICES ASSUME NEW c \in Clients PROVE (\E b \in Int : Run(c, b))'
    BY DEF Piece
  <2>1. PICK b \in Int : Run(c, b)
    BY DEF Piece
  <2>2. CASE c # target \/ conn[c] # "open"
    <3>1. sock'[c] = sock[c] /\ got'[c] = got[c] /\ conn'[c] = conn[c] /\ chunk' = chunk
          /\ clients' = clients
      BY <1>1, <1>4, <2>2 DEF registryVars
    <3>2. conn[c] = "open" => (Owed(c)' <=> Owed(c))
      BY <1>2, <2>2 DEF Owed
    <3>3. Run(c, b)'
      BY <2>1, <3>1, <3>2 DEF Run
    <3> QED
      BY <3>3
  <2>3. CASE c = target /\ conn[c] = "open"
    <3>1. /\ sock'[c] = Append(sock[c], chunk) /\ got'[c] = got[c]
          /\ chunk' = chunk /\ chunk \in Int
          /\ Owed(c) /\ ~Owed(c)'
      BY <1>1, <1>2, <1>4, <2>3 DEF Owed, Chunks
    <3>2. sock[c] \in Seq(Chunks) /\ got[c] \in Seq(Chunks)
      BY <1>3
    <3>3. Len(sock[c]) \in Nat /\ Len(got[c]) \in Nat
      BY <3>2
    <3>4. CASE Len(got[c]) + Len(sock[c]) > 0
      <4>1. chunk = b + Len(got[c]) + Len(sock[c]) + 1
        BY <1>3, <2>1, <2>3, <3>1, <3>3, <3>4 DEF Run
      <4>2. b + Len(got[c]) \in Int /\ Consecutive(sock[c], b + Len(got[c]))
        BY <2>1, <3>3 DEF Run
      <4>3. chunk = (b + Len(got[c])) + Len(sock[c]) + 1
        BY <4>1
      <4>4. /\ Len(sock'[c]) = Len(sock[c]) + 1
            /\ Consecutive(sock'[c], b + Len(got[c]))
        BY <1>1, <3>1, <3>2, <4>2, <4>3, AppendCounts
      <4>5. b + Len(got'[c]) + Len(sock'[c]) = chunk'
        BY <1>3, <1>4, <3>1, <3>3, <4>1, <4>4
      <4>6. Run(c, b)'
        BY <2>1, <3>1, <4>4, <4>5 DEF Run
      <4> QED
        BY <4>6
    <3>5. CASE ~(Len(got[c]) + Len(sock[c]) > 0)
      <4>1. Len(got[c]) = 0 /\ Len(sock[c]) = 0
        BY <1>3, <3>3, <3>5
      <4> PICK k \in Int : k = chunk - 1
        BY <3>1
      <4>2. chunk = k + Len(sock[c]) + 1 /\ k + Len(got[c]) = k
        BY <3>1, <4>1
      <4>3. Consecutive(got[c], k) /\ Consecutive(sock[c], k)
        BY <4>1 DEF Consecutive
      <4>4. Len(sock'[c]) = Len(sock[c]) + 1 /\ Consecutive(sock'[c], k)
        BY <1>1, <3>1, <3>2, <4>2, <4>3, AppendCounts
      <4>5. k + Len(got'[c]) + Len(sock'[c]) = chunk'
        BY <1>3, <1>4, <3>1, <3>3, <4>1, <4>4
      <4>6. Run(c, k)'
        BY <3>1, <4>2, <4>3, <4>4, <4>5 DEF Run
      <4> QED
        BY <4>6
    <3> QED
      BY <3>4, <3>5
  <2> QED
    BY <2>2, <2>3
<1> QED
  BY <1>5, <1>6, <1>7, <1>8

\* Steps that write nothing: the end of the loop, a client that stalls, and the signal.
LEMMA QuietInv ==
  ASSUME Inv, EndLoop \/ Signal \/ \E c \in Clients : Stall(c)
  PROVE  Inv'
<1> USE DEF Inv
<1>1. UNCHANGED <<reader, last, queue, registryVars, chunk, target, todo, conn, sock, got>>
  BY DEF EndLoop, Signal, Stall, readerVars, loopVars, netVars
<1>2. TypeOK'
  <2>1. looping' \in BOOLEAN /\ stopChan' \in BOOLEAN /\ stalled' \subseteq Clients
    BY DEF EndLoop, Signal, Stall, TypeOK, loopVars, netVars
  <2>2. running' = running /\ panicked' = panicked
    BY DEF EndLoop, Signal, Stall
  <2> QED
    BY <1>1, <2>1, <2>2 DEF TypeOK, registryVars
<1>3. InOrder' /\ Snapshot'
  BY <1>1 DEF InOrder, InHand, Snapshot
<1>4. Registry' /\ Addresses'
  BY <1>1, RegistryFrame
<1>5. Piece'
  <2> SUFFICES ASSUME NEW c \in Clients PROVE (\E b \in Int : Run(c, b))'
    BY DEF Piece
  <2>1. PICK b \in Int : Run(c, b)
    BY DEF Piece
  <2>2. Run(c, b)'
    BY <1>1, <2>1 DEF Run, Owed, registryVars
  <2> QED
    BY <2>2
<1> QED
  BY <1>2, <1>3, <1>4, <1>5

\* Accept: the connection is open, nobody owes it anything, and no other of its address
\* is open.
LEMMA AcceptInv == ASSUME Inv, NEW d \in Clients, Accept(d) PROVE Inv'
<1> USE DEF Inv
<1>1. /\ accepting = NoClient /\ conn[d] = "new"
      /\ \A c \in Clients : id[c] = id[d] => conn[c] # "open"
      /\ conn' = [conn EXCEPT ![d] = "open"] /\ accepting' = d
      /\ UNCHANGED <<id, readerVars, stopChan, queue, running, clients, returned, loopVars,
                     sock, got, stalled, panicked>>
  BY DEF Accept
<1>2. conn \in [Clients -> {"new", "open", "gone", "closed"}]
  BY DEF TypeOK
<1>3. TypeOK'
  BY <1>1 DEF TypeOK, readerVars, loopVars
<1>4. InOrder' /\ Snapshot'
  BY <1>1 DEF InOrder, InHand, Snapshot, readerVars, loopVars
<1>5. Registry'
  BY <1>1, <1>2 DEF Registry, Newcomer, Owed, loopVars
<1>6. Addresses'
  BY <1>1, <1>2 DEF Addresses
<1>7. Piece'
  <2> SUFFICES ASSUME NEW c \in Clients PROVE (\E b \in Int : Run(c, b))'
    BY DEF Piece
  <2>1. PICK b \in Int : Run(c, b)
    BY DEF Piece
  <2>2. CASE c # d
    BY <1>1, <1>2, <2>1, <2>2, RunFrame
  <2>3. CASE c = d
    <3>1. c \notin clients' /\ ~Owed(c)'
      BY <1>1, <2>3 DEF Registry, Newcomer, Owed, loopVars
    <3>2. Run(c, b)'
      BY <1>1, <2>1, <3>1 DEF Run
    <3> QED
      BY <3>2
  <2> QED
    BY <2>2, <2>3
<1> QED
  BY <1>3, <1>4, <1>5, <1>6, <1>7

\* Register: the client has been sent nothing, and the loop goes on with its snapshot.
LEMMA RegisterInv == ASSUME Inv, Register PROVE Inv'
<1> USE DEF Inv
<1>1. /\ accepting \in Clients
      /\ clients' = Others(accepting) \cup {accepting}
      /\ accepting' = NoClient
      /\ UNCHANGED <<id, readerVars, stopChan, queue, running, returned, loopVars, netVars,
                     panicked>>
  BY DEF Register, TypeOK
<1>2. /\ clients \subseteq Clients
      /\ sock \in [Clients -> Seq(Chunks)] /\ got \in [Clients -> Seq(Chunks)]
  BY DEF TypeOK
<1>3. TypeOK'
  <2>1. clients' \subseteq Clients /\ \A c, d \in clients' : id'[c] = id'[d] => c = d
    BY <1>1, <1>2 DEF TypeOK, Others
  <2> QED
    BY <1>1, <2>1 DEF TypeOK, readerVars, loopVars, netVars
<1>4. InOrder' /\ Snapshot'
  BY <1>1 DEF InOrder, InHand, Snapshot, readerVars, loopVars
<1>5. Registry'
  BY <1>1, ClientAssumption DEF Registry, Newcomer, Owed, Others, Addresses, loopVars, netVars
<1>6. Addresses'
  BY <1>1, AddressesFrame DEF netVars
<1>7. Piece'
  <2> SUFFICES ASSUME NEW c \in Clients PROVE (\E b \in Int : Run(c, b))'
    BY DEF Piece
  <2>1. PICK b \in Int : Run(c, b)
    BY DEF Piece
  <2>2. CASE c # accepting
    <3>1. c \in clients' => c \in clients
      BY <1>1, <2>2 DEF Others
    <3> QED
      BY <1>1, <2>1, <3>1, RunFrame DEF netVars
  <2>3. CASE c = accepting
    <3>1. got[c] = <<>> /\ sock[c] = <<>> /\ got'[c] = got[c] /\ sock'[c] = sock[c]
      BY <1>1, <2>3 DEF Registry, Newcomer, netVars
    <3>2. Len(got'[c]) = 0 /\ Len(sock'[c]) = 0
      BY <1>2, <3>1
    <3>3. Run(c, b)'
      BY <2>1, <3>1, <3>2 DEF Run
    <3> QED
      BY <3>3
  <2> QED
    BY <2>2, <2>3
<1> QED
  BY <1>3, <1>4, <1>5, <1>6, <1>7

\* Remove takes entries out of the registry and does nothing else.
LEMMA RemoveInv == ASSUME Inv, NEW d \in Clients, Remove(d) PROVE Inv'
<1> USE DEF Inv
<1>1. /\ clients' = Others(d) /\ returned' = returned \cup {d}
      /\ UNCHANGED <<id, readerVars, stopChan, queue, running, accepting, loopVars, netVars,
                     panicked>>
  BY DEF Remove
<1>2. clients' \subseteq clients
  BY <1>1 DEF Others
<1>3. TypeOK'
  BY <1>1, <1>2 DEF TypeOK, readerVars, loopVars, netVars
<1>4. InOrder' /\ Snapshot'
  BY <1>1 DEF InOrder, InHand, Snapshot, readerVars, loopVars
<1>5. Registry'
  BY <1>1, <1>2 DEF Registry, Newcomer, Owed, loopVars, netVars
<1>6. Addresses'
  BY <1>1, AddressesFrame DEF netVars
<1>7. Piece'
  BY <1>1, <1>2, PieceFrame DEF netVars
<1> QED
  BY <1>3, <1>4, <1>5, <1>6, <1>7

\* Leave: what the client has read stays, and no more is written to it.
LEMMA LeaveInv == ASSUME Inv, NEW d \in Clients, Leave(d) PROVE Inv'
<1> USE DEF Inv
<1>1. /\ conn[d] = "open" /\ conn' = [conn EXCEPT ![d] = "gone"]
      /\ sock' = [sock EXCEPT ![d] = <<>>]
      /\ UNCHANGED <<readerVars, stopChan, queue, running, registryVars, loopVars, got,
                     stalled, panicked>>
  BY DEF Leave
<1>2. /\ conn \in [Clients -> {"new", "open", "gone", "closed"}]
      /\ sock \in [Clients -> Seq(Chunks)] /\ got \in [Clients -> Seq(Chunks)]
  BY DEF TypeOK
<1>3. TypeOK'
  <2>1. <<>> \in Seq(Chunks) /\ Len(<<>>) <= SockCap
    BY CapAssumption
  <2>2. sock' \in [Clients -> Seq(Chunks)]
    BY <1>1, <1>2, <2>1
  <2>3. \A c \in Clients : Len(sock'[c]) <= SockCap
    BY <1>1, <1>2, <2>1 DEF TypeOK
  <2> QED
    BY <1>1, <2>2, <2>3 DEF TypeOK, readerVars, registryVars, loopVars
<1>4. InOrder' /\ Snapshot'
  BY <1>1 DEF InOrder, InHand, Snapshot, readerVars, loopVars
<1>5. Registry' /\ Addresses'
  <2>1. Registry'
    BY <1>1, <1>2 DEF Registry, Newcomer, Owed, registryVars, loopVars
  <2>2. Addresses'
    BY <1>1, <1>2, AddressesFrame DEF registryVars
  <2> QED
    BY <2>1, <2>2
<1>6. Piece'
  <2> SUFFICES ASSUME NEW c \in Clients PROVE (\E b \in Int : Run(c, b))'
    BY DEF Piece
  <2>1. PICK b \in Int : Run(c, b)
    BY DEF Piece
  <2>2. CASE c # d
    BY <1>1, <1>2, <2>1, <2>2, RunFrame DEF registryVars
  <2>3. CASE c = d
    <3>1. sock'[c] = <<>> /\ got'[c] = got[c] /\ conn'[c] = "gone"
      BY <1>1, <1>2, <2>3
    <3>2. Run(c, b)'
      BY <2>1, <3>1, EmptyCounts DEF Run
    <3> QED
      BY <3>2
  <2> QED
    BY <2>2, <2>3
<1> QED
  BY <1>3, <1>4, <1>5, <1>6

\* ClientRead: a chunk moves from the end of the socket to the end of what was read.
LEMMA ClientReadInv == ASSUME Inv, NEW d \in Clients, ClientRead(d) PROVE Inv'
<1> USE DEF Inv
<1>1. /\ conn[d] \in {"open", "closed"} /\ sock[d] # <<>>
      /\ got' = [got EXCEPT ![d] = Append(@, Head(sock[d]))]
      /\ sock' = [sock EXCEPT ![d] = Tail(@)]
      /\ UNCHANGED <<readerVars, stopChan, queue, running, registryVars, loopVars,
                     conn, stalled, panicked>>
  BY DEF ClientRead
<1>2. /\ conn \in [Clients -> {"new", "open", "gone", "closed"}]
      /\ sock \in [Clients -> Seq(Chunks)] /\ got \in [Clients -> Seq(Chunks)]
      /\ \A c \in Clients : Len(sock[c]) <= SockCap
  BY DEF TypeOK
<1>3. PICK e \in Int : Run(d, e)
  BY DEF Piece
<1>4. sock[d] \in Seq(Chunks) /\ got[d] \in Seq(Chunks) /\ Len(got[d]) \in Nat
  BY <1>2
<1>5. PICK n \in Int : n = e + Len(got[d])
  BY <1>4
<1>6. /\ Len(sock[d]) \in Nat /\ Len(sock[d]) > 0
      /\ Head(sock[d]) \in Chunks /\ Head(sock[d]) = n + 1
      /\ Tail(sock[d]) \in Seq(Chunks)
      /\ Len(Tail(sock[d])) = Len(sock[d]) - 1
      /\ Consecutive(Tail(sock[d]), n + 1)
  BY <1>1, <1>3, <1>4, <1>5, TailCounts DEF Run
<1>7. /\ Append(got[d], Head(sock[d])) \in Seq(Chunks)
      /\ Len(Append(got[d], Head(sock[d]))) = Len(got[d]) + 1
      /\ Consecutive(Append(got[d], Head(sock[d])), e)
  BY <1>3, <1>4, <1>5, <1>6, AppendCounts DEF Run
<1>8. /\ got'[d] = Append(got[d], Head(sock[d]))
      /\ sock'[d] = Tail(sock[d])
      /\ \A c \in Clients : c # d => got'[c] = got[c] /\ sock'[c] = sock[c]
      /\ got' \in [Clients -> Seq(Chunks)] /\ sock' \in [Clients -> Seq(Chunks)]
  BY <1>1, <1>2, <1>6, <1>7
<1>9. TypeOK'
  <2>1. Len(sock'[d]) <= SockCap
    BY <1>2, <1>6, <1>8, CapAssumption
  <2>2. \A c \in Clients : Len(sock'[c]) <= SockCap
    BY <1>2, <1>8, <2>1
  <2> QED
    BY <1>1, <1>8, <2>2 DEF TypeOK, readerVars, registryVars, loopVars
<1>10. InOrder' /\ Snapshot'
  BY <1>1 DEF InOrder, InHand, Snapshot, readerVars, loopVars
<1>11. Registry' /\ Addresses'
  <2>1. Registry'
    BY <1>1, <1>8 DEF Registry, Newcomer, Owed, registryVars, loopVars
  <2>2. Addresses'
    BY <1>1, AddressesFrame DEF registryVars
  <2> QED
    BY <2>1, <2>2
<1>12. Piece'
  <2> SUFFICES ASSUME NEW c \in Clients PROVE (\E b \in Int : Run(c, b))'
    BY DEF Piece
  <2>1. CASE c # d
    <3>1. PICK b \in Int : Run(c, b)
      BY DEF Piece
    <3>2. Run(c, b)'
      BY <1>1, <1>8, <2>1, <3>1, RunFrame DEF registryVars
    <3> QED
      BY <3>2
  <2>2. CASE c = d
    <3>1. e + Len(got'[d]) = n + 1
      BY <1>2, <1>4, <1>5, <1>7, <1>8
    <3>2. Len(got'[d]) + Len(sock'[d]) = Len(got[d]) + Len(sock[d])
      BY <1>2, <1>4, <1>6, <1>7, <1>8
    <3>3. e + Len(got'[d]) + Len(sock'[d]) = e + Len(got[d]) + Len(sock[d])
      BY <1>2, <1>4, <1>6, <1>7, <1>8
    <3>4. Consecutive(got'[d], e) /\ Consecutive(sock'[d], e + Len(got'[d]))
      BY <1>6, <1>7, <1>8, <3>1
    <3>5. Run(d, e)'
      BY <1>1, <1>3, <3>2, <3>3, <3>4 DEF Run, Owed, registryVars, loopVars
    <3> QED
      BY <2>2, <3>5
  <2> QED
    BY <2>1, <2>2
<1> QED
  BY <1>9, <1>10, <1>11, <1>12

\* Stop closes every registered connection; those that are not registered stay open.
LEMMA StopInv == ASSUME Inv, Stop PROVE Inv'
<1> USE DEF Inv
<1>1. /\ conn' = [c \in Clients |-> IF c \in clients THEN "closed" ELSE conn[c]]
      /\ clients' = {}
      /\ running' = FALSE
      /\ UNCHANGED <<id, readerVars, stopChan, queue, accepting, returned, loopVars, sock, got, stalled, panicked>>
  BY DEF Stop
<1>2. TypeOK'
  BY <1>1 DEF TypeOK, readerVars, loopVars
<1>3. InOrder' /\ Snapshot'
  BY <1>1 DEF InOrder, InHand, Snapshot, readerVars, loopVars
<1>4. \A c \in Clients : /\ conn'[c] = "open" => conn[c] = "open"
                        /\ conn'[c] = "new" => conn[c] = "new"
  BY <1>1
<1>5. Registry'
  BY <1>1, <1>4 DEF Registry, Newcomer, Owed, loopVars
<1>6. Addresses'
  BY <1>1, <1>4, AddressesFrame
<1>7. Piece'
  BY <1>1, <1>4, PieceFrame
<1> QED
  BY <1>2, <1>3, <1>5, <1>6, <1>7

\* Every step of the path preserves the invariant.
LEMMA NextInv == Inv /\ [Next]_vars => Inv'
<1> SUFFICES ASSUME Inv, [Next]_vars PROVE Inv'
  OBVIOUS
<1>1. CASE Reader
  BY <1>1, ReaderInv
<1>2. CASE Loop
  BY <1>2, DequeueInv, WriteInv, QuietInv DEF Loop
<1>3. CASE Signal
  BY <1>3, QuietInv
<1>4. CASE Stop
  BY <1>4, StopInv
<1>5. ASSUME NEW c \in Clients,
             Accept(c) \/ Leave(c) \/ Remove(c) \/ ClientRead(c) \/ Stall(c)
      PROVE  Inv'
  BY <1>5, AcceptInv, LeaveInv, RemoveInv, ClientReadInv, QuietInv
<1>6. CASE UNCHANGED vars
  <2>1. TypeOK' /\ InOrder' /\ Snapshot'
    BY <1>6 DEF Inv, TypeOK, InOrder, InHand, Snapshot, vars, readerVars, registryVars,
                loopVars, netVars
  <2>2. Registry' /\ Addresses'
    BY <1>6, RegistryFrame DEF Inv, vars, loopVars, netVars
  <2>3. Piece'
    BY <1>6, PieceFrame DEF Inv, vars, registryVars, netVars
  <2> QED
    BY <2>1, <2>2, <2>3 DEF Inv
<1>7. CASE Register
  BY <1>7, RegisterInv
<1> QED
  BY <1>1, <1>2, <1>3, <1>4, <1>5, <1>6, <1>7 DEF Next

\* The invariant holds in every reachable state.
LEMMA InvAlways == Spec => []Inv
  BY InitInv, NextInv, PTL DEF Spec

------------------------------------------------------------------------------
\* The types, and with them the capacities: Broadcast never overfills s.broadcast,
\* and conn.Write never overfills a socket, however many clients there are.
THEOREM PathTypeCorrect == Spec => []TypeOK
<1>1. Inv => TypeOK
  BY DEF Inv
<1> QED
  BY <1>1, InvAlways, PTL

\* What the reader, the channel, the loop and the sockets hold and what a client
\* has read fit together such that its stream has no gap, no repetition and no
\* reordering: Broadcast waits instead of dropping, and Write does so too.
THEOREM StreamsAreGapless == Spec => []GaplessStream
<1>1. Inv => GaplessStream
  <2> SUFFICES ASSUME Inv, NEW c \in Clients
               PROVE  \A i \in 2 .. Len(Stream(c)) : Stream(c)[i] = Stream(c)[i - 1] + 1
    BY DEF GaplessStream
  <2>1. PICK b \in Int : Run(c, b)
    BY DEF Inv, Piece
  <2>2. got[c] \in Seq(Chunks) /\ sock[c] \in Seq(Chunks)
    BY DEF Inv, TypeOK
  <2>3. Consecutive(got[c], b) /\ Consecutive(sock[c], b + Len(got[c]))
    BY <2>1 DEF Run
  <2> QED
    BY <2>2, <2>3, JoinedRunIsGapless DEF Stream
<1> QED
  BY <1>1, InvAlways, PTL

------------------------------------------------------------------------------
(* The path broadcasts atomically.                                            *)

\* What is appended to the second of two sequences is appended to both together.
LEMMA AppendToJoined ==
  ASSUME NEW g \in Seq(Chunks), NEW s \in Seq(Chunks), NEW x \in Chunks
  PROVE  /\ g \o Append(s, x) = (g \o s) \o <<x>>
         /\ Append(g \o s, x) = (g \o s) \o <<x>>
         /\ (g \o s) \o <<>> = g \o s
<1>1. g \o s \in Seq(Chunks) /\ <<x>> \in Seq(Chunks)
  OBVIOUS
<1>2. Append(s, x) = s \o <<x>> /\ Append(g \o s, x) = (g \o s) \o <<x>>
  BY <1>1, AppendIsConcat
<1>3. g \o (s \o <<x>>) = (g \o s) \o <<x>>
  BY <1>1, ConcatAssociative
<1>4. (g \o s) \o <<>> = g \o s
  BY <1>1, ConcatEmptySeq
<1> QED
  BY <1>2, <1>3, <1>4

\* What a client has read, its socket and what it is owed, put together in either order.
LEMMA JoinThree ==
  ASSUME NEW g \in Seq(Chunks), NEW s \in Seq(Chunks), NEW r \in Seq(Chunks)
  PROVE  (g \o s) \o r = g \o (s \o r)
BY ConcatAssociative

\* Moving the head of the second of two sequences to the end of the first leaves both
\* together as they were.
LEMMA HeadMovesOver ==
  ASSUME NEW g \in Seq(Chunks), NEW s \in Seq(Chunks), s # <<>>
  PROVE  Append(g, Head(s)) \o Tail(s) = g \o s
<1>1. /\ Head(s) \in Chunks /\ Tail(s) \in Seq(Chunks) /\ Append(g, Head(s)) \in Seq(Chunks)
      /\ Len(s) \in Nat \ {0} /\ Len(g) \in Nat /\ Head(s) = s[1]
      /\ Len(Tail(s)) = Len(s) - 1 /\ Len(Append(g, Head(s))) = Len(g) + 1
  OBVIOUS
<1>2. /\ Append(g, Head(s)) \o Tail(s) \in Seq(Chunks) /\ g \o s \in Seq(Chunks)
      /\ Len(Append(g, Head(s)) \o Tail(s)) = Len(g) + Len(s)
      /\ Len(g \o s) = Len(g) + Len(s)
  BY <1>1
<1>3. ASSUME NEW i \in 1 .. Len(g) + Len(s)
      PROVE  (Append(g, Head(s)) \o Tail(s))[i] = (g \o s)[i]
  <2>1. CASE i <= Len(g)
    BY <1>1, <2>1
  <2>2. CASE i = Len(g) + 1
    BY <1>1, <2>2
  <2>3. CASE i > Len(g) + 1
    <3>1. i - (Len(g) + 1) \in 1 .. Len(Tail(s))
      BY <1>1, <2>3
    <3>2. (Append(g, Head(s)) \o Tail(s))[i] = Tail(s)[i - (Len(g) + 1)]
      BY <1>1, <1>2, <2>3, <3>1
    <3>3. Tail(s)[i - (Len(g) + 1)] = s[i - (Len(g) + 1) + 1]
      BY <1>1, <3>1
    <3>4. (g \o s)[i] = s[i - Len(g)]
      BY <1>1, <1>2, <2>3
    <3>5. i - (Len(g) + 1) + 1 = i - Len(g)
      BY <1>1
    <3> QED
      BY <3>2, <3>3, <3>4, <3>5
  <2> QED
    BY <1>1, <2>1, <2>2, <2>3
<1> QED
  BY <1>2, <1>3

\* The first of two joined sequences is the beginning of both.
LEMMA FirstIsBeginning ==
  ASSUME NEW g \in Seq(Chunks), NEW s \in Seq(Chunks)
  PROVE  /\ Len(g) \in 0 .. Len(g \o s)
         /\ g = SubSeq(g \o s, 1, Len(g))
<1>1. g \o s \in Seq(Chunks) /\ Len(g) \in Nat /\ Len(s) \in Nat
      /\ Len(g \o s) = Len(g) + Len(s)
  OBVIOUS
<1>2. \A i \in 1 .. Len(g) : (g \o s)[i] = g[i]
  BY <1>1
<1> QED
  BY <1>1, <1>2

\* What the types say of one client.
LEMMA ClientTypes ==
  ASSUME Inv, NEW c \in Clients
  PROVE  /\ got[c] \in Seq(Chunks) /\ sock[c] \in Seq(Chunks)
         /\ Stream(c) \in Seq(Chunks)
         /\ Owed(c) => chunk \in Chunks
<1>1. got[c] \in Seq(Chunks) /\ sock[c] \in Seq(Chunks)
  BY DEF Inv, TypeOK
<1>2. Owed(c) => chunk \in Chunks
  BY ClientAssumption DEF Inv, Snapshot, Owed
<1> QED
  BY <1>1, <1>2 DEF Stream

\* A step that neither reads from the port nor takes a chunk, and that leaves what every
\* client is to the broadcast and was given or is owed, is none of the abstract system's.
LEMMA SameForAll ==
  ASSUME UNCHANGED <<id, last, chunk>>,
         \A c \in Clients : Given(c)' = Given(c) /\ Phase(c)' = Phase(c)
  PROVE  UNCHANGED Atomic!vars
BY DEF Atomic!vars

\* Steps that touch neither connections nor the registry leave every phase.
LEMMA SamePhase ==
  ASSUME UNCHANGED <<registryVars, conn>>
  PROVE  \A c \in Clients : Phase(c)' = Phase(c)
BY DEF Phase, registryVars

\* Steps that do not touch the loop and the sockets leave what everybody was given.
LEMMA QuietGiven ==
  ASSUME UNCHANGED <<chunk, target, todo, conn, sock, got>>
  PROVE  \A c \in Clients : Given(c)' = Given(c)
BY DEF Given, Stream, Owed

\* Dequeue hands the next chunk to everybody who is connected and registered.
LEMMA DequeueDistributes == ASSUME Inv, Dequeue PROVE Atomic!Distribute
<1>1. /\ target = NoClient /\ todo = {} /\ queue # <<>>
      /\ chunk' = Head(queue)
      /\ clients \subseteq Clients
      /\ WriteNext(clients)
      /\ UNCHANGED <<last, registryVars, conn, sock, got>>
  BY DEF Inv, Dequeue, Snapshot, TypeOK, readerVars, netVars
<1>2. /\ queue \in Seq(Chunks) /\ chunk \in Int /\ last \in Int
      /\ Consecutive(queue, chunk)
      /\ last = chunk + Len(queue) + InHand
      /\ InHand \in Nat
  BY DEF Inv, TypeOK, InOrder, InHand
<1>3. Len(queue) \in Nat /\ Len(queue) > 0 /\ chunk' = chunk + 1 /\ chunk' \in Chunks
  BY <1>1, <1>2, TailCounts
<1>4. chunk < last
  BY <1>2, <1>3
<1>5. \A c \in Clients : (c = target' \/ c \in todo') <=> c \in clients
  BY <1>1, WriteNextUsesUp
<1>6. ASSUME NEW c \in Clients
      PROVE  Given(c)' = IF Phase(c) = "member" THEN Append(Given(c), chunk') ELSE Given(c)
  <2>1. Stream(c)' = Stream(c) /\ conn'[c] = conn[c]
    BY <1>1 DEF Stream
  <2>4. ~Owed(c) /\ (Owed(c)' <=> c \in clients)
    BY <1>1, <1>5, ClientAssumption DEF Owed
  <2>5. Phase(c) = "member" <=> conn[c] = "open" /\ c \in clients
    BY DEF Phase, Inv, Registry, Newcomer
  <2>2. CASE conn[c] = "open" /\ c \in clients
    <3>1. ~Owed(c) /\ Owed(c)'
      BY <2>2, <2>4
    <3>2. Given(c) = Stream(c) \o <<>> /\ Given(c)' = Stream(c) \o <<chunk'>>
      BY <2>1, <2>2, <3>1 DEF Given
    <3>3. /\ Append(Stream(c), chunk') = Stream(c) \o <<chunk'>>
          /\ Stream(c) \o <<>> = Stream(c)
      BY <1>3, ClientTypes, AppendToJoined DEF Stream
    <3> QED
      BY <2>2, <2>5, <3>2, <3>3
  <2>3. CASE ~(conn[c] = "open" /\ c \in clients)
    BY <2>1, <2>3, <2>4, <2>5 DEF Given
  <2> QED
    BY <2>2, <2>3
<1> QED
  BY <1>1, <1>3, <1>4, <1>6, SamePhase DEF Atomic!Distribute, registryVars

\* Write turns what its target is owed into what it has, and leaves the others alone; a
\* target whose connection has ended gets nothing.
LEMMA WriteStutters == ASSUME Inv, Write PROVE UNCHANGED Atomic!vars
<1>1. /\ target \in Clients /\ target \notin todo /\ todo \subseteq Clients
      /\ WriteNext(todo)
      /\ UNCHANGED <<last, registryVars, chunk, conn, got>>
  BY DEF Inv, Write, Snapshot, TypeOK, readerVars
<1>2. \A c \in Clients : (c = target' \/ c \in todo') <=> c \in todo
  BY <1>1, WriteNextUsesUp
<1>3. sock \in [Clients -> Seq(Chunks)]
  BY DEF Inv, TypeOK
<1>4. ASSUME NEW c \in Clients PROVE Given(c)' = Given(c)
  <2>1. CASE c = target /\ conn[c] = "open"
    <3>1. /\ sock'[c] = Append(sock[c], chunk)
          /\ Owed(c) /\ ~Owed(c)'
      BY <1>1, <1>2, <1>3, <2>1 DEF Write, Owed
    <3>2. /\ Given(c) = (got[c] \o sock[c]) \o <<chunk>>
          /\ Given(c)' = (got[c] \o Append(sock[c], chunk)) \o <<>>
      BY <1>1, <2>1, <3>1 DEF Given, Stream
    <3>3. /\ got[c] \in Seq(Chunks) /\ sock[c] \in Seq(Chunks) /\ chunk \in Chunks
          /\ Append(sock[c], chunk) \in Seq(Chunks)
      BY <3>1, ClientTypes
    <3>4. /\ got[c] \o Append(sock[c], chunk) = (got[c] \o sock[c]) \o <<chunk>>
          /\ (got[c] \o Append(sock[c], chunk)) \o <<>> = got[c] \o Append(sock[c], chunk)
      BY <3>3, AppendToJoined
    <3> QED
      BY <3>2, <3>4
  <2>2. CASE c # target \/ conn[c] # "open"
    <3>1. sock'[c] = sock[c] /\ got'[c] = got[c] /\ conn'[c] = conn[c] /\ chunk' = chunk
      BY <1>1, <1>3, <2>2 DEF Write
    <3>2. conn[c] = "open" => (Owed(c)' <=> Owed(c))
      BY <1>2, <2>2 DEF Owed
    <3> QED
      BY <3>1, <3>2 DEF Given, Stream
  <2> QED
    BY <2>1, <2>2
<1> QED
  BY <1>1, <1>4, SameForAll, SamePhase DEF registryVars

\* ClientRead moves a chunk from the socket to the client, and both are the client's.
LEMMA ClientReadStutters ==
  ASSUME Inv, NEW d \in Clients, ClientRead(d) PROVE UNCHANGED Atomic!vars
<1>1. /\ sock[d] # <<>>
      /\ got' = [got EXCEPT ![d] = Append(got[d], Head(sock[d]))]
      /\ sock' = [sock EXCEPT ![d] = Tail(sock[d])]
      /\ UNCHANGED <<last, registryVars, chunk, target, todo, conn>>
  BY DEF ClientRead, readerVars, loopVars
<1>2. sock \in [Clients -> Seq(Chunks)] /\ got \in [Clients -> Seq(Chunks)]
  BY DEF Inv, TypeOK
<1>3. ASSUME NEW c \in Clients PROVE Stream(c)' = Stream(c)
  <2>1. CASE c = d
    BY <1>1, <1>2, <2>1, HeadMovesOver DEF Stream
  <2>2. CASE c # d
    BY <1>1, <1>2, <2>2 DEF Stream
  <2> QED
    BY <2>1, <2>2
<1>4. \A c \in Clients : Given(c)' = Given(c)
  BY <1>1, <1>3 DEF Given, Owed
<1> QED
  BY <1>1, <1>4, SameForAll, SamePhase DEF registryVars

\* Accept is not noticed: the client is as new as before.
LEMMA AcceptStutters ==
  ASSUME Inv, NEW d \in Clients, Accept(d) PROVE UNCHANGED Atomic!vars
<1>1. /\ conn[d] = "new" /\ conn' = [conn EXCEPT ![d] = "open"]
      /\ accepting = NoClient /\ accepting' = d
      /\ UNCHANGED <<id, last, clients, chunk, target, todo, sock, got>>
  BY DEF Accept, readerVars, loopVars
<1>2. conn \in [Clients -> {"new", "open", "gone", "closed"}]
  BY DEF Inv, TypeOK
<1>3. ~Owed(d)
  BY <1>1 DEF Inv, Registry, Newcomer
<1>4. ASSUME NEW c \in Clients PROVE Given(c)' = Given(c) /\ Phase(c)' = Phase(c)
  <2>1. Stream(c)' = Stream(c) /\ Owed(c)' = Owed(c)
    BY <1>1 DEF Stream, Owed
  <2>2. CASE c = d
    BY <1>1, <1>2, <1>3, <2>1, <2>2 DEF Given, Phase
  <2>3. CASE c # d
    BY <1>1, <1>2, <2>1, <2>3, ClientAssumption DEF Given, Phase
  <2> QED
    BY <2>2, <2>3
<1> QED
  BY <1>1, <1>4, SameForAll

\* Register is a subscription: the loop may be in the middle of a chunk, and does not owe
\* it to the newcomer.  A connection that has already ended is registered to no effect.
LEMMA RegisterSubscribes ==
  ASSUME Inv, Register
  PROVE  (\E d \in Clients : Atomic!Subscribe(d)) \/ UNCHANGED Atomic!vars
<1>1. /\ accepting \in Clients
      /\ clients' = Others(accepting) \cup {accepting}
      /\ accepting' = NoClient
      /\ UNCHANGED <<id, last, chunk, target, todo, conn, sock, got>>
  BY DEF Register, Inv, TypeOK, readerVars, loopVars, netVars
<1>2. \A c \in Clients : Given(c)' = Given(c)
  BY <1>1, QuietGiven
<1>3. ASSUME NEW c \in Clients, c # accepting PROVE Phase(c)' = Phase(c)
  <2>1. conn[c] = "open" => (c \in clients' <=> c \in clients)
    BY <1>1, <1>3 DEF Others, Inv, Addresses
  <2> QED
    BY <1>1, <1>3, <2>1, ClientAssumption DEF Phase
<1>4. CASE conn[accepting] = "open"
  <2>1. Phase(accepting) = "new"
    BY <1>4 DEF Phase
  <2> PICK d \in Clients : d = accepting
    BY <1>1
  <2>2. Phase(d) = "new" /\ Phase(d)' = "member"
    BY <1>1, <1>4, <2>1, ClientAssumption DEF Phase
  <2>3. Given(d) = <<>>
    <3>1. got[d] = <<>> /\ sock[d] = <<>> /\ ~Owed(d)
      BY DEF Inv, Registry, Newcomer
    <3> QED
      BY <3>1 DEF Given, Stream
  <2>4. Atomic!Subscribe(d)
    BY <1>1, <1>2, <1>3, <2>2, <2>3 DEF Atomic!Subscribe
  <2> QED
    BY <2>4
<1>5. CASE conn[accepting] # "open"
  <2>1. ASSUME NEW c \in Clients, c = accepting PROVE Phase(c)' = Phase(c)
    BY <1>1, <1>5, <2>1, ClientAssumption DEF Phase, Inv, Addresses
  <2>2. \A c \in Clients : Phase(c)' = Phase(c)
    BY <1>3, <2>1
  <2> QED
    BY <1>1, <1>2, <2>2, SameForAll
<1> QED
  BY <1>4, <1>5

\* Remove makes the server forget the one connection that is open from the same address,
\* if there is one; that of the handler has ended.
LEMMA RemoveForgets ==
  ASSUME Inv, NEW d \in Clients, Remove(d)
  PROVE  (\E c \in Clients : Atomic!Forget(c)) \/ UNCHANGED Atomic!vars
<1>1. /\ conn[d] \in {"gone", "closed"}
      /\ clients' = Others(d)
      /\ UNCHANGED <<id, last, accepting, chunk, target, todo, conn, sock, got>>
  BY DEF Remove, readerVars, loopVars, netVars
<1>2. \A c \in Clients : Given(c)' = Given(c)
  BY <1>1, QuietGiven
<1> DEFINE Loses(c) == c \in clients /\ id[c] = id[d] /\ conn[c] = "open"
<1>3. ASSUME NEW c \in Clients, ~Loses(c) PROVE Phase(c)' = Phase(c)
  <2>1. conn[c] = "open" => (c \in clients' <=> c \in clients)
    BY <1>1, <1>3 DEF Others
  <2> QED
    BY <1>1, <2>1 DEF Phase
<1>4. CASE \E c \in Clients : Loses(c)
  <2> PICK e \in Clients : Loses(e)
    BY <1>4
  <2>1. \A c \in Clients : c # e => ~Loses(c)
    BY DEF Inv, Addresses
  <2>2. Phase(e) = "member" /\ Phase(e)' = "forgotten"
    BY <1>1 DEF Phase, Others, Inv, Registry, Newcomer
  <2>3. Phase(d) = "ended" /\ id[d] = id[e]
    BY <1>1 DEF Phase
  <2>4. \A c \in Clients : c # e => Phase(c)' = Phase(c)
    BY <1>3, <2>1
  <2>5. Atomic!Forget(e)
    BY <1>1, <1>2, <2>2, <2>3, <2>4 DEF Atomic!Forget
  <2> QED
    BY <2>5
<1>5. CASE \A c \in Clients : ~Loses(c)
  BY <1>1, <1>2, <1>3, <1>5, SameForAll
<1> QED
  BY <1>4, <1>5

\* Leave ends one connection: what the client has not read, or is owed, is lost.
LEMMA LeaveUnsubscribes ==
  ASSUME Inv, NEW d \in Clients, Leave(d)
  PROVE  Atomic!Unsubscribe({d}) /\ Phase(d) # "ended"
<1>1. /\ conn[d] = "open" /\ conn' = [conn EXCEPT ![d] = "gone"]
      /\ sock' = [sock EXCEPT ![d] = <<>>]
      /\ UNCHANGED <<id, last, clients, accepting, chunk, target, todo, got>>
  BY DEF Leave, readerVars, registryVars, loopVars
<1>2. /\ conn \in [Clients -> {"new", "open", "gone", "closed"}]
      /\ sock \in [Clients -> Seq(Chunks)] /\ got \in [Clients -> Seq(Chunks)]
  BY DEF Inv, TypeOK
<1>3. /\ Phase(d) # "ended" /\ Phase(d)' = "ended"
      /\ \A c \in Clients : c # d => Phase(c)' = Phase(c)
  BY <1>1, <1>2 DEF Phase
<1>4. \A c \in Clients : c # d => Given(c)' = Given(c)
  BY <1>1, <1>2 DEF Given, Stream, Owed
<1>5. \E n \in 0 .. Len(Given(d)) : Given(d)' = SubSeq(Given(d), 1, n)
  <2>1. got[d] \in Seq(Chunks) /\ sock[d] \in Seq(Chunks)
    BY <1>2
  <2>2. Given(d)' = got[d]
    <3>1. sock'[d] = <<>> /\ got'[d] = got[d] /\ conn'[d] = "gone"
      BY <1>1, <1>2
    <3>2. Given(d)' = (got[d] \o <<>>) \o <<>>
      BY <3>1 DEF Given, Stream
    <3> QED
      BY <2>1, <3>2
  <2>3. PICK r \in Seq(Chunks) : Given(d) = (got[d] \o sock[d]) \o r
    <3>1. <<>> \in Seq(Chunks) /\ (Owed(d) => <<chunk>> \in Seq(Chunks))
      BY ClientTypes
    <3> QED
      BY <3>1 DEF Given, Stream
  <2>4. sock[d] \o r \in Seq(Chunks)
    BY <2>1
  <2>5. (got[d] \o sock[d]) \o r = got[d] \o (sock[d] \o r)
    BY <2>1, JoinThree
  <2> QED
    BY <2>1, <2>2, <2>3, <2>4, <2>5, FirstIsBeginning, ZenonT(30)
<1> QED
  BY <1>1, <1>3, <1>4, <1>5 DEF Atomic!Unsubscribe

\* Stop ends every registered connection, also those the loop still owes its chunk.
LEMMA StopUnsubscribes ==
  ASSUME Inv, Stop
  PROVE  \E S \in SUBSET {c \in Clients : Phase(c) # "ended"} : Atomic!Unsubscribe(S)
<1> PICK M : M = {c \in Clients : conn[c] = "open" /\ c \in clients}
  OBVIOUS
<1>1. /\ conn' = [c \in Clients |-> IF c \in clients THEN "closed" ELSE conn[c]]
      /\ clients' = {}
      /\ UNCHANGED <<id, last, accepting, chunk, target, todo, sock, got>>
  BY DEF Stop, readerVars, loopVars
<1>2. \A c \in Clients : c \in clients => conn[c] # "new" /\ c # accepting
  BY DEF Inv, Registry, Newcomer
<1>3. ASSUME NEW c \in Clients, c \notin M
      PROVE  Given(c)' = Given(c) /\ Phase(c)' = Phase(c)
  <2>1. CASE c \in clients
    BY <1>1, <1>2, <1>3, <2>1 DEF Given, Stream, Phase
  <2>2. CASE c \notin clients
    <3>1. conn'[c] = conn[c]
      BY <1>1, <2>2
    <3>2. Stream(c)' = Stream(c) /\ Owed(c)' = Owed(c)
      BY <1>1 DEF Stream, Owed
    <3> QED
      BY <1>1, <2>2, <3>1, <3>2 DEF Given, Phase
  <2> QED
    BY <2>1, <2>2
<1>4. ASSUME NEW c \in M
      PROVE  /\ Phase(c) # "ended" /\ Phase(c)' = "ended"
             /\ \E n \in 0 .. Len(Given(c)) : Given(c)' = SubSeq(Given(c), 1, n)
  <2>1. c \in Clients /\ conn[c] = "open" /\ conn'[c] = "closed"
    BY <1>1, <1>4
  <2>2. Given(c)' = Stream(c) \o <<>> /\ Stream(c) \in Seq(Chunks)
    BY <1>1, <2>1, ClientTypes DEF Given, Stream
  <2> PICK r \in Seq(Chunks) : Given(c) = Stream(c) \o r
    <3>1. <<>> \in Seq(Chunks) /\ (Owed(c) => <<chunk>> \in Seq(Chunks))
      BY <2>1, ClientTypes
    <3> QED
      BY <3>1 DEF Given
  <2>3. Stream(c) \o <<>> = Stream(c)
    BY <2>2
  <2>4. \E n \in 0 .. Len(Given(c)) : Given(c)' = SubSeq(Given(c), 1, n)
    BY <2>2, <2>3, FirstIsBeginning
  <2> QED
    BY <2>1, <2>4 DEF Phase
<1>5. Atomic!Unsubscribe(M)
  BY <1>1, <1>3, <1>4 DEF Atomic!Unsubscribe
<1>6. M \in SUBSET {c \in Clients : Phase(c) # "ended"}
  BY <1>4
<1> QED
  BY <1>5, <1>6

\* The path implements the atomic broadcast, for any clients, addresses, capacities and
\* amount of data: the loop's snapshot decides who gets a chunk, whoever joins, leaves, is
\* forgotten or blocks while the loop works it off; and a client that is connected is in
\* it from its registration on, unless an earlier connection from its address has ended.
THEOREM PathBroadcastsAtomically == Spec => ImplementsAtomicBroadcast
<1>1. Init => Atomic!Init
  <2> SUFFICES ASSUME Init PROVE Atomic!Init
    OBVIOUS
  <2>1. /\ conn = [c \in Clients |-> "new"]
        /\ sock = [c \in Clients |-> <<>>]
        /\ got = [c \in Clients |-> <<>>]
        /\ last = 0 /\ chunk = 0
    BY DEF Init
  <2>2. ASSUME NEW c \in Clients PROVE Given(c) = <<>> /\ Phase(c) = "new"
    BY <2>1 DEF Given, Stream, Phase
  <2> QED
    BY <2>1, <2>2 DEF Atomic!Init
<1>2. Inv /\ [Next]_vars => [Atomic!Next]_(Atomic!vars)
  <2> SUFFICES ASSUME Inv, [Next]_vars PROVE [Atomic!Next]_(Atomic!vars)
    OBVIOUS
  <2>1. CASE \/ Select \/ Broadcast \/ EndLoop \/ Signal \/ UNCHANGED vars
             \/ \E c \in Clients : Stall(c)
    <3>1. UNCHANGED <<last, registryVars, chunk, target, todo, conn, sock, got>>
      BY <2>1 DEF Select, Broadcast, EndLoop, Signal, Stall, vars, readerVars, loopVars, netVars
    <3> QED
      BY <3>1, SameForAll, QuietGiven, SamePhase DEF registryVars
  <2>2. CASE ReadSerial
    <3>1. /\ UNCHANGED <<registryVars, chunk, target, todo, conn, sock, got>>
          /\ last' = last + 1 \/ last' = last
      BY <2>2 DEF ReadSerial, loopVars, netVars
    <3>2. \A c \in Clients : Given(c)' = Given(c) /\ Phase(c)' = Phase(c)
      BY <3>1, QuietGiven, SamePhase
    <3>3. Atomic!Produce \/ UNCHANGED Atomic!vars
      BY <3>1, <3>2 DEF Atomic!Produce, Atomic!vars, registryVars
    <3> QED
      BY <3>3 DEF Atomic!Next
  <2>3. CASE Dequeue
    BY <2>3, DequeueDistributes DEF Atomic!Next
  <2>4. CASE Write
    BY <2>4, WriteStutters
  <2>5. CASE Stop
    <3>1. PICK S \in SUBSET {c \in Clients : Phase(c) # "ended"} : Atomic!Unsubscribe(S)
      BY <2>5, StopUnsubscribes
    <3>2. S \in SUBSET {c \in Clients : [e \in Clients |-> Phase(e)][c] # "ended"}
      BY <3>1
    <3> QED
      BY <3>1, <3>2 DEF Atomic!Next
  <2>6. CASE Register
    BY <2>6, RegisterSubscribes DEF Atomic!Next
  <2>7. ASSUME NEW c \in Clients, Leave(c) PROVE Atomic!Next
    <3>1. Atomic!Unsubscribe({c}) /\ Phase(c) # "ended"
      BY <2>7, LeaveUnsubscribes
    <3>2. {c} \in SUBSET {b \in Clients : [e \in Clients |-> Phase(e)][b] # "ended"}
      BY <3>1
    <3> QED
      BY <3>1, <3>2 DEF Atomic!Next
  <2>8. ASSUME NEW c \in Clients, ClientRead(c) \/ Accept(c) PROVE UNCHANGED Atomic!vars
    BY <2>8, ClientReadStutters, AcceptStutters
  <2>9. ASSUME NEW c \in Clients, Remove(c) PROVE [Atomic!Next]_(Atomic!vars)
    BY <2>9, RemoveForgets DEF Atomic!Next
  <2> QED
    BY <2>1, <2>2, <2>3, <2>4, <2>5, <2>6, <2>7, <2>8, <2>9 DEF Next, Reader, Loop
<1> QED
  BY <1>1, <1>2, InvAlways, PTL DEF Spec, ImplementsAtomicBroadcast, Atomic!Spec
==============================================================================
