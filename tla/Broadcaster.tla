---------------------------- MODULE Broadcaster ----------------------------
(***************************************************************************)
(* internal/broadcast/broadcast.go: a Broadcaster with its process loop,   *)
(* and the MockClients that subscribe.  process starts one goroutine per   *)
(* subscriber and chunk, so that one that is slow holds up nobody; the     *)
(* goroutines of a subscriber may overtake each other.  One goroutine      *)
(* calls Broadcast.  Chunks are numbered from 1, sizes are in chunks.      *)
(***************************************************************************)
EXTENDS Integers, Sequences, Functions

CONSTANTS Subs,          \* MockClients
          InputCap,      \* capacity of bc.input: 1024
          QueueCap,      \* capacity of a sendQueue: 1024
          MaxBufferSize, \* 1 MB
          MaxData        \* BOUND: chunks that are broadcast

ASSUME CapAssumption == /\ InputCap \in Nat /\ QueueCap \in Nat \ {0}
                        /\ MaxBufferSize \in Nat \ {0} /\ MaxData \in Nat

VARIABLES clients,       \* bc.clients
          inputChan,     \* bc.input: what it holds
          inputClosed,   \* bc.input is closed
          data,          \* number of the last chunk that Broadcast was called with
          caller,        \* Broadcast: "idle", "sending", "panic"
          sending,       \* the goroutines <<c, k>> in client.Send
          sendQueue,     \* mc.sendQueue of each subscriber
          received       \* mc.received of each subscriber

bcVars == <<clients, inputChan, inputClosed, data, caller, sending, sendQueue, received>>

BcInit == /\ clients = {}
          /\ inputChan = <<>>
          /\ inputClosed = FALSE
          /\ data = 0
          /\ caller = "idle"
          /\ sending = {}
          /\ sendQueue = [c \in Subs |-> <<>>]
          /\ received = [c \in Subs |-> <<>>]

AddClient(c) == /\ clients' = clients \cup {c}
                /\ UNCHANGED <<inputChan, inputClosed, data, caller, sending, sendQueue, received>>

RemoveClient(c) == /\ clients' = clients \ {c}
                   /\ UNCHANGED <<inputChan, inputClosed, data, caller, sending, sendQueue, received>>

Broadcast == /\ caller = "idle"
             /\ data < MaxData
             /\ data' = data + 1
             /\ caller' = "sending"
             /\ UNCHANGED <<clients, inputChan, inputClosed, sending, sendQueue, received>>

\* bc.input <- data: it waits while the channel is full, also for a Close, and a closed
\* channel makes it panic.
SendInput == /\ caller = "sending"
             /\ IF inputClosed THEN caller' = "panic" /\ UNCHANGED inputChan
                ELSE /\ Len(inputChan) < InputCap
                     /\ inputChan' = Append(inputChan, data)
                     /\ caller' = "idle"
             /\ UNCHANGED <<clients, inputClosed, data, sending, sendQueue, received>>

\* wg counts nothing: Close does not wait.
Close == /\ ~inputClosed
         /\ inputClosed' = TRUE
         /\ UNCHANGED <<clients, inputChan, data, caller, sending, sendQueue, received>>

ProcessUntilClosed ==
  /\ inputChan # <<>>
  /\ ~inputClosed
  /\ inputChan' = Tail(inputChan)
  /\ sending' = sending \cup (clients \X {Head(inputChan)})
  /\ UNCHANGED <<clients, inputClosed, data, caller, sendQueue, received>>

\* One round of process; ranging over a closed channel goes on until it is empty.
Process == /\ inputChan # <<>>
           /\ inputChan' = Tail(inputChan)
           /\ sending' = sending \cup (clients \X {Head(inputChan)})
           /\ UNCHANGED <<clients, inputClosed, data, caller, sendQueue, received>>

\* mc.sendQueue <- data.
Send(c, k) == /\ <<c, k>> \in sending
              /\ Len(sendQueue[c]) < QueueCap
              /\ sending' = sending \ {<<c, k>>}
              /\ sendQueue' = [sendQueue EXCEPT ![c] = Append(@, k)]
              /\ UNCHANGED <<clients, inputChan, inputClosed, data, caller, received>>

AppendWithLimitOffByOne(s, x) == LET all == Append(s, x)
                                 IN  IF Len(all) > MaxBufferSize
                                     THEN SubSeq(all, Len(all) - MaxBufferSize, Len(all)) ELSE all

\* The newest MaxBufferSize of s and x.
AppendWithLimit(s, x) == LET all == Append(s, x)
                         IN  IF Len(all) > MaxBufferSize
                             THEN SubSeq(all, Len(all) - MaxBufferSize + 1, Len(all)) ELSE all

\* One round of processQueue; processQueueWithDelay only sleeps before it.
ProcessQueue(c) == /\ sendQueue[c] # <<>>
                   /\ sendQueue' = [sendQueue EXCEPT ![c] = Tail(@)]
                   /\ received' = [received EXCEPT ![c] = AppendWithLimit(@, Head(sendQueue[c]))]
                   /\ UNCHANGED <<clients, inputChan, inputClosed, data, caller, sending>>

\* A panic that nobody recovers from ends the process.
Alive == caller # "panic"
BcNext == /\ Alive
          /\ \/ Broadcast \/ SendInput \/ Close \/ Process
             \/ \E c \in Subs : \/ AddClient(c) \/ RemoveClient(c) \/ ProcessQueue(c)
                                \/ \E k \in 1 .. data : Send(c, k)

BcSpec == BcInit /\ [][BcNext]_bcVars

\* Every goroutine goes on while it can.
BcFairness == /\ WF_bcVars(Alive /\ Process)
              /\ \A c \in Subs : /\ WF_bcVars(Alive /\ ProcessQueue(c))
                                 /\ \A k \in 1 .. MaxData : SF_bcVars(Alive /\ Send(c, k))

------------------------------------------------------------------------------
(* A chunk that process took, or will take, reaches every subscriber that stays, *)
(* also when Close comes first and however slow other subscribers are: Close     *)
(* cuts nothing off, and no goroutine waits for ever, as long as no Broadcast    *)
(* meets the closed channel (broadcast.go:38-45, 76, 142, 162).                  *)
BroadcastArrives ==
  \A c \in Subs, k \in 1 .. MaxData :
     (c \in clients /\ \E i \in DOMAIN inputChan : inputChan[i] = k) ~>
        (~Alive \/ c \notin clients \/ \E i \in DOMAIN received[c] : received[c][i] = k)

(* No subscriber gets a chunk twice, and it keeps no more than MaxBufferSize:    *)
(* a chunk is in one place of the way to it (broadcast.go:41, 126-138).          *)
OncePerClient ==
  \A c \in Subs :
    LET waiting == {k \in 1 .. data : <<c, k>> \in sending}
    IN  /\ Len(received[c]) <= MaxBufferSize
        /\ \A q \in {inputChan, sendQueue[c], received[c]} : IsInjective(q)
        /\ Range(inputChan) \cap (waiting \cup Range(sendQueue[c]) \cup Range(received[c])) = {}
        /\ waiting \cap (Range(sendQueue[c]) \cup Range(received[c])) = {}
        /\ Range(sendQueue[c]) \cap Range(received[c]) = {}
============================================================================
