---------------------------- MODULE PackageProofs ----------------------------
(***************************************************************************)
(* Proofs for the serial handler, the virtual terminal and the             *)
(* Broadcaster, for any number of writers, clients and subscribers.        *)
(***************************************************************************)
EXTENDS SerialPort, Terminal, Broadcaster, TLAPS

------------------------------------------------------------------------------
(* pkg/serial. *)

\* h.mu is held by the one client that is in port.Write; the owner it checked is the
\* owner still, because changing it takes h.mu.
HandlerInv == /\ wr \in [Writers -> {"idle", "locked", "plain"}]
              /\ \A c \in Writers : wr[c] # "idle" => handlerMu = c
              /\ \A c \in Writers : wr[c] = "locked" => writeOwner = c

\* Every step of the port and the handler keeps the invariant.
LEMMA HandlerInvStep ==
  ASSUME HandlerInv, [PortNext]_portVars
  PROVE  HandlerInv'
<1> USE NobodyAssumption DEF HandlerInv
<1>1. CASE Read \/ ReadReturns \/ MockRead \/ ClosePort \/ DeviceSends
  BY <1>1 DEF Read, ReadReturns, MockRead, ClosePort, DeviceSends
<1>2. ASSUME NEW c \in Writers, WriteWithLock(c)
      PROVE  HandlerInv'
  BY <1>2 DEF WriteWithLock
<1>3. ASSUME NEW c \in Writers, Write(c)
      PROVE  HandlerInv'
  BY <1>3 DEF Write
<1>4. ASSUME NEW c \in Writers, PortWrite(c)
      PROVE  HandlerInv'
  BY <1>4 DEF PortWrite
<1>5. ASSUME NEW c, SetWriteLockOwner(c)
      PROVE  HandlerInv'
  BY <1>5 DEF SetWriteLockOwner
<1>6. CASE UNCHANGED portVars
  BY <1>6 DEF portVars
<1> QED BY <1>1, <1>2, <1>3, <1>4, <1>5, <1>6 DEF PortNext, ClearWriteLock

(* WriteWithLock writes for its owner, alone, on every platform and with any     *)
(* number of clients (serial.go:104-127).                                        *)
THEOREM HandlerWritesForOwner == PortSpec => []OwnerWrites
<1>1. PortInit => HandlerInv
  BY DEF PortInit, HandlerInv
<1>2. HandlerInv /\ [PortNext]_portVars => HandlerInv'
  BY HandlerInvStep
<1>3. HandlerInv => OwnerWrites
  BY NobodyAssumption DEF HandlerInv, OwnerWrites
<1> QED BY <1>1, <1>2, <1>3, PTL DEF PortSpec

------------------------------------------------------------------------------
(* internal/pty. *)

\* Without sharing there is one open terminal at a time, so that no other Close can
\* take its link away.
LinkInv == /\ pty \in [Terms -> {"none", "open", "closed", "dead"}]
           /\ made \in [Terms -> {"real", "noLink", "noPty"}]
           /\ ~shared => \A d, e \in Terms : (pty[d] = "open" /\ pty[e] = "open") => d = e
           /\ LinkUnlessShared

\* A terminal that is created takes the path over.
LEMMA CreatedKeepsLinkInv ==
  ASSUME LinkInv, NEW d \in Terms, NEW what \in {"real", "noLink", "noPty"}, NEW l,
         Created(d, what, l), what = "real" => l = d
  PROVE  LinkInv'
  BY DEF Created, LinkInv, LinkUnlessShared

\* Every step of the terminals keeps the invariant.
LEMMA LinkInvStep ==
  ASSUME LinkInv, [TermNext]_termVars
  PROVE  LinkInv'
<1>1. ASSUME NEW d \in Terms, CreatePTY(d)
      PROVE  LinkInv'
  BY <1>1, CreatedKeepsLinkInv DEF CreatePTY
<1>2. ASSUME NEW d \in Terms, \/ ReadPTY(d) \/ ReadPTYReturns(d) \/ WritePTY(d)
                              \/ ReadFromSlave(d) \/ Attach(d) \/ Detach(d) \/ Types(d)
      PROVE  LinkInv'
  BY <1>2 DEF ReadPTY, ReadPTYReturns, ReadPTYGets, WritePTY, ReadFromSlave, Attach, Detach,
              Types, LinkInv, LinkUnlessShared
<1>3. ASSUME NEW d \in Terms, ClosePTY(d)
      PROVE  LinkInv'
  BY <1>3 DEF ClosePTY, LinkInv, LinkUnlessShared
<1>4. ASSUME NEW d \in Terms, Crash(d)
      PROVE  LinkInv'
  BY <1>4 DEF Crash, LinkInv, LinkUnlessShared
<1>5. CASE UNCHANGED termVars
  BY <1>5 DEF termVars, LinkInv, LinkUnlessShared
<1> QED BY <1>1, <1>2, <1>3, <1>4, <1>5 DEF TermNext

(* Any number of clients may use the path one after the other, crashed ones      *)
(* among them, and each is found under it (real_pty_linux.go:83-92, 146-167).    *)
THEOREM LinkLeadsToOwner == TermSpec => []LinkUnlessShared
<1>1. TermInit => LinkInv
  BY DEF TermInit, LinkInv, LinkUnlessShared
<1>2. LinkInv /\ [TermNext]_termVars => LinkInv'
  BY LinkInvStep
<1>3. LinkInv => LinkUnlessShared
  BY DEF LinkInv
<1> QED BY <1>1, <1>2, <1>3, PTL DEF TermSpec

------------------------------------------------------------------------------
(* internal/broadcast. *)

\* The chunk k was taken from the channel: it is older than everything there and than
\* what Broadcast is about to put there.
Taken(k) == /\ k <= data
            /\ caller = "sending" => k < data
            /\ \A i \in 1 .. Len(inputChan) : k < inputChan[i]

\* The channel holds increasing numbers, so that no chunk is taken twice.
ChannelInv == /\ data \in Nat
              /\ inputChan \in Seq(Nat)
              /\ \A j \in 1 .. Len(inputChan) :
                   /\ inputChan[j] <= data
                   /\ caller = "sending" => inputChan[j] < data
                   /\ \A i \in 1 .. j - 1 : inputChan[i] < inputChan[j]

\* Behind the channel, a chunk is in one place of the way to c.
WayInv(c) ==
  /\ \A i \in 1 .. Len(sendQueue[c]) : /\ Taken(sendQueue[c][i])
                                       /\ <<c, sendQueue[c][i]>> \notin sending
  /\ \A i \in 1 .. Len(received[c]) : /\ Taken(received[c][i])
                                      /\ <<c, received[c][i]>> \notin sending
  /\ \A i, j \in 1 .. Len(sendQueue[c]) : sendQueue[c][i] = sendQueue[c][j] => i = j
  /\ \A i, j \in 1 .. Len(received[c]) : received[c][i] = received[c][j] => i = j
  /\ \A i \in 1 .. Len(sendQueue[c]), j \in 1 .. Len(received[c]) :
       sendQueue[c][i] # received[c][j]
  /\ Len(received[c]) <= MaxBufferSize

BcInv == /\ ChannelInv
         /\ clients \subseteq Subs
         /\ sending \subseteq Subs \X Nat
         /\ sendQueue \in [Subs -> Seq(Nat)]
         /\ received \in [Subs -> Seq(Nat)]
         /\ \A c \in Subs, k \in Nat : <<c, k>> \in sending => Taken(k)
         /\ \A c \in Subs : WayInv(c)

\* Nothing is on the way when the Broadcaster is made.
LEMMA BcInitInv == BcInit => BcInv
<1> SUFFICES ASSUME BcInit PROVE BcInv
  OBVIOUS
<1>1. /\ data = 0 /\ inputChan = <<>> /\ clients = {} /\ sending = {} /\ caller = "idle"
      /\ \A c \in Subs : sendQueue[c] = <<>> /\ received[c] = <<>>
  BY DEF BcInit
<1>2. ChannelInv
  BY <1>1 DEF ChannelInv
<1>3. sendQueue \in [Subs -> Seq(Nat)] /\ received \in [Subs -> Seq(Nat)]
  BY DEF BcInit
<1>4. ASSUME NEW c \in Subs PROVE WayInv(c)
  <2>1. sendQueue[c] = <<>> /\ received[c] = <<>> /\ Len(<<>>) = 0
    BY <1>1
  <2>2. 0 <= MaxBufferSize
    BY CapAssumption
  <2> QED
    BY <2>1, <2>2 DEF WayInv
<1> QED
  BY <1>1, <1>2, <1>3, <1>4 DEF BcInv

\* The newest MaxBufferSize chunks of s and x are chunks of s and x, in their order.
LEMMA LimitKeepsNewest ==
  ASSUME NEW s \in Seq(Nat), NEW x \in Nat, Len(s) <= MaxBufferSize
  PROVE  /\ AppendWithLimit(s, x) \in Seq(Nat)
         /\ Len(AppendWithLimit(s, x)) <= MaxBufferSize
         /\ \E d \in {0, 1} :
              /\ Len(AppendWithLimit(s, x)) = Len(s) + 1 - d
              /\ \A i \in 1 .. Len(AppendWithLimit(s, x)) :
                   /\ i + d \in 1 .. Len(s) + 1
                   /\ AppendWithLimit(s, x)[i] = IF i + d = Len(s) + 1 THEN x ELSE s[i + d]
<1> DEFINE all == Append(s, x)
<1>1. /\ all \in Seq(Nat) /\ Len(s) \in Nat /\ Len(all) = Len(s) + 1
      /\ \A i \in 1 .. Len(s) + 1 : all[i] = IF i = Len(s) + 1 THEN x ELSE s[i]
  OBVIOUS
<1>2. MaxBufferSize \in Nat
  BY CapAssumption
<1>3. CASE Len(all) > MaxBufferSize
  <2>1. MaxBufferSize = Len(s)
    BY <1>1, <1>2, <1>3
  <2>2. AppendWithLimit(s, x) = SubSeq(all, 2, Len(s) + 1)
    <3>1. AppendWithLimit(s, x) = SubSeq(all, Len(all) - MaxBufferSize + 1, Len(all))
      BY <1>3 DEF AppendWithLimit
    <3>2. Len(all) - MaxBufferSize + 1 = 2
      BY <1>1, <2>1
    <3> QED
      BY <1>1, <3>1, <3>2
  <2> HIDE DEF all
  <2>3. /\ SubSeq(all, 2, Len(s) + 1) \in Seq(Nat)
        /\ Len(SubSeq(all, 2, Len(s) + 1)) = Len(s)
        /\ \A i \in 1 .. Len(s) : SubSeq(all, 2, Len(s) + 1)[i] = all[i + 1]
    BY <1>1, SMTT(30)
  <2>4. \A i \in 1 .. Len(s) : i + 1 \in 1 .. Len(s) + 1
    BY <1>1
  <2> QED
    BY <1>1, <2>1, <2>2, <2>3, <2>4, SMTT(30)
<1>4. CASE ~(Len(all) > MaxBufferSize)
  <2>1. AppendWithLimit(s, x) = all
    BY <1>4 DEF AppendWithLimit
  <2> HIDE DEF all
  <2> QED
    BY <1>1, <1>2, <1>4, <2>1
<1> QED
  BY <1>3, <1>4

\* A step that leaves alone what is behind the channel.
LEMMA WayStays ==
  ASSUME BcInv, UNCHANGED <<sending, sendQueue, received>>,
         \A k \in Nat : Taken(k) => Taken(k)'
  PROVE  /\ \A c \in Subs, k \in Nat : <<c, k>> \in sending' => Taken(k)'
         /\ \A c \in Subs : WayInv(c)'
<1>1. \A c \in Subs, k \in Nat : <<c, k>> \in sending' => Taken(k)'
  BY DEF BcInv
<1>2. ASSUME NEW c \in Subs PROVE WayInv(c)'
  <2>1. /\ \A i \in 1 .. Len(sendQueue[c]) : sendQueue[c][i] \in Nat
        /\ \A i \in 1 .. Len(received[c]) : received[c][i] \in Nat
    BY DEF BcInv
  <2> QED
    BY <2>1 DEF BcInv, WayInv
<1> QED
  BY <1>1, <1>2

\* Every step of the Broadcaster, its callers and its clients keeps the invariant.
LEMMA BcInvStep == ASSUME BcInv, [BcNext]_bcVars PROVE BcInv'
<1>0. /\ data \in Nat /\ inputChan \in Seq(Nat) /\ Len(inputChan) \in Nat
      /\ \A i \in 1 .. Len(inputChan) : inputChan[i] \in Nat
      /\ sendQueue \in [Subs -> Seq(Nat)] /\ received \in [Subs -> Seq(Nat)]
  BY DEF BcInv, ChannelInv
<1>1. ASSUME UNCHANGED <<inputChan, data, caller, sending, sendQueue, received>>,
             clients' \subseteq Subs
      PROVE  BcInv'
  <2>1. \A k \in Nat : Taken(k) => Taken(k)'
    BY <1>1 DEF Taken
  <2>2. ChannelInv'
    BY <1>1 DEF BcInv, ChannelInv
  <2> QED
    BY <1>1, <2>1, <2>2, WayStays DEF BcInv
<1>2. CASE Broadcast
  <2>1. /\ data' = data + 1 /\ caller = "idle" /\ caller' = "sending"
        /\ UNCHANGED <<clients, inputChan, sending, sendQueue, received>>
    BY <1>2 DEF Broadcast
  <2>2. \A k \in Nat : Taken(k) => Taken(k)'
    BY <1>0, <2>1 DEF Taken
  <2>3. ChannelInv'
    BY <1>0, <2>1 DEF BcInv, ChannelInv
  <2> QED
    BY <2>1, <2>2, <2>3, WayStays DEF BcInv
<1>3. CASE SendInput
  <2>1. CASE inputClosed
    <3>1. /\ caller' = "panic"
          /\ UNCHANGED <<clients, inputChan, data, sending, sendQueue, received>>
      BY <1>3, <2>1 DEF SendInput
    <3>2. \A k \in Nat : Taken(k) => Taken(k)'
      BY <3>1 DEF Taken
    <3>3. ChannelInv'
      BY <3>1 DEF BcInv, ChannelInv
    <3> QED
      BY <3>1, <3>2, <3>3, WayStays DEF BcInv
  <2>2. CASE ~inputClosed
    <3>1. /\ caller = "sending" /\ caller' = "idle"
          /\ inputChan' = Append(inputChan, data)
          /\ UNCHANGED <<clients, data, sending, sendQueue, received>>
      BY <1>3, <2>2 DEF SendInput
    <3>2. /\ inputChan' \in Seq(Nat) /\ Len(inputChan') = Len(inputChan) + 1
          /\ \A i \in 1 .. Len(inputChan') :
               \/ i \in 1 .. Len(inputChan) /\ inputChan'[i] = inputChan[i]
               \/ i = Len(inputChan) + 1 /\ inputChan'[i] = data
      BY <1>0, <3>1
    <3>3. \A k \in Nat : Taken(k) => Taken(k)'
      BY <1>0, <3>1, <3>2 DEF Taken
    <3>4. ASSUME NEW j \in 1 .. Len(inputChan')
          PROVE  /\ inputChan'[j] <= data
                 /\ \A i \in 1 .. j - 1 : inputChan'[i] < inputChan'[j]
      <4>1. CASE j \in 1 .. Len(inputChan)
        <5>1. \A i \in 1 .. j - 1 : i \in 1 .. Len(inputChan) /\ inputChan'[i] = inputChan[i]
          BY <1>0, <3>2, <4>1, SMTT(30)
        <5>2. inputChan'[j] = inputChan[j]
          BY <1>0, <3>2, <4>1
        <5> QED
          BY <4>1, <5>1, <5>2 DEF BcInv, ChannelInv
      <4>2. CASE j = Len(inputChan) + 1
        <5>1. inputChan'[j] = data
          BY <1>0, <3>2, <4>2
        <5>2. ASSUME NEW i \in 1 .. j - 1 PROVE inputChan'[i] < data
          <6>1. i \in 1 .. Len(inputChan) /\ inputChan'[i] = inputChan[i]
            BY <1>0, <3>2, <4>2
          <6> QED
            BY <3>1, <6>1 DEF BcInv, ChannelInv
        <5> QED
          BY <1>0, <5>1, <5>2
      <4> QED
        BY <3>2, <4>1, <4>2
    <3>5. ChannelInv'
      BY <1>0, <3>1, <3>2, <3>4 DEF ChannelInv
    <3> QED
      BY <3>1, <3>3, <3>5, WayStays DEF BcInv
  <2> QED
    BY <2>1, <2>2
<1>4. CASE Process
  <2>1. /\ inputChan # <<>> /\ inputChan' = Tail(inputChan)
        /\ sending' = sending \cup (clients \X {Head(inputChan)})
        /\ UNCHANGED <<clients, data, caller, sendQueue, received>>
    BY <1>4 DEF Process
  <2>2. PICK h \in Nat : h = Head(inputChan) /\ h = inputChan[1] /\ 1 \in 1 .. Len(inputChan)
    BY <1>0, <2>1
  <2>3. /\ inputChan' \in Seq(Nat) /\ Len(inputChan') = Len(inputChan) - 1
        /\ \A i \in 1 .. Len(inputChan') : /\ i + 1 \in 1 .. Len(inputChan)
                                           /\ inputChan'[i] = inputChan[i + 1]
    BY <1>0, <2>1
  <2>4. \A k \in Nat : Taken(k) => Taken(k)' /\ k < h
    BY <1>0, <2>1, <2>2, <2>3 DEF Taken
  <2>5. Taken(h)'
    <3>1. h <= data /\ (caller = "sending" => h < data)
      BY <2>2 DEF BcInv, ChannelInv
    <3>2. ASSUME NEW i \in 1 .. Len(inputChan') PROVE h < inputChan'[i]
      <4>1. i + 1 \in 1 .. Len(inputChan) /\ 1 \in 1 .. (i + 1) - 1
        BY <2>3
      <4> QED
        BY <2>2, <2>3, <4>1 DEF BcInv, ChannelInv
    <3> QED
      BY <2>1, <3>1, <3>2 DEF Taken
  <2>6. ChannelInv'
    <3>1. ASSUME NEW j \in 1 .. Len(inputChan')
          PROVE  /\ inputChan'[j] <= data /\ (caller = "sending" => inputChan'[j] < data)
                 /\ \A i \in 1 .. j - 1 : inputChan'[i] < inputChan'[j]
      <4>1. j + 1 \in 1 .. Len(inputChan) /\ inputChan'[j] = inputChan[j + 1]
        BY <2>3
      <4>2. ASSUME NEW i \in 1 .. j - 1 PROVE inputChan'[i] < inputChan'[j]
        <5>1. i \in 1 .. Len(inputChan') /\ i + 1 \in 1 .. (j + 1) - 1
          BY <1>0, <2>3, <4>1
        <5> QED
          BY <2>3, <4>1, <5>1 DEF BcInv, ChannelInv
      <4> QED
        BY <4>1, <4>2 DEF BcInv, ChannelInv
    <3> QED
      BY <1>0, <2>1, <2>3, <3>1 DEF ChannelInv
  <2>7. sending' \subseteq Subs \X Nat
    BY <2>1, <2>2 DEF BcInv
  <2>8. ASSUME NEW c \in Subs, NEW k \in Nat
        PROVE  /\ <<c, k>> \in sending' => <<c, k>> \in sending \/ k = h
    BY <2>1, <2>2
  <2>9. \A c \in Subs, k \in Nat : <<c, k>> \in sending' => Taken(k)'
    BY <2>4, <2>5, <2>8 DEF BcInv
  <2>10. ASSUME NEW c \in Subs PROVE WayInv(c)'
    <3>1. /\ \A i \in 1 .. Len(sendQueue[c]) : sendQueue[c][i] \in Nat
          /\ \A i \in 1 .. Len(received[c]) : received[c][i] \in Nat
      BY <1>0
    <3>2. \A k \in Nat : k < h => k # h
      OBVIOUS
    <3>3. WayInv(c)
      BY DEF BcInv
    <3>4. \A i \in 1 .. Len(sendQueue[c]) : /\ Taken(sendQueue[c][i])'
                                            /\ <<c, sendQueue[c][i]>> \notin sending'
      BY <2>1, <2>4, <2>8, <3>1, <3>2, <3>3 DEF WayInv
    <3>5. \A i \in 1 .. Len(received[c]) : /\ Taken(received[c][i])'
                                           /\ <<c, received[c][i]>> \notin sending'
      BY <2>1, <2>4, <2>8, <3>1, <3>2, <3>3 DEF WayInv
    <3> QED
      BY <2>1, <3>3, <3>4, <3>5 DEF WayInv
  <2> QED
    BY <1>0, <2>1, <2>6, <2>7, <2>9, <2>10 DEF BcInv
<1>5. ASSUME NEW d \in Subs, NEW k \in 1 .. data, Send(d, k) PROVE BcInv'
  <2>1. /\ <<d, k>> \in sending /\ sending' = sending \ {<<d, k>>}
        /\ sendQueue' = [sendQueue EXCEPT ![d] = Append(sendQueue[d], k)]
        /\ UNCHANGED <<clients, inputChan, data, caller, received>>
    BY <1>5 DEF Send
  <2>2. k \in Nat
    BY <1>0
  <2>3. ChannelInv' /\ (\A x \in Nat : Taken(x) => Taken(x)')
    BY <2>1 DEF BcInv, ChannelInv, Taken
  <2>4. sendQueue' \in [Subs -> Seq(Nat)]
    BY <1>0, <2>1, <2>2
  <2>5. ASSUME NEW c \in Subs PROVE WayInv(c)'
    <3>1. CASE c # d
      <4>1. /\ sendQueue'[c] = sendQueue[c] /\ received'[c] = received[c]
            /\ \A x \in Nat : <<c, x>> \in sending' => <<c, x>> \in sending
        BY <1>0, <2>1, <3>1
      <4>2. /\ \A i \in 1 .. Len(sendQueue[c]) : sendQueue[c][i] \in Nat
            /\ \A i \in 1 .. Len(received[c]) : received[c][i] \in Nat
        BY <1>0, SMTT(30)
      <4> QED
        BY <2>3, <4>1, <4>2, ZenonT(30) DEF BcInv, WayInv
    <3>2. CASE c = d
      <4>1. /\ sendQueue[c] \in Seq(Nat) /\ received[c] \in Seq(Nat)
            /\ sendQueue'[c] = Append(sendQueue[c], k) /\ received'[c] = received[c]
            /\ \A x \in Nat : <<c, x>> \in sending' => <<c, x>> \in sending /\ x # k
            /\ Taken(k)
        BY <1>0, <2>1, <2>2, <3>2 DEF BcInv
      <4>2. /\ Len(sendQueue'[c]) = Len(sendQueue[c]) + 1 /\ Len(sendQueue[c]) \in Nat
            /\ \A i \in 1 .. Len(sendQueue'[c]) :
                 \/ i \in 1 .. Len(sendQueue[c]) /\ sendQueue'[c][i] = sendQueue[c][i]
                 \/ i = Len(sendQueue[c]) + 1 /\ sendQueue'[c][i] = k
            /\ \A i \in 1 .. Len(sendQueue[c]) : sendQueue[c][i] \in Nat
            /\ \A i \in 1 .. Len(received[c]) : received[c][i] \in Nat
        BY <2>2, <4>1, SMTT(30)
      <4>3. WayInv(c)
        BY DEF BcInv
      <4>4. /\ \A i \in 1 .. Len(sendQueue[c]) : sendQueue[c][i] # k
            /\ \A i \in 1 .. Len(received[c]) : received[c][i] # k
        BY <2>1, <3>2, <4>3 DEF WayInv
      <4>5. (\A i \in 1 .. Len(sendQueue[c]) : /\ Taken(sendQueue[c][i])
                                               /\ <<c, sendQueue[c][i]>> \notin sending)'
        <5> SUFFICES ASSUME NEW i \in 1 .. Len(sendQueue'[c])
                     PROVE  Taken(sendQueue[c][i])' /\ <<c, sendQueue'[c][i]>> \notin sending'
          OBVIOUS
        <5>1. CASE i \in 1 .. Len(sendQueue[c]) /\ sendQueue'[c][i] = sendQueue[c][i]
          BY <2>1, <4>1, <4>2, <4>3, <5>1 DEF WayInv, Taken
        <5>2. CASE sendQueue'[c][i] = k
          BY <2>1, <2>2, <4>1, <5>2 DEF Taken
        <5> QED
          BY <4>2, <5>1, <5>2
      <4>6. (\A i \in 1 .. Len(received[c]) : /\ Taken(received[c][i])
                                              /\ <<c, received[c][i]>> \notin sending)'
        BY <2>1, <4>1, <4>2, <4>3 DEF WayInv, Taken
      <4>7. \A i, j \in 1 .. Len(sendQueue'[c]) : sendQueue'[c][i] = sendQueue'[c][j] => i = j
        BY <4>2, <4>3, <4>4 DEF WayInv
      <4>8. \A i \in 1 .. Len(sendQueue'[c]), j \in 1 .. Len(received'[c]) :
              sendQueue'[c][i] # received'[c][j]
        BY <4>1, <4>2, <4>3, <4>4 DEF WayInv
      <4> QED
        BY <4>1, <4>3, <4>5, <4>6, <4>7, <4>8 DEF WayInv
    <3> QED
      BY <3>1, <3>2
  <2> QED
    BY <1>0, <2>1, <2>3, <2>4, <2>5 DEF BcInv
<1>6. ASSUME NEW d \in Subs, ProcessQueue(d) PROVE BcInv'
  <2>1. /\ sendQueue[d] # <<>>
        /\ sendQueue' = [sendQueue EXCEPT ![d] = Tail(sendQueue[d])]
        /\ received' = [received EXCEPT ![d] = AppendWithLimit(received[d], Head(sendQueue[d]))]
        /\ UNCHANGED <<clients, inputChan, data, caller, sending>>
    BY <1>6 DEF ProcessQueue
  <2>2. PICK h \in Nat : /\ h = Head(sendQueue[d]) /\ h = sendQueue[d][1]
                         /\ 1 \in 1 .. Len(sendQueue[d]) /\ Len(sendQueue[d]) \in Nat
    <3>1. sendQueue[d] \in Seq(Nat) /\ sendQueue[d] # <<>>
      BY <1>0, <2>1
    <3> QED
      BY <3>1
  <2>3. ChannelInv' /\ (\A x \in Nat : Taken(x) => Taken(x)')
    BY <2>1 DEF BcInv, ChannelInv, Taken
  <2>4. received[d] \in Seq(Nat) /\ Len(received[d]) <= MaxBufferSize
    BY <1>0 DEF BcInv, WayInv
  <2>5. PICK r : r = AppendWithLimit(received[d], h)
    OBVIOUS
  <2>6. r \in Seq(Nat) /\ Len(r) <= MaxBufferSize
    BY <2>4, <2>5, LimitKeepsNewest
  <2>7. PICK o \in {0, 1} :
          /\ Len(r) = Len(received[d]) + 1 - o
          /\ \A i \in 1 .. Len(r) :
               /\ i + o \in 1 .. Len(received[d]) + 1
               /\ r[i] = IF i + o = Len(received[d]) + 1 THEN h ELSE received[d][i + o]
    BY <2>4, <2>5, LimitKeepsNewest, SMTT(30)
  <2>8. sendQueue' \in [Subs -> Seq(Nat)] /\ received' \in [Subs -> Seq(Nat)]
    BY <1>0, <2>1, <2>2, <2>5, <2>6
  <2>9. ASSUME NEW c \in Subs PROVE WayInv(c)'
    <3>1. CASE c # d
      <4>1. sendQueue'[c] = sendQueue[c] /\ received'[c] = received[c]
        BY <1>0, <2>1, <3>1
      <4>2. /\ \A i \in 1 .. Len(sendQueue[c]) : sendQueue[c][i] \in Nat
            /\ \A i \in 1 .. Len(received[c]) : received[c][i] \in Nat
        BY <1>0, SMTT(30)
      <4> QED
        BY <2>1, <2>3, <4>1, <4>2, SMTT(30) DEF BcInv, WayInv
    <3>2. CASE c = d
      <4>1. /\ sendQueue[c] \in Seq(Nat) /\ sendQueue'[c] = Tail(sendQueue[c])
            /\ received'[c] = r
        BY <1>0, <2>1, <2>2, <2>5, <3>2
      <4>2. /\ Len(sendQueue'[c]) = Len(sendQueue[c]) - 1
            /\ \A i \in 1 .. Len(sendQueue'[c]) :
                 /\ i + 1 \in 1 .. Len(sendQueue[c]) /\ i + 1 # 1
                 /\ sendQueue'[c][i] = sendQueue[c][i + 1]
            /\ \A i \in 1 .. Len(sendQueue[c]) : sendQueue[c][i] \in Nat
        <5>1. sendQueue[c] \in Seq(Nat) /\ sendQueue[c] # <<>> /\ Len(sendQueue[c]) \in Nat \ {0}
          BY <2>1, <3>2, <4>1
        <5>2. /\ Len(Tail(sendQueue[c])) = Len(sendQueue[c]) - 1
              /\ \A i \in 1 .. Len(Tail(sendQueue[c])) :
                   /\ i + 1 \in 1 .. Len(sendQueue[c]) /\ i + 1 # 1
                   /\ Tail(sendQueue[c])[i] = sendQueue[c][i + 1]
          BY <5>1
        <5> QED
          BY <4>1, <5>1, <5>2
      <4>3. WayInv(c)
        BY DEF BcInv
      <4>4. \A i \in 1 .. Len(r) :
              \/ r[i] = h /\ i + o = Len(received[c]) + 1
              \/ i + o \in 1 .. Len(received[c]) /\ r[i] = received[c][i + o]
        BY <2>4, <2>7, <3>2
      <4>5. /\ Taken(h) /\ <<c, h>> \notin sending
            /\ \A i \in 1 .. Len(received[c]) : received[c][i] # h
            /\ \A i \in 1 .. Len(sendQueue'[c]) : sendQueue'[c][i] # h
        BY <2>2, <3>2, <4>2, <4>3 DEF WayInv
      <4>6. (\A i \in 1 .. Len(sendQueue[c]) : /\ Taken(sendQueue[c][i])
                                               /\ <<c, sendQueue[c][i]>> \notin sending)'
        <5> SUFFICES ASSUME NEW i \in 1 .. Len(sendQueue'[c])
                     PROVE  Taken(sendQueue[c][i])' /\ <<c, sendQueue'[c][i]>> \notin sending'
          OBVIOUS
        <5> QED
          BY <2>1, <4>2, <4>3 DEF WayInv, Taken
      <4>7. \A i \in 1 .. Len(received[c]) : received[c][i] \in Nat
        BY <1>0
      <4>8. (\A i \in 1 .. Len(received[c]) : /\ Taken(received[c][i])
                                              /\ <<c, received[c][i]>> \notin sending)'
        <5> SUFFICES ASSUME NEW i \in 1 .. Len(r)
                     PROVE  Taken(r[i])' /\ <<c, r[i]>> \notin sending'
          BY <4>1
        <5>1. r[i] \in Nat /\ Taken(r[i]) /\ <<c, r[i]>> \notin sending
          BY <4>3, <4>4, <4>5, <4>7 DEF WayInv
        <5> QED
          BY <2>1, <2>3, <5>1
      <4>9. \A i, j \in 1 .. Len(sendQueue'[c]) : sendQueue'[c][i] = sendQueue'[c][j] => i = j
        <5> SUFFICES ASSUME NEW i \in 1 .. Len(sendQueue'[c]), NEW j \in 1 .. Len(sendQueue'[c]),
                            sendQueue'[c][i] = sendQueue'[c][j]
                     PROVE  i = j
          OBVIOUS
        <5>1. i + 1 = j + 1
          BY <4>2, <4>3 DEF WayInv
        <5> QED
          BY <5>1
      <4>10. \A i, j \in 1 .. Len(r) : r[i] = r[j] => i = j
        <5> SUFFICES ASSUME NEW i \in 1 .. Len(r), NEW j \in 1 .. Len(r), r[i] = r[j]
                     PROVE  i = j
          OBVIOUS
        <5>1. i + o = j + o
          BY <4>3, <4>4, <4>5 DEF WayInv
        <5> QED
          BY <5>1
      <4>11. \A i \in 1 .. Len(sendQueue'[c]), j \in 1 .. Len(r) : sendQueue'[c][i] # r[j]
        <5> TAKE i \in 1 .. Len(sendQueue'[c]), j \in 1 .. Len(r)
        <5>1. CASE r[j] = h
          BY <4>5, <5>1
        <5>2. CASE j + o \in 1 .. Len(received[c]) /\ r[j] = received[c][j + o]
          BY <4>2, <4>3, <5>2 DEF WayInv
        <5> QED
          BY <4>4, <5>1, <5>2
      <4> QED
        BY <2>6, <4>1, <4>6, <4>8, <4>9, <4>10, <4>11 DEF WayInv
    <3> QED
      BY <3>1, <3>2
  <2> QED
    BY <2>1, <2>3, <2>8, <2>9 DEF BcInv
<1>7. CASE Close
  BY <1>1, <1>7 DEF Close, BcInv
<1>8. ASSUME NEW c \in Subs, AddClient(c) \/ RemoveClient(c) PROVE BcInv'
  BY <1>1, <1>8 DEF AddClient, RemoveClient, BcInv
<1>9. CASE UNCHANGED bcVars
  BY <1>1, <1>9 DEF bcVars, BcInv
<1> QED
  BY <1>2, <1>3, <1>4, <1>5, <1>6, <1>7, <1>8, <1>9 DEF BcNext

(* Each subscriber gets a chunk at most once and keeps at most MaxBufferSize,    *)
(* whatever the goroutines of process and the subscribers' loops do in which     *)
(* order, and however often clients are removed and added again                  *)
(* (broadcast.go:36-45, 126-138).                                                *)
THEOREM ChunkReachesSubscriberOnce == BcSpec => []OncePerClient
<1>1. BcInv => OncePerClient
  <2> SUFFICES ASSUME BcInv, NEW c \in Subs
               PROVE  LET waiting == {k \in 1 .. data : <<c, k>> \in sending}
                      IN  /\ Len(received[c]) <= MaxBufferSize
                          /\ \A q \in {inputChan, sendQueue[c], received[c]} : IsInjective(q)
                          /\ Range(inputChan) \cap
                               (waiting \cup Range(sendQueue[c]) \cup Range(received[c])) = {}
                          /\ waiting \cap (Range(sendQueue[c]) \cup Range(received[c])) = {}
                          /\ Range(sendQueue[c]) \cap Range(received[c]) = {}
    BY DEF OncePerClient
  <2>1. /\ inputChan \in Seq(Nat) /\ sendQueue[c] \in Seq(Nat) /\ received[c] \in Seq(Nat)
        /\ data \in Nat /\ WayInv(c)
    BY DEF BcInv, ChannelInv
  <2>2. /\ DOMAIN inputChan = 1 .. Len(inputChan)
        /\ DOMAIN sendQueue[c] = 1 .. Len(sendQueue[c])
        /\ DOMAIN received[c] = 1 .. Len(received[c])
        /\ \A i \in 1 .. Len(inputChan) : inputChan[i] \in Nat
    BY <2>1
  <2>3. IsInjective(inputChan)
    <3> SUFFICES ASSUME NEW i \in 1 .. Len(inputChan), NEW j \in 1 .. Len(inputChan),
                        inputChan[i] = inputChan[j], i < j
                 PROVE  FALSE
      BY <2>1, <2>2 DEF IsInjective
    <3>1. i \in 1 .. j - 1
      BY <2>1
    <3> QED
      BY <2>2, <3>1 DEF BcInv, ChannelInv
  <2>4. IsInjective(sendQueue[c]) /\ IsInjective(received[c])
    BY <2>1, <2>2 DEF IsInjective, WayInv
  <2>5. \A k \in Nat : Taken(k) => \A i \in 1 .. Len(inputChan) : inputChan[i] # k
    BY <2>2 DEF Taken
  <2>6. /\ \A i \in 1 .. Len(sendQueue[c]) : sendQueue[c][i] \in Nat
        /\ \A i \in 1 .. Len(received[c]) : received[c][i] \in Nat
    BY <2>1
  <2>7. ASSUME NEW k \in 1 .. data, <<c, k>> \in sending
        PROVE  /\ k \notin Range(inputChan)
               /\ k \notin Range(sendQueue[c])
               /\ k \notin Range(received[c])
    <3>1. k \in Nat /\ Taken(k)
      BY <2>1, <2>7 DEF BcInv
    <3> QED
      BY <2>1, <2>2, <2>5, <2>7, <3>1 DEF Range, WayInv
  <2>8. Range(inputChan) \cap (Range(sendQueue[c]) \cup Range(received[c])) = {}
    BY <2>1, <2>2, <2>5, <2>6 DEF Range, WayInv
  <2>9. Range(sendQueue[c]) \cap Range(received[c]) = {}
    BY <2>1, <2>2 DEF Range, WayInv
  <2>10. Len(received[c]) <= MaxBufferSize
    BY <2>1 DEF WayInv
  <2> QED
    BY <2>3, <2>4, <2>7, <2>8, <2>9, <2>10
<1>2. BcInv /\ [BcNext]_bcVars => BcInv'
  BY BcInvStep
<1> QED BY <1>1, <1>2, BcInitInv, PTL DEF BcSpec
==============================================================================
