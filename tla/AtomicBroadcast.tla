--------------------------- MODULE AtomicBroadcast ---------------------------
(***************************************************************************)
(* What the broadcast of the serial data promises to the clients: chunks   *)
(* are handed out one by one in the order they were read, each to all who  *)
(* are members at that moment and to nobody else, as if all of them got it *)
(* at once.  Who connects becomes a member and stays one until the         *)
(* connection ends, with one exception: the end of another connection from *)
(* the same address may cost it its membership.  BroadcastPath, which      *)
(* writes to one client after the other while clients come and go,         *)
(* implements this specification.                                          *)
(***************************************************************************)
EXTENDS Naturals, Sequences

CONSTANT Clients        \* the connections

VARIABLES id,           \* the address each comes from; it does not change
          produced,     \* number of chunks read from the port
          sent,         \* number of chunks handed out
          phase,        \* of each client: "new", "member", "forgotten", "ended"
          stream        \* the chunks each client was given

vars == <<id, produced, sent, phase, stream>>

Init == /\ produced = 0
        /\ sent = 0
        /\ phase = [c \in Clients |-> "new"]
        /\ stream = [c \in Clients |-> <<>>]

Produce == /\ produced' = produced + 1
           /\ UNCHANGED <<id, sent, phase, stream>>

\* The next chunk goes to every member in one step.
Distribute == /\ sent < produced
              /\ sent' = sent + 1
              /\ stream' = [c \in Clients |-> IF phase[c] = "member"
                                              THEN Append(stream[c], sent')
                                              ELSE stream[c]]
              /\ UNCHANGED <<id, produced, phase>>

\* A client becomes a member, once: it has no chunk yet and gets none of the past.
Subscribe(c) == /\ phase[c] = "new"
                /\ stream[c] = <<>>
                /\ phase' = [phase EXCEPT ![c] = "member"]
                /\ UNCHANGED <<id, produced, sent, stream>>

\* A member is forgotten because another connection from its address has ended.  It
\* keeps what it was given and will be given no more.
Forget(c) == /\ phase[c] = "member"
             /\ \E d \in Clients : id[d] = id[c] /\ phase[d] = "ended"
             /\ phase' = [phase EXCEPT ![c] = "forgotten"]
             /\ UNCHANGED <<id, produced, sent, stream>>

\* Connections end.  Their clients may lose what they were given last and had not
\* read, and nothing else; nobody else notices.
Unsubscribe(S) ==
  /\ phase' = [c \in Clients |-> IF c \in S THEN "ended" ELSE phase[c]]
  /\ \A c \in Clients :
       IF c \in S
       THEN \E n \in 0 .. Len(stream[c]) : stream'[c] = SubSeq(stream[c], 1, n)
       ELSE stream'[c] = stream[c]
  /\ UNCHANGED <<id, produced, sent>>

Next == \/ Produce
        \/ Distribute
        \/ \E c \in Clients : Subscribe(c) \/ Forget(c)
        \/ \E S \in SUBSET {c \in Clients : phase[c] # "ended"} : Unsubscribe(S)

Spec == Init /\ [][Next]_vars
==============================================================================
