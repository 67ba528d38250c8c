----------------------------- MODULE BroadcastMC -----------------------------
(* Two connections, from two addresses or one after the other from the same one. *)
EXTENDS BroadcastPath

CONSTANTS c1, c2, a1, a2

MCClients == {c1, c2}
MCIdChoices == {[c \in MCClients |-> IF c = c2 THEN a ELSE a1] : a \in {a1, a2}}
==============================================================================
