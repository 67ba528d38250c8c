----------------------------- MODULE TCPServerMC -----------------------------
(* Three connections of two addresses: c3 comes from the address of c1, so     *)
(* that contention for the lock and the reuse of an address both happen.       *)
EXTENDS TCPServer

CONSTANTS c1, c2, c3, a1, a2

MCConns == {c1, c2, c3}
MCIds == {a1, a2}
MCIdOf == [c \in MCConns |-> IF c = c2 THEN a2 ELSE a1]
==============================================================================
