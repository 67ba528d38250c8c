------------------------------ MODULE WriteLock ------------------------------
(***************************************************************************)
(* What the write lock promises to its users: at most one client holds it, *)
(* it is granted only when nobody holds it, and it changes hands only by   *)
(* becoming free first.  Arbiter implements this specification.            *)
(***************************************************************************)
CONSTANTS Clients,      \* the clients that may hold the lock
          NoClient      \* the holder of a free lock; not a client

VARIABLE holder         \* the client that holds the lock, or NoClient

Init == holder = NoClient

\* A client is granted the free lock.
Grant(c) == /\ holder = NoClient
            /\ holder' = c

\* The lock becomes free again: released, taken back or expired.
Drop == /\ holder # NoClient
        /\ holder' = NoClient

Next == \/ \E c \in Clients : Grant(c)
        \/ Drop

Spec == Init /\ [][Next]_holder
==============================================================================
