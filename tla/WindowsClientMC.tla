--------------------------- MODULE WindowsClientMC ---------------------------
(* One local program that connects at any time, three chunks and a buffer of two *)
(* of which a new connection gets one.                                           *)
EXTENDS WindowsClient

\* No limit anywhere, so that the default 10 counts, and a flag that takes the limit of
\* the file away.
MCChoices == {[file |-> NotSaid, flag |-> 0], [file |-> 2, flag |-> -1]}

\* The configuration file of the repository.
MCShipped == {[file |-> 0, flag |-> 0]}
==============================================================================
