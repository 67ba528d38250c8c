---------------------------- MODULE LinuxClientMC ----------------------------
(* Three connections: the first, its replacement, which the reader of the first *)
(* may close by mistake, and the replacement of that one.                       *)
EXTENDS LinuxClient
==============================================================================
