------------------------------ MODULE Terminal ------------------------------
(***************************************************************************)
(* internal/pty: the virtual terminals of Linux clients that use the same  *)
(* path for their symbolic link, as the default /tmp/vttyShare0 makes them *)
(* do.  A terminal is a real PTY, or a MockPTY when one cannot be had.     *)
(* One goroutine per client reads what is typed; the client closes its     *)
(* terminal, perhaps twice (cmd/client/main.go:169 and 209), or crashes.   *)
(*                                                                         *)
(* The master is opened in blocking mode, so that closing the file does    *)
(* not end a Read that waits in the kernel: that Read ends when the last   *)
(* holder of the slave closes it.  One holder is the client itself, the    *)
(* other may be the user's terminal program (attached).                    *)
(***************************************************************************)
EXTENDS Integers

CONSTANTS Terms,        \* the terminals, one per client
          NoTerm,
          MaxTyped      \* BOUND: chunks typed at, and shown on, a terminal at once

ASSUME TermAssumption == NoTerm \notin Terms

VARIABLES pty,          \* each terminal: "none", "open", "closed" (open = false), "dead" (crashed)
          made,         \* what CreatePTY got from the kernel: "real", "noLink", "noPty"
          link,         \* the terminal that the symbolic link leads to, or NoTerm
          attached,     \* the terminals that a user's program has open
          typing,       \* the reader of each terminal: "idle", "waiting", "done"
          typed,        \* externalData: number of chunks typed and not yet read
          shown,        \* slaveBuffer: number of chunks written and not yet read; a terminal that
                        \* is closed shows nothing more, and they count as gone
          shared        \* two terminals were open at the same time

termVars == <<pty, made, link, attached, typing, typed, shown, shared>>

TermInit == /\ pty = [d \in Terms |-> "none"]
            /\ made = [d \in Terms |-> "noPty"]
            /\ link = NoTerm
            /\ attached = {}
            /\ typing = [d \in Terms |-> "idle"]
            /\ typed = [d \in Terms |-> 0]
            /\ shown = [d \in Terms |-> 0]
            /\ shared = FALSE

\* A new terminal of which the kernel gave what, with the link afterwards.
Created(d, what, l) ==
  /\ pty[d] = "none"
  /\ pty' = [pty EXCEPT ![d] = "open"]
  /\ made' = [made EXCEPT ![d] = what]
  /\ link' = l
  /\ shared' = (shared \/ \E e \in Terms : pty[e] = "open")
  /\ UNCHANGED <<attached, typing, typed, shown>>

CreatePTYKeepsLink(d) ==
  \/ Created(d, "real", IF link = NoTerm THEN d ELSE link)
  \/ Created(d, "noLink", link)
  \/ Created(d, "noPty", link)

\* CreateRealPTY removes whatever is at the path and makes the link.  CreatePTY goes on
\* with a mock when one of its steps fails, the last of them after the removal.
CreatePTY(d) == \/ Created(d, "real", d)
                \/ Created(d, "noLink", NoTerm)
                \/ Created(d, "noPty", link)

\* Read, up to where it waits, without the mutex; a closed terminal is an error.
ReadPTY(d) == /\ pty[d] \in {"open", "closed"}
              /\ typing[d] = "idle"
              /\ typing' = [typing EXCEPT ![d] = IF pty[d] = "open" THEN "waiting" ELSE "done"]
              /\ UNCHANGED <<pty, made, link, attached, typed, shown, shared>>

\* The Read has input, or the end of a terminal that was closed.
ReadPTYGets(d) ==
  /\ typing[d] = "waiting"
  /\ typing' = [typing EXCEPT ![d] = IF pty[d] = "open" THEN "idle" ELSE "done"]
  /\ typed' = [typed EXCEPT ![d] = IF @ > 0 /\ (pty[d] = "open" \/ made[d] = "real")
                                  THEN @ - 1 ELSE @]
  /\ UNCHANGED <<pty, made, link, attached, shown, shared>>

ReadPTYReturnsData(d) == typed[d] > 0 /\ ReadPTYGets(d)

\* The mock looks every 100 ms whether it is closed.
ReadPTYReturns(d) ==
  /\ typed[d] > 0 \/ (pty[d] = "closed" /\ d \notin attached)
  /\ ReadPTYGets(d)

\* Write to the master, for the user to read.
WritePTY(d) == /\ pty[d] = "open"
               /\ shown[d] < MaxTyped
               /\ shown' = [shown EXCEPT ![d] = @ + 1]
               /\ UNCHANGED <<pty, made, link, attached, typing, typed, shared>>

ReadFromSlave(d) == /\ pty[d] = "open"
                    /\ shown[d] > 0
                    /\ shown' = [shown EXCEPT ![d] = @ - 1]
                    /\ UNCHANGED <<pty, made, link, attached, typing, typed, shared>>

\* The user opens the slave of a real terminal, and leaves it.
Attach(d) == /\ pty[d] = "open" /\ made[d] = "real"
             /\ d \notin attached
             /\ attached' = attached \cup {d}
             /\ UNCHANGED <<pty, made, link, typing, typed, shown, shared>>

Detach(d) == /\ d \in attached
             /\ attached' = attached \ {d}
             /\ UNCHANGED <<pty, made, link, typing, typed, shown, shared>>

\* The user types; a test does, at a mock (InjectExternalData).
Types(d) == /\ d \in attached \/ (pty[d] = "open" /\ made[d] # "real")
            /\ typed[d] < MaxTyped
            /\ typed' = [typed EXCEPT ![d] = @ + 1]
            /\ UNCHANGED <<pty, made, link, attached, typing, shown, shared>>

\* Close.  The second one finds open = false and does nothing.  What the link leads to
\* is not looked at when it is removed.
ClosePTY(d) ==
  /\ pty[d] = "open"
  /\ pty' = [pty EXCEPT ![d] = "closed"]
  /\ link' = IF made[d] = "real" THEN NoTerm ELSE link
  /\ shown' = [shown EXCEPT ![d] = 0]
  /\ UNCHANGED <<made, attached, typing, typed, shared>>

\* The process ends without Close: its reader ends with it, and the link stays.
Crash(d) == /\ pty[d] = "open"
            /\ pty' = [pty EXCEPT ![d] = "dead"]
            /\ typing' = [typing EXCEPT ![d] = "done"]
            /\ shown' = [shown EXCEPT ![d] = 0]
            /\ UNCHANGED <<made, link, attached, typed, shared>>

TermNext == \E d \in Terms : \/ CreatePTY(d) \/ ReadPTY(d) \/ ReadPTYReturns(d) \/ WritePTY(d)
                             \/ ReadFromSlave(d) \/ Attach(d) \/ Detach(d) \/ Types(d) \/ ClosePTY(d)
                             \/ Crash(d)

TermSpec == TermInit /\ [][TermNext]_termVars

\* A client reads its terminal all the time.
TermFairness == \A d \in Terms : WF_termVars(ReadPTY(d) \/ ReadPTYReturns(d))

------------------------------------------------------------------------------
(* A client that has its path to itself can be found under it: not even the      *)
(* link of a crashed one before it, or a second Close of an earlier one, leaves  *)
(* an open terminal without its link (real_pty_linux.go:83-92, 150-166).         *)
LinkUnlessShared ==
  \A d \in Terms : (pty[d] = "open" /\ made[d] = "real" /\ ~shared) => link = d

(* What is typed is read, and Close ends the Read that waits for more, which is  *)
(* what the client's shutdown rests on: at once, or when the user's program has  *)
(* left the terminal (real_pty_linux.go:120-129, 146-158, pty.go:75-111).        *)
ReadEnds ==
  \A d \in Terms : /\ (pty[d] = "closed" /\ d \notin attached) ~> typing[d] = "done"
                   /\ typed[d] > 0 ~> (typed[d] = 0 \/ pty[d] # "open")
=============================================================================
