----------------------------- MODULE SerialPort -----------------------------
(***************************************************************************)
(* pkg/serial: the ports of the platforms and the mock port behind the     *)
(* Port interface, and the Handler with its own write lock on top.  One    *)
(* goroutine reads the port all the time, as readSerialAndBroadcast does;  *)
(* clients write through the handler.                                      *)
(*                                                                         *)
(* The difference between the platforms is the mutex: Windows and macOS    *)
(* hold r.mu while the library's Read waits for the device, Linux has no   *)
(* mutex (real_serial_linux.go:11-12 says why), and the mock port does not *)
(* wait.  That a library Read returns when its port is closed, and that    *)
(* Write does not wait for Read, is taken from go.bug.st/serial.           *)
(***************************************************************************)
EXTENDS Integers, Sequences

CONSTANTS Writers,       \* the clients that write through the handler
          Nobody,        \* no owner, no holder of a mutex
          TheReader,     \* the goroutine that reads
          MaxBytes       \* BOUND: chunks the device sends, and chunks written to it

ASSUME NobodyAssumption == Nobody \notin Writers /\ TheReader \notin Writers \cup {Nobody}

VARIABLES kind,          \* what NewPort returned: "linux", "windows", "darwin" or "mock"
          open,          \* r.open, m.open
          portMu,        \* the holder of r.mu, if it is held over more than one step
          rd,            \* the reader: "idle", or "waiting" in the library's Read
          device,        \* chunks the device has sent and nobody has read; m.inputBuffer
          sent,          \* number of chunks the device sent
          output,        \* the clients whose chunks the port got, in order
          writeOwner,    \* h.writeOwner
          handlerMu,     \* the holder of h.mu
          wr             \* each client: "idle", "locked" or "plain" in port.Write

portVars == <<kind, open, portMu, rd, device, sent, output, writeOwner, handlerMu, wr>>

\* NewPort: the real port of the platform, or a mock when it cannot be opened.
PortInit == /\ kind \in {"linux", "windows", "darwin", "mock"}
            /\ open = TRUE
            /\ portMu = Nobody
            /\ rd = "idle"
            /\ device = 0
            /\ sent = 0
            /\ output = <<>>
            /\ writeOwner = Nobody
            /\ handlerMu = Nobody
            /\ wr = [c \in Writers |-> "idle"]

HoldsMutexAlways(k) == k \in {"linux", "windows", "darwin"}

\* Whether Read and Write of the port hold r.mu while they call the library.
HoldsMutex(k) == k \in {"windows", "darwin"}

\* r.mu, where there is one, can be taken.
PortFree == HoldsMutex(kind) => portMu = Nobody

(* The reader. *)

\* RealSerialPort.Read up to the library's Read.  A closed port is an error at once.
Read == /\ kind # "mock"
        /\ rd = "idle"
        /\ open
        /\ PortFree
        /\ rd' = "waiting"
        /\ portMu' = IF HoldsMutex(kind) THEN TheReader ELSE portMu
        /\ UNCHANGED <<kind, open, device, sent, output, writeOwner, handlerMu, wr>>

\* The library's Read returns data, or an error because the port was closed.
ReadReturns == /\ rd = "waiting"
               /\ device > 0 \/ ~open
               /\ rd' = "idle"
               /\ portMu' = IF portMu = TheReader THEN Nobody ELSE portMu
               /\ device' = IF open THEN device - 1 ELSE device
               /\ UNCHANGED <<kind, open, sent, output, writeOwner, handlerMu, wr>>

\* MockSerialPort.Read: EOF, which changes nothing, or the data; also of a closed port.
MockRead == /\ kind = "mock"
            /\ device > 0
            /\ device' = device - 1
            /\ UNCHANGED <<kind, open, portMu, rd, sent, output, writeOwner, handlerMu, wr>>

(* The handler. *)

WriteWithLockUnlocked(c) ==
  /\ wr[c] = "idle"
  /\ Len(output) < MaxBytes
  /\ handlerMu = Nobody
  /\ writeOwner = c
  /\ wr' = [wr EXCEPT ![c] = "locked"]
  /\ UNCHANGED <<kind, open, portMu, rd, device, sent, output, writeOwner, handlerMu>>

\* WriteWithLock of the owner, up to port.Write, with h.mu held; anyone else gets an error.
WriteWithLock(c) ==
  /\ wr[c] = "idle"
  /\ Len(output) < MaxBytes
  /\ handlerMu = Nobody
  /\ writeOwner = c
  /\ wr' = [wr EXCEPT ![c] = "locked"]
  /\ handlerMu' = c
  /\ UNCHANGED <<kind, open, portMu, rd, device, sent, output, writeOwner>>

\* Write, which asks for no owner.
Write(c) == /\ wr[c] = "idle"
            /\ Len(output) < MaxBytes
            /\ handlerMu = Nobody
            /\ wr' = [wr EXCEPT ![c] = "plain"]
            /\ handlerMu' = c
            /\ UNCHANGED <<kind, open, portMu, rd, device, sent, output, writeOwner>>

\* port.Write, once r.mu is free, and the return.  A real port that is closed is an
\* error; the mock port takes everything.
PortWrite(c) == /\ wr[c] # "idle"
                /\ PortFree
                /\ output' = IF open \/ kind = "mock" THEN Append(output, c) ELSE output
                /\ wr' = [wr EXCEPT ![c] = "idle"]
                /\ handlerMu' = IF handlerMu = c THEN Nobody ELSE handlerMu
                /\ UNCHANGED <<kind, open, portMu, rd, device, sent, writeOwner>>

SetWriteLockOwner(c) == /\ handlerMu = Nobody
                        /\ writeOwner' = c
                        /\ UNCHANGED <<kind, open, portMu, rd, device, sent, output, handlerMu, wr>>

ClearWriteLock == SetWriteLockOwner(Nobody)

\* Close, past h.mu: on Windows and macOS it waits for a Read as well.
ClosePort == /\ open
             /\ PortFree
             /\ open' = FALSE
             /\ UNCHANGED <<kind, portMu, rd, device, sent, output, writeOwner, handlerMu, wr>>

\* The device sends a chunk (InjectInput of the mock).
DeviceSends == /\ sent < MaxBytes
               /\ sent' = sent + 1
               /\ device' = device + 1
               /\ UNCHANGED <<kind, open, portMu, rd, output, writeOwner, handlerMu, wr>>

PortNext == \/ Read \/ ReadReturns \/ MockRead \/ ClosePort \/ DeviceSends \/ ClearWriteLock
            \/ \E c \in Writers : \/ WriteWithLock(c) \/ Write(c) \/ PortWrite(c)
                                  \/ SetWriteLockOwner(c)

PortSpec == PortInit /\ [][PortNext]_portVars

\* The reader goes on while it can, and Go's mutexes let nobody wait for ever.
PortFairness == /\ WF_portVars(Read \/ ReadReturns \/ MockRead)
                /\ \A c \in Writers : SF_portVars(PortWrite(c))

------------------------------------------------------------------------------
(* Input reaches the device although nobody knows when it will say something: a  *)
(* write that does not return is one on Windows or macOS, where it waits behind  *)
(* a Read of a silent device (real_serial_linux.go:11-12, 57-70,                 *)
(* real_serial_windows.go:64-85, real_serial_darwin.go:64-85).                   *)
PortWriteReturns ==
  \A c \in Writers :
     wr[c] # "idle" ~> \/ wr[c] = "idle"
                       \/ kind \in {"windows", "darwin"} /\ rd = "waiting" /\ device = 0

(* WriteWithLock writes for the owner only, and for one client at a time: the    *)
(* lock that was checked is still held when the port is written, also when the   *)
(* port makes the writer wait and others change the owner (serial.go:104-127).   *)
OwnerWrites ==
  \A c \in Writers : wr[c] = "locked" => /\ writeOwner = c
                                         /\ \A d \in Writers \ {c} : wr[d] = "idle"
=============================================================================
