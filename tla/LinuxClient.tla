----------------------------- MODULE LinuxClient -----------------------------
(***************************************************************************)
(* The Linux client, cmd/client/main.go, and its reconnect manager,        *)
(* internal/reconnect/reconnect.go: the goroutine of AutoReconnect, the    *)
(* two forwarding goroutines, and main, over connections that break.       *)
(*                                                                         *)
(* The data forwarded has no content here.  What arrives on a connection   *)
(* before it is lost counts as read before, so nothing is read from a lost *)
(* connection.  The methods of ReconnectManager run under r.mu from start  *)
(* to end; tryReconnect holds it while it dials, and the others are one    *)
(* step each.  Time is left out: a sleep is a gap between two steps, and a *)
(* wait with a timeout may end at once.  The process ends with main.       *)
(*                                                                         *)
(* A definition named for a fault (DisconnectForgetsToClose) that nothing  *)
(* uses is a faulty variant of the one that follows.                       *)
(***************************************************************************)
EXTENDS Naturals

CONSTANTS Conns,        \* BOUND: connections that are ever made
          MaxRetry      \* r.maxRetry; the configuration makes of 0 the default

ASSUME RetryAssumption == MaxRetry \in Nat \ {0}

VARIABLES link,         \* the connections: "unused", "open", "lost" when the other
                        \* side or the network ended it, "closed" by this client
          conn,         \* r.conn
          connected,    \* r.connected
          retryCount,   \* r.retryCount
          misses,       \* failed dials since the last connection (history)
          stopRetry,    \* r.stopChan is closed
          auto,         \* AutoReconnect: "select", "check", "try", "dial", "report",
                        \* "done"
          errors,       \* number of errors in errChan, which holds one
          down,         \* server to PTY: "select", "get", "read", "drop", "write", "done"
          downConn,     \* the connection it reads from
          up,           \* PTY to server: "read", "get", "check", "write", "done"
          upConn,       \* the connection it writes to
          device,       \* the PTY is open
          main,         \* "run", "waitDown", "waitUp", "stop", "disconnect", "close",
                        \* "exited"
          stopChan,     \* main's stopChan is closed
          cause         \* what made main stop: "none", "signal", "reconnect"

manager == <<link, conn, connected, retryCount, misses>>
autoVars == <<stopRetry, auto, errors>>
downVars == <<down, downConn>>
upVars == <<up, upConn, device>>
mainVars == <<main, stopChan, cause>>
vars == <<manager, autoVars, downVars, upVars, mainVars>>

\* main has created the PTY, connected, and started the goroutines.
Init == /\ conn \in Conns
        /\ link = [c \in Conns |-> IF c = conn THEN "open" ELSE "unused"]
        /\ connected = TRUE
        /\ retryCount = 0 /\ misses = 0
        /\ stopRetry = FALSE /\ auto = "select" /\ errors = 0
        /\ down = "select" /\ downConn = conn
        /\ up = "read" /\ upConn = conn /\ device = TRUE
        /\ main = "run" /\ stopChan = FALSE /\ cause = "none"

Running == main # "exited"

\* r.mu can be taken: tryReconnect holds it during its dial.
MuFree == auto # "dial"

------------------------------------------------------------------------------
\* A connection breaks: the server closes it or dies, or the network fails.
Lose(c) == /\ Running
           /\ link[c] = "open"
           /\ link' = [link EXCEPT ![c] = "lost"]
           /\ UNCHANGED <<conn, connected, retryCount, misses, autoVars, downVars,
                          upVars, mainVars>>

DisconnectForgetsToClose == /\ connected' = FALSE
                            /\ UNCHANGED <<link, conn, retryCount, misses>>

DisconnectKeepsFlag == /\ link' = [link EXCEPT ![conn] = "closed"]
                       /\ UNCHANGED <<conn, connected, retryCount, misses>>

\* r.Disconnect(): it closes whatever r.conn is by now.
Disconnect == /\ link' = [link EXCEPT ![conn] = "closed"]
              /\ connected' = FALSE
              /\ UNCHANGED <<conn, retryCount, misses>>

(* The goroutine of AutoReconnect. *)

AutoSelect == /\ Running
              /\ auto = "select"
              /\ auto' = IF stopRetry THEN "done" ELSE "check"
              /\ UNCHANGED <<manager, stopRetry, errors, downVars, upVars, mainVars>>

\* IsConnected(); the sleep that follows is before the next select.
AutoCheck == /\ Running
             /\ auto = "check"
             /\ auto' = IF connected THEN "select" ELSE "try"
             /\ UNCHANGED <<manager, stopRetry, errors, downVars, upVars, mainVars>>

MayDialOnceMore == retryCount <= MaxRetry

\* The attempt that tryReconnect is about to count is within the limit.
MayDial == retryCount < MaxRetry

\* tryReconnect counts the attempt and dials, or returns an error above the limit.
TryReconnect == /\ Running
                /\ auto = "try"
                /\ retryCount' = retryCount + 1
                /\ auto' = IF MayDial THEN "dial" ELSE "report"
                /\ UNCHANGED <<link, conn, connected, misses, stopRetry, errors, downVars,
                               upVars, mainVars>>

\* net.Dial succeeds, with a new connection, or fails.
Dialed == /\ Running
          /\ auto = "dial"
          /\ \/ \E c \in Conns : /\ link[c] = "unused"
                                 /\ link' = [link EXCEPT ![c] = "open"]
                                 /\ conn' = c
                                 /\ connected' = TRUE
                                 /\ retryCount' = 0
                                 /\ misses' = 0
                                 /\ auto' = "select"
             \/ /\ misses' = misses + 1
                /\ auto' = "report"
                /\ UNCHANGED <<link, conn, connected, retryCount>>
          /\ UNCHANGED <<stopRetry, errors, downVars, upVars, mainVars>>

ReportUnbounded == /\ Running
                   /\ auto = "report"
                   /\ errors' = errors + 1
                   /\ auto' = "select"
                   /\ UNCHANGED <<manager, stopRetry, downVars, upVars, mainVars>>

\* errChan <- err: the goroutine waits while the channel is full.
Report == /\ Running
          /\ auto = "report"
          /\ errors = 0
          /\ errors' = 1
          /\ auto' = "select"
          /\ UNCHANGED <<manager, stopRetry, downVars, upVars, mainVars>>

(* The goroutine that forwards from the server to the PTY. *)

DownSelect == /\ Running
              /\ down = "select"
              /\ down' = IF stopChan THEN "done" ELSE "get"
              /\ UNCHANGED <<manager, autoVars, downConn, upVars, mainVars>>

\* GetConnection(), which is never nil once main has connected.
DownGet == /\ Running
           /\ down = "get"
           /\ MuFree
           /\ downConn' = conn
           /\ down' = "read"
           /\ UNCHANGED <<manager, autoVars, upVars, mainVars>>

\* conn.Read blocks until there is data or the connection has ended.
DownRead == /\ Running
            /\ down = "read"
            /\ down' = IF link[downConn] = "open" THEN "write" ELSE "drop"
            /\ UNCHANGED <<manager, autoVars, downConn, upVars, mainVars>>

\* After an error the reader disconnects and sleeps.
DownDrop == /\ Running
            /\ down = "drop"
            /\ MuFree
            /\ Disconnect
            /\ down' = "select"
            /\ UNCHANGED <<autoVars, downConn, upVars, mainVars>>

\* device.Write returns; it may block for ever while nobody reads the PTY.
DownWrite == /\ Running
             /\ down = "write"
             /\ down' = "select"
             /\ UNCHANGED <<manager, autoVars, downConn, upVars, mainVars>>

(* The goroutine that forwards from the PTY to the server. *)

\* A read of the PTY returns input, while it is open.
UpRead == /\ Running
          /\ up = "read"
          /\ device
          /\ up' = "get"
          /\ UNCHANGED <<manager, autoVars, downVars, upConn, device, mainVars>>

\* The select takes stopChan and closes the PTY.
UpStop == /\ Running
          /\ up = "read"
          /\ stopChan
          /\ device' = FALSE
          /\ up' = "done"
          /\ UNCHANGED <<manager, autoVars, downVars, upConn, mainVars>>

\* A read of the PTY fails: it is closed, or there is an error.  The goroutine ends
\* and the client goes on without it.
UpReadFails == /\ Running
               /\ up = "read"
               /\ up' = "done"
               /\ UNCHANGED <<manager, autoVars, downVars, upConn, device, mainVars>>

UpGet == /\ Running
         /\ up = "get"
         /\ MuFree
         /\ upConn' = conn
         /\ up' = "check"
         /\ UNCHANGED <<manager, autoVars, downVars, device, mainVars>>

\* IsConnected(), a critical section of its own; input is dropped while it is false.
UpCheck == /\ Running
           /\ up = "check"
           /\ MuFree
           /\ up' = IF connected THEN "write" ELSE "read"
           /\ UNCHANGED <<manager, autoVars, downVars, upConn, device, mainVars>>

\* conn.Write returns, and its error is ignored; it may block for ever on a
\* connection that is open.
UpWrite == /\ Running
           /\ up = "write"
           /\ up' = "read"
           /\ UNCHANGED <<manager, autoVars, downVars, upConn, device, mainVars>>

(* main. *)

StopBecause(why) == /\ main = "run"
                    /\ cause' = why
                    /\ stopChan' = TRUE
                    /\ main' = "waitDown"
                    /\ UNCHANGED <<manager, stopRetry, auto, downVars, upVars>>

\* A signal arrives: main closes stopChan.
MainSignal == StopBecause("signal") /\ UNCHANGED errors

\* The first error of AutoReconnect has the same effect.
MainGiveUp == errors = 1 /\ errors' = 0 /\ StopBecause("reconnect")

MainWaitForever ==
  /\ \/ main = "waitDown" /\ down = "done" /\ main' = "waitUp"
     \/ main = "waitUp" /\ up = "done" /\ main' = "stop"
  /\ UNCHANGED <<manager, autoVars, downVars, upVars, stopChan, cause>>

\* main waits for the one goroutine, then for the other, each until it is done or
\* two seconds are over: it may go on at any time, with the goroutine in any state.
MainWait ==
  /\ \/ main = "waitDown" /\ main' = "waitUp"
     \/ main = "waitUp" /\ main' = "stop"
  /\ UNCHANGED <<manager, autoVars, downVars, upVars, stopChan, cause>>

\* reconn.Stop(), reconn.Disconnect(), device.Close().
MainStopRetry == /\ main = "stop"
                 /\ stopRetry' = TRUE
                 /\ main' = "disconnect"
                 /\ UNCHANGED <<manager, auto, errors, downVars, upVars, stopChan, cause>>

MainDisconnect == /\ main = "disconnect"
                  /\ MuFree
                  /\ Disconnect
                  /\ main' = "close"
                  /\ UNCHANGED <<autoVars, downVars, upVars, stopChan, cause>>

MainClose == /\ main = "close"
             /\ device' = FALSE
             /\ main' = "exited"
             /\ UNCHANGED <<manager, autoVars, downVars, up, upConn, stopChan, cause>>

AutoReconnect == AutoSelect \/ AutoCheck \/ TryReconnect \/ Dialed \/ Report
ServerToPty == DownSelect \/ DownGet \/ DownRead \/ DownDrop \/ DownWrite
PtyToServer == UpRead \/ UpStop \/ UpReadFails \/ UpGet \/ UpCheck \/ UpWrite
Shutdown == MainWait \/ MainStopRetry \/ MainDisconnect \/ MainClose

Next == \/ AutoReconnect \/ ServerToPty \/ PtyToServer
        \/ MainSignal \/ MainGiveUp \/ Shutdown
        \/ \E c \in Conns : Lose(c)

Spec == Init /\ [][Next]_vars

\* A read whose connection has ended returns, and so does a dial.  Nothing is
\* assumed of the application on the PTY, of input, data or signals.
Fairness == /\ WF_vars(AutoReconnect)
            /\ WF_vars(DownSelect \/ DownGet \/ DownDrop)
            /\ WF_vars(DownRead /\ link[downConn] # "open")
            /\ WF_vars(MainGiveUp)
            /\ WF_vars(Shutdown)

FairSpec == Spec /\ Fairness

------------------------------------------------------------------------------
(* Properties. *)

\* Types, and the capacity of errChan.
TypeOK == /\ link \in [Conns -> {"unused", "open", "lost", "closed"}]
          /\ conn \in Conns
          /\ connected \in BOOLEAN
          /\ retryCount \in Nat
          /\ misses \in Nat
          /\ stopRetry \in BOOLEAN
          /\ auto \in {"select", "check", "try", "dial", "report", "done"}
          /\ errors \in 0 .. 1
          /\ down \in {"select", "get", "read", "drop", "write", "done"}
          /\ downConn \in Conns
          /\ up \in {"read", "get", "check", "write", "done"}
          /\ upConn \in Conns
          /\ device \in BOOLEAN
          /\ main \in {"run", "waitDown", "waitUp", "stop", "disconnect", "close", "exited"}
          /\ stopChan \in BOOLEAN
          /\ cause \in {"none", "signal", "reconnect"}

\* The client has at most one connection, r.conn, whatever the reader's Disconnect
\* and the reconnection do to each other: a forwarding goroutine that still has
\* another one finds it closed, and never waits on it.
OneConnection ==
  /\ \A c \in Conns : link[c] \in {"open", "lost"} => c = conn
  /\ downConn # conn => link[downConn] = "closed"
  /\ upConn # conn => link[upConn] = "closed"

\* No more than max_retry dials in a row fail: attempts above the limit do not dial.
RetryWithinLimit == misses <= MaxRetry

\* A connection that has ended is replaced, or the client ends, unless the reader is
\* stuck in a write to a PTY nobody reads.
BrokenIsReplaced ==
  link[conn] # "open" ~> (link[conn] = "open" \/ main = "exited" \/ down = "write")

\* The shutdown ends, also when a forwarding goroutine is blocked, or a dial holds
\* the mutex that Disconnect needs.
ShutdownEnds == stopChan ~> main = "exited"

\* Main gives up only after max_retry failed attempts (cmd/client/main.go:28: the
\* maximum number of reconnections).
GivesUpAtLimit == [][MainGiveUp => misses >= MaxRetry]_vars
==============================================================================
