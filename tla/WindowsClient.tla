---------------------------- MODULE WindowsClient ----------------------------
(***************************************************************************)
(* cmd/client-windows/main.go: main, its ConnectionManager and             *)
(* monitorLoop, composed with the proxy of LocalProxy.  The settings come  *)
(* from Config.                                                            *)
(*                                                                         *)
(* Dial happens inside cm.mu and is one step with its outcome.  The number *)
(* of the dial that succeeded names the connection.  When main has ended,  *)
(* the goroutines are left to run on, so that their own ends can be        *)
(* checked; the real process ends with main, as it does at log.Fatalf.     *)
(***************************************************************************)
EXTENDS LocalProxy, Config

CONSTANTS Choices,      \* the users: a max_retry in the first readable file and a flag
          NotSaid       \* the file has no max_retry

ASSUME ChoiceAssumption == /\ Choices \subseteq [file : Int \cup {NotSaid}, flag : Int]
                           /\ NotSaid \notin Int

VARIABLES choice,        \* what the user asked for
          main,          \* main: where it is
          conn,          \* cm.conn
          cmRunning,     \* cm.running
          cmStop,        \* cm.stopChan is closed
          retrier,       \* reconnectLoop: where it is
          retryCount,    \*   its retryCount
          failed,        \* dials of reconnectLoop that failed since the last success
          dialled,       \* connections made so far
          monitor,       \* monitorLoop: where it is
          lastConn       \*   its lastConn

managerVars == <<conn, cmRunning, cmStop, retrier, retryCount, failed, dialled>>
monitorVars == <<monitor, lastConn>>
vars == <<proxyVars, choice, main, managerVars, monitorVars>>

\* A file that says max_retry: n and nothing else, or not even that.
FileSaying(n) == <<[read |-> TRUE, parsed |-> TRUE,
                    cfg |-> IF n = NotSaid THEN <<>> ELSE [maxRetry |-> n]]>>
Settings == ClientSettings(FileSaying(choice.file),
              [server |-> <<>>, pty |-> "", maxRetry |-> choice.flag, interval |-> 0])
maxRetry == Settings.maxRetry

Init == /\ ProxyInit
        /\ choice \in Choices
        /\ main = "start"
        /\ conn = 0
        /\ cmRunning = FALSE
        /\ cmStop = FALSE
        /\ retrier = "off"
        /\ retryCount = 0
        /\ failed = 0
        /\ dialled = 0
        /\ monitor = "off"
        /\ lastConn = 0

(* ConnectionManager. *)

Dial == /\ dialled' = dialled + 1
        /\ conn' = dialled + 1

\* Start: a first attempt, whose failure does not matter, then reconnectLoop.
ManagerStart ==
  /\ main = "start"
  /\ main' = "wait"
  /\ cmRunning' = TRUE
  /\ Dial \/ UNCHANGED <<conn, dialled>>
  /\ retrier' = "select"
  /\ UNCHANGED <<proxyVars, choice, cmStop, retryCount, failed, monitorVars>>

RetrierSelect ==
  /\ retrier = "select"
  /\ retrier' = IF cmStop THEN "done" ELSE "check"
  /\ UNCHANGED <<proxyVars, choice, main, conn, cmRunning, cmStop, retryCount, failed, dialled,
                 monitorVars>>

RetrierCheckConnOnly ==
  /\ retrier = "check"
  /\ IF conn # 0
     THEN retrier' = "select" /\ UNCHANGED retryCount
     ELSE /\ retryCount' = IF maxRetry > 0 THEN retryCount + 1 ELSE retryCount
          /\ retrier' = IF maxRetry > 0 /\ retryCount + 1 > maxRetry THEN "done" ELSE "connect"
  /\ UNCHANGED <<proxyVars, choice, main, conn, cmRunning, cmStop, failed, dialled, monitorVars>>

\* conn and running are read; only a connection that is nil is made again.  Without a
\* limit nobody looks at retryCount, and it is left alone.
RetrierCheck ==
  /\ retrier = "check"
  /\ IF ~cmRunning
     THEN retrier' = "done" /\ UNCHANGED retryCount
     ELSE IF conn # 0
     THEN retrier' = "select" /\ UNCHANGED retryCount
     ELSE /\ retryCount' = IF maxRetry > 0 THEN retryCount + 1 ELSE retryCount
          /\ retrier' = IF maxRetry > 0 /\ retryCount + 1 > maxRetry THEN "done" ELSE "connect"
  /\ UNCHANGED <<proxyVars, choice, main, conn, cmRunning, cmStop, failed, dialled, monitorVars>>

RetrierConnectForgetful ==
  /\ retrier = "connect"
  /\ retrier' = "select"
  /\ retryCount' = 0
  /\ \/ conn # 0 /\ failed' = 0 /\ UNCHANGED <<conn, dialled>>
     \/ conn = 0 /\ Dial /\ failed' = 0
     \/ conn = 0 /\ failed <= maxRetry /\ failed' = failed + 1 /\ UNCHANGED <<conn, dialled>>
  /\ UNCHANGED <<proxyVars, choice, main, cmRunning, cmStop, monitorVars>>

\* connect: nothing to do, a dial that succeeds, or one that fails.
RetrierConnect ==
  /\ retrier = "connect"
  /\ retrier' = "select"
  /\ \/ /\ conn # 0
        /\ retryCount' = 0 /\ failed' = 0
        /\ UNCHANGED <<conn, dialled>>
     \/ /\ conn = 0
        /\ Dial
        /\ retryCount' = 0 /\ failed' = 0
     \/ /\ conn = 0
        /\ failed' = IF maxRetry > 0 THEN failed + 1 ELSE failed
        /\ UNCHANGED <<conn, dialled, retryCount>>
  /\ UNCHANGED <<proxyVars, choice, main, cmRunning, cmStop, monitorVars>>

\* Stop, called by main.
ManagerStop(next) ==
  /\ main' = next
  /\ cmRunning' = FALSE
  /\ cmStop' = TRUE
  /\ conn' = 0
  /\ UNCHANGED <<choice, retrier, retryCount, failed, dialled>>

(* main. *)

\* WaitForConnection looks, and then sleeps or has waited for ten seconds.
WaitLooks ==
  /\ main = "wait"
  /\ main' = IF conn # 0 THEN "proxy" ELSE "sleep"
  /\ UNCHANGED <<proxyVars, choice, managerVars, monitorVars>>

WaitSleeps ==
  /\ main = "sleep"
  /\ main' \in {"wait", "fatal"}
  /\ UNCHANGED <<proxyVars, choice, managerVars, monitorVars>>

StartProxy ==
  /\ main = "proxy"
  /\ ProxyStart(conn)
  /\ main' = "run"
  /\ monitor' = "start"
  /\ UNCHANGED <<choice, managerVars, lastConn>>

\* The port is in use.  Start has set remoteConn already.
StartProxyFails ==
  /\ main = "proxy"
  /\ remoteConn' = conn
  /\ closed' = closed \cup {conn}
  /\ ManagerStop("fatal")
  /\ UNCHANGED <<running, stopChan, localConns, remoteBuffer, mu, acceptVars, handler, readVars,
                 writers, user, got, lost, monitorVars>>

\* SIGINT or SIGTERM.
Signal ==
  /\ main = "run"
  /\ main' = "stop"
  /\ UNCHANGED <<proxyVars, choice, managerVars, monitorVars>>

StopProxy ==
  /\ main = "stop"
  /\ ProxyStop
  /\ main' = "stopManager"
  /\ UNCHANGED <<choice, managerVars, monitorVars>>

StopManager ==
  /\ main = "stopManager"
  /\ closed' = closed \cup ({conn} \ {0})
  /\ ManagerStop("done")
  /\ UNCHANGED <<running, stopChan, remoteConn, localConns, remoteBuffer, mu, acceptVars, handler,
                 readVars, writers, user, got, lost, monitorVars>>

(* monitorLoop. *)

MonitorStart ==
  /\ monitor = "start"
  /\ monitor' = "check"
  /\ lastConn' = conn
  /\ UNCHANGED <<proxyVars, choice, main, managerVars>>

\* IsRunning.
MonitorCheck ==
  /\ monitor = "check"
  /\ Unlocked
  /\ monitor' = IF running THEN "compare" ELSE "done"
  /\ UNCHANGED <<proxyVars, choice, main, managerVars, lastConn>>

\* A connection that is new and not nil is given to the proxy, by
\* UpdateRemoteConnection, which closes the old one.  It does not happen: conn does not
\* change while the proxy runs (Connected of WindowsClientProofs).
MonitorCompare ==
  /\ monitor = "compare"
  /\ monitor' = "check"
  /\ IF conn # lastConn /\ conn # 0
     THEN /\ Unlocked
          /\ remoteConn' = conn
          /\ closed' = closed \cup ({remoteConn} \ {0})
          /\ lastConn' = conn
     ELSE UNCHANGED <<remoteConn, closed, lastConn>>
  /\ UNCHANGED <<running, stopChan, localConns, remoteBuffer, mu, acceptVars, handler, readVars,
                 writers, user, got, lost, choice, main, managerVars>>

\* The server ends the connection, or the network does.
ServerLoses(k) ==
  /\ k \notin lost
  /\ lost' = lost \cup {k}
  /\ UNCHANGED <<running, stopChan, remoteConn, localConns, remoteBuffer, mu, acceptVars, handler,
                 readVars, writers, user, got, closed, choice, main, managerVars, monitorVars>>

ProxyStep == ProxyNext /\ UNCHANGED <<choice, main, managerVars, monitorVars>>
Retrier == RetrierSelect \/ RetrierCheck \/ RetrierConnect
Monitor == MonitorStart \/ MonitorCheck \/ MonitorCompare
Main == ManagerStart \/ WaitLooks \/ WaitSleeps \/ StartProxy \/ StartProxyFails \/ StopProxy \/ StopManager

\* log.Fatalf ends the process.
Next == /\ main # "fatal"
        /\ \/ ProxyStep \/ Retrier \/ Monitor \/ Main \/ Signal
           \/ \E k \in 1 .. dialled : ServerLoses(k)
Spec == Init /\ [][Next]_vars

\* Every goroutine goes on while it can; Go's mutex lets nobody wait for ever, which is
\* strong fairness for Stop.  Local programs read what is written to them and the server
\* reads its input, so that no Write blocks for ever; this is assumed of the server, which
\* reads on as long as the writes to its port return (DisconnectCleansUp of TCPServer).  Nobody has to type, to connect or to send.
Proceeds(A) == main # "fatal" /\ A /\ UNCHANGED <<choice, main, managerVars, monitorVars>>
Fairness == /\ WF_vars(Proceeds(AcceptLoop))
            /\ WF_vars(Proceeds(ReadLoop))
            /\ \A c \in Conns : WF_vars(Proceeds(Handle(c)))
            /\ WF_vars(main # "fatal" /\ Retrier)
            /\ WF_vars(main # "fatal" /\ Monitor)
            /\ WF_vars(Main)
            /\ SF_vars(StopProxy)
FairSpec == Spec /\ Fairness

------------------------------------------------------------------------------
TypeOK == /\ ProxyTypeOK
          /\ choice \in [file : Int \cup {NotSaid}, flag : Int]
          /\ main \in {"start", "wait", "sleep", "proxy", "run", "stop", "stopManager", "done", "fatal"}
          /\ conn \in Nat /\ dialled \in Nat /\ lastConn \in Nat
          /\ cmRunning \in BOOLEAN /\ cmStop \in BOOLEAN
          /\ retrier \in {"off", "select", "check", "connect", "done"}
          /\ retryCount \in Nat /\ failed \in Nat
          /\ monitor \in {"off", "start", "check", "compare", "done"}

(* When main has ended in order, every connection to the server that was ever    *)
(* made is closed, whatever reconnectLoop and monitorLoop were doing when the    *)
(* signal came: reconnectLoop makes no connection after Stop (main.go:186-193),  *)
(* although its look at stopChan and its look at running are two steps.          *)
StopLeavesNoConnection == main = "done" => 1 .. dialled \subseteq closed

\* The flag, else what the file says, else the default.
AskedLimit == IF choice.flag # 0 THEN choice.flag
              ELSE IF choice.file # NotSaid THEN choice.file ELSE 10
GivesUp == retrier = "done" /\ cmRunning

(* reconnectLoop gives up after exactly as many failed dials in a row as the     *)
(* user asked for, and never when a negative number was asked for; a 0 in the    *)
(* file is the case of UnlimitedIsNone (main.go:198-202, defaults.go:107).       *)
RetryAsConfigured ==
  /\ AskedLimit > 0 => failed <= AskedLimit
  /\ GivesUp /\ AskedLimit # 0 => AskedLimit > 0 /\ failed = AskedLimit

(* A max_retry of 0 is no limit, as configs/client.yaml:23 says ("0 for          *)
(* infinite") of the value it ships: the client never gives up.                  *)
UnlimitedIsNone == GivesUp => AskedLimit # 0

(* Stop ends everything the client started: main returns, the loops and handlers *)
(* end, and no local program keeps an open connection, also one that was just    *)
(* being accepted (proxy.go:190-215, main.go:117-118).                           *)
ShutdownEnds ==
  main = "stop" ~> /\ main = "done"
                   /\ acceptor = "done" /\ reader = "done" /\ monitor = "done" /\ retrier = "done"
                   /\ \A c \in Conns : handler[c] \in {"off", "done"} /\ user[c] # "open"

(* A connection that the server has ended is replaced by a new one while the     *)
(* client runs, as README.md:330 and phase_summary_report.md:50 say.             *)
LostConnectionReplaced ==
  (main = "run" /\ remoteConn \in lost) ~> (main # "run" \/ remoteConn \notin lost)
==============================================================================
