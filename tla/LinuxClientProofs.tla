-------------------------- MODULE LinuxClientProofs --------------------------
(***************************************************************************)
(* The Linux client never has two connections and never dials above its    *)
(* limit, for any number of connections and any max_retry.                 *)
(*                                                                         *)
(* OneConnection is kept by a new connection only because the old one is   *)
(* closed by then: tryReconnect is called after an IsConnected() that was  *)
(* false, nothing in between sets connected again (Attempting), and it is  *)
(* false only when r.conn is closed (Flag).                                *)
(***************************************************************************)
EXTENDS LinuxClient, TLAPS

\* r.connected tells whether this client has closed r.conn.
Flag == /\ connected => link[conn] \in {"open", "lost"}
        /\ ~connected => link[conn] = "closed"

Attempting == auto \in {"try", "dial"} => ~connected

\* The forwarding goroutines have connections that were made.
Made == link[downConn] # "unused" /\ link[upConn] # "unused"

\* A dial in progress has been counted and is within the limit.
Counted == /\ misses <= retryCount
           /\ misses <= MaxRetry
           /\ auto = "dial" => misses < retryCount /\ retryCount <= MaxRetry

ConnInv == OneConnection /\ Flag /\ Attempting /\ Made

Inv == TypeOK /\ ConnInv /\ Counted

\* Main starts the goroutines with one connection, and nothing has failed.
LEMMA InitInv == Init => Inv
<1> SUFFICES ASSUME Init PROVE Inv
  OBVIOUS
<1>1. TypeOK
  <2>1. link \in [Conns -> {"unused", "open", "lost", "closed"}]
    BY DEF Init
  <2>2. 0 \in Nat /\ 0 \in 0 .. 1
    OBVIOUS
  <2> QED
    BY <2>1, <2>2 DEF Init, TypeOK
<1>2. ConnInv
  BY DEF Init, ConnInv, OneConnection, Flag, Attempting, Made
<1>3. Counted
  BY RetryAssumption DEF Init, Counted
<1> QED
  BY <1>1, <1>2, <1>3 DEF Inv

\* Disconnect, of the reader or of main, closes r.conn and clears the flag; a
\* goroutine that still has the connection has a closed one.
LEMMA DisconnectKeeps ==
  ASSUME TypeOK, ConnInv, Disconnect,
         UNCHANGED <<auto, downConn, upConn>>
  PROVE  /\ link' \in [Conns -> {"unused", "open", "lost", "closed"}]
         /\ connected' \in BOOLEAN
         /\ ConnInv'
<1>1. /\ link \in [Conns -> {"unused", "open", "lost", "closed"}]
      /\ conn \in Conns /\ downConn \in Conns /\ upConn \in Conns
      /\ link' = [link EXCEPT ![conn] = "closed"]
      /\ connected' = FALSE /\ conn' = conn
  BY DEF TypeOK, Disconnect
<1>2. OneConnection' /\ Made'
  BY <1>1 DEF ConnInv, OneConnection, Made
<1>3. Flag' /\ Attempting'
  BY <1>1 DEF Flag, Attempting
<1> QED
  BY <1>1, <1>2, <1>3 DEF ConnInv

\* The goroutine of AutoReconnect.
LEMMA AutoInv == ASSUME Inv, AutoReconnect PROVE Inv'
<1> USE DEF Inv
<1>1. CASE AutoSelect \/ AutoCheck \/ Report
  <2>1. /\ UNCHANGED <<manager, downVars, upVars>>
        /\ auto' \in {"select", "check", "try", "done"}
        /\ auto' = "try" => ~connected
        /\ TypeOK'
    BY <1>1 DEF AutoSelect, AutoCheck, Report, TypeOK, manager, downVars, upVars, mainVars
  <2>2. ConnInv'
    BY <2>1 DEF ConnInv, OneConnection, Flag, Attempting, Made, manager, downVars, upVars
  <2>3. Counted'
    BY <2>1 DEF Counted, manager
  <2> QED
    BY <2>1, <2>2, <2>3
<1>2. CASE TryReconnect
  <2>1. /\ auto = "try" /\ retryCount' = retryCount + 1
        /\ auto' \in {"dial", "report"}
        /\ auto' = "dial" => retryCount < MaxRetry
        /\ UNCHANGED <<link, conn, connected, misses, downVars, upVars>>
    BY <1>2 DEF TryReconnect, MayDial
  <2>2. TypeOK'
    BY <1>2 DEF TryReconnect, TypeOK, downVars, upVars, mainVars
  <2>3. ConnInv'
    BY <2>1 DEF ConnInv, OneConnection, Flag, Attempting, Made, downVars, upVars
  <2>4. Counted'
    BY <2>1, RetryAssumption DEF Counted, TypeOK
  <2> QED
    BY <2>2, <2>3, <2>4
<1>3. CASE Dialed
  <2>1. /\ auto = "dial" /\ ~connected /\ link[conn] = "closed"
        /\ UNCHANGED <<downVars, upVars>>
        /\ link \in [Conns -> {"unused", "open", "lost", "closed"}]
        /\ conn \in Conns /\ downConn \in Conns /\ upConn \in Conns
    BY <1>3 DEF Dialed, ConnInv, Attempting, Flag, TypeOK
  <2>2. ASSUME NEW c \in Conns, link[c] = "unused",
               link' = [link EXCEPT ![c] = "open"], conn' = c, connected' = TRUE,
               retryCount' = 0, misses' = 0, auto' = "select",
               UNCHANGED <<stopRetry, errors, downVars, upVars, mainVars>>
        PROVE  Inv'
    <3>1. TypeOK'
      BY <2>2 DEF TypeOK, downVars, upVars, mainVars
    <3>2. OneConnection' /\ Made'
      BY <2>1, <2>2 DEF ConnInv, OneConnection, Made, downVars, upVars
    <3>3. Flag' /\ Attempting'
      BY <2>1, <2>2 DEF Flag, Attempting
    <3>4. Counted'
      BY <2>2, RetryAssumption DEF Counted
    <3> QED
      BY <3>1, <3>2, <3>3, <3>4 DEF ConnInv
  <2>3. ASSUME misses' = misses + 1, auto' = "report",
               UNCHANGED <<link, conn, connected, retryCount, stopRetry, errors,
                           downVars, upVars, mainVars>>
        PROVE  Inv'
    <3>1. TypeOK'
      BY <2>3 DEF TypeOK, downVars, upVars, mainVars
    <3>2. ConnInv'
      BY <2>3 DEF ConnInv, OneConnection, Flag, Attempting, Made, downVars, upVars
    <3>3. Counted'
      BY <2>1, <2>3, RetryAssumption DEF Counted, TypeOK
    <3> QED
      BY <3>1, <3>2, <3>3
  <2> QED
    BY <1>3, <2>2, <2>3 DEF Dialed
<1> QED
  BY <1>1, <1>2, <1>3 DEF AutoReconnect

\* The forwarding goroutines.
LEMMA ForwardInv == ASSUME Inv, ServerToPty \/ PtyToServer PROVE Inv'
<1> USE DEF Inv
<1>1. CASE DownDrop
  <2>1. Disconnect /\ UNCHANGED <<auto, downConn, upConn>>
    BY <1>1 DEF DownDrop, autoVars, upVars
  <2>2. /\ link' \in [Conns -> {"unused", "open", "lost", "closed"}]
        /\ connected' \in BOOLEAN
        /\ ConnInv'
    BY <2>1, DisconnectKeeps
  <2>3. /\ UNCHANGED <<conn, retryCount, misses, autoVars, downConn, upVars, mainVars>>
        /\ down' = "select"
    BY <1>1 DEF DownDrop, Disconnect
  <2>4. TypeOK' /\ Counted'
    BY <2>2, <2>3 DEF TypeOK, Counted, autoVars, upVars, mainVars
  <2> QED
    BY <2>2, <2>4
<1>2. CASE DownSelect \/ DownGet \/ DownRead \/ DownWrite \/ PtyToServer
  <2>1. /\ UNCHANGED <<manager, auto>>
        /\ downConn' \in {downConn, conn} /\ upConn' \in {upConn, conn}
        /\ TypeOK'
    <3> USE DEF TypeOK, manager, autoVars, downVars, upVars, mainVars
    <3>1. CASE DownSelect
      BY <3>1 DEF DownSelect
    <3>2. CASE DownGet
      BY <3>2 DEF DownGet
    <3>3. CASE DownRead \/ DownWrite
      BY <3>3 DEF DownRead, DownWrite
    <3>4. CASE UpRead \/ UpStop \/ UpReadFails
      BY <3>4, ZenonT(30) DEF UpRead, UpStop, UpReadFails
    <3>5. CASE UpGet
      BY <3>5 DEF UpGet
    <3>6. CASE UpCheck \/ UpWrite
      BY <3>6 DEF UpCheck, UpWrite
    <3> QED
      BY <1>2, <3>1, <3>2, <3>3, <3>4, <3>5, <3>6 DEF PtyToServer
  <2>2. ConnInv'
    BY <2>1 DEF ConnInv, OneConnection, Flag, Attempting, Made, manager
  <2>3. Counted'
    BY <2>1 DEF Counted, manager
  <2> QED
    BY <2>1, <2>2, <2>3
<1> QED
  BY <1>1, <1>2 DEF ServerToPty

\* Main.
LEMMA MainInv == ASSUME Inv, MainSignal \/ MainGiveUp \/ Shutdown PROVE Inv'
<1> USE DEF Inv
<1>1. CASE MainDisconnect
  <2>1. Disconnect /\ UNCHANGED <<auto, downConn, upConn>>
    BY <1>1 DEF MainDisconnect, autoVars, downVars, upVars
  <2>2. /\ link' \in [Conns -> {"unused", "open", "lost", "closed"}]
        /\ connected' \in BOOLEAN
        /\ ConnInv'
    BY <2>1, DisconnectKeeps
  <2>3. /\ UNCHANGED <<conn, retryCount, misses, autoVars, downVars, upVars, stopChan, cause>>
        /\ main' = "close"
    BY <1>1 DEF MainDisconnect, Disconnect
  <2>4. TypeOK' /\ Counted'
    BY <2>2, <2>3 DEF TypeOK, Counted, autoVars, downVars, upVars
  <2> QED
    BY <2>2, <2>4
<1>2. CASE MainSignal \/ MainGiveUp \/ MainWait \/ MainStopRetry \/ MainClose
  <2>1. /\ UNCHANGED <<manager, auto, downVars, upConn>>
        /\ TypeOK'
    <3> USE DEF TypeOK, manager, autoVars, downVars, upVars
    <3>1. CASE MainSignal
      BY <3>1 DEF MainSignal, StopBecause
    <3>2. CASE MainGiveUp
      BY <3>2 DEF MainGiveUp, StopBecause
    <3>3. CASE MainWait
      BY <3>3 DEF MainWait
    <3>4. CASE MainStopRetry \/ MainClose
      BY <3>4, ZenonT(30) DEF MainStopRetry, MainClose
    <3> QED
      BY <1>2, <3>1, <3>2, <3>3, <3>4
  <2>2. ConnInv' /\ Counted'
    BY <2>1 DEF ConnInv, OneConnection, Flag, Attempting, Made, Counted, manager, downVars
  <2> QED
    BY <2>1, <2>2
<1> QED
  BY <1>1, <1>2 DEF Shutdown

\* A connection that breaks is still the client's connection until it is closed.
LEMMA LoseInv == ASSUME Inv, NEW c \in Conns, Lose(c) PROVE Inv'
<1> USE DEF Inv
<1>1. /\ link[c] = "open" /\ link' = [link EXCEPT ![c] = "lost"]
      /\ UNCHANGED <<conn, connected, retryCount, misses, autoVars, downVars, upVars,
                     mainVars>>
  BY DEF Lose
<1>2. TypeOK'
  BY <1>1 DEF TypeOK, autoVars, downVars, upVars, mainVars
<1>3. ConnInv'
  BY <1>1 DEF ConnInv, OneConnection, Flag, Attempting, Made, TypeOK, autoVars, downVars,
              upVars
<1>4. Counted'
  BY <1>1 DEF Counted, autoVars
<1> QED
  BY <1>2, <1>3, <1>4

\* Every step of the client and its environment preserves the invariant.
LEMMA NextInv == Inv /\ [Next]_vars => Inv'
<1> SUFFICES ASSUME Inv, [Next]_vars PROVE Inv'
  OBVIOUS
<1>1. CASE UNCHANGED vars
  BY <1>1 DEF Inv, TypeOK, ConnInv, OneConnection, Flag, Attempting, Made, Counted, vars,
              manager, autoVars, downVars, upVars, mainVars
<1> QED
  BY <1>1, AutoInv, ForwardInv, MainInv, LoseInv DEF Next

\* The invariant holds in every reachable state.
LEMMA InvAlways == Spec => []Inv
  BY InitInv, NextInv, PTL DEF Spec

------------------------------------------------------------------------------
\* The types of the client's state, and the capacity of errChan: AutoReconnect
\* waits before it reports a second error.
THEOREM ClientTypeCorrect == Spec => []TypeOK
<1>1. Inv => TypeOK
  BY DEF Inv
<1> QED
  BY <1>1, InvAlways, PTL

\* Reconnecting leaks no connection: tryReconnect replaces r.conn only when it is
\* closed, although IsConnected and tryReconnect are two critical sections and the
\* forwarding goroutines keep connections across steps.
THEOREM ClientHasOneConnection == Spec => []OneConnection
<1>1. Inv => OneConnection
  BY DEF Inv, ConnInv
<1> QED
  BY <1>1, InvAlways, PTL

\* tryReconnect dials at most max_retry times without success.
THEOREM DialsAreLimited == Spec => []RetryWithinLimit
<1>1. Inv => RetryWithinLimit
  BY DEF Inv, Counted, RetryWithinLimit
<1> QED
  BY <1>1, InvAlways, PTL
==============================================================================
