----------------------------- MODULE PackagesMC -----------------------------
(* The packages that are independent of each other in one run: one of them is    *)
(* chosen at the start and takes all the steps, so that the states add up. The   *)
(* arbiter is among them, with three clients and four timer objects: the current *)
(* timer and the late callbacks of up to three replaced ones, of one client or   *)
(* of several, coexist.                                                          *)
EXTENDS Arbiter, Broadcaster, SerialPort, Terminal, LogParser, CommandLine, TestReport, Startup

VARIABLE chosen      \* the package that takes the steps

allVars == <<vars, bcVars, portVars, termVars, logVars, argVars, answerVars, reportVars, startVars,
            digitVars, chosen>>

\* Files that say something about the fields that matter, a zero among it, or nothing.
MCClientConfigs == {[maxRetry |-> n, enabled |-> n > 0, port |-> n] : n \in {0, 3}} \cup {<<>>}
MCServerConfigs == {[port |-> n, autoRelease |-> n > 0] : n \in {0, 3}} \cup {<<>>}
MCClientFlags == [server : {<<>>, <<"h", 0>>}, pty : {"", "p"}, maxRetry : {0}, interval : {0}]
                 \cup [server : {<<"h">>}, pty : {""}, maxRetry : {5}, interval : {0, 2}]
MCServerFlags == [serial : {"", "s"}, port : {0, 5}]

Chosen(p) == chosen = p

MCInit == /\ chosen \in {"arbiter", "broadcast", "serial", "pty", "log", "args", "answer", "report",
                         "start", "digits"}
          /\ IF Chosen("args") THEN TRUE ELSE command = "help" /\ args = <<>>
          /\ IF Chosen("start") THEN TRUE
             ELSE /\ program = "server" /\ flags = [serial |-> "", port |-> 0]
                  /\ files = [p \in 1 .. 3 |-> [read |-> FALSE, parsed |-> FALSE, cfg |-> <<>>]]
          /\ IF Chosen("serial") THEN TRUE ELSE kind = "mock"
          /\ Init /\ BcInit /\ TermInit /\ PortInit /\ LogInit /\ ArgsInit /\ AnswerInit /\ ReportInit
          /\ StartInit /\ DigitInit
          /\ command = "help" => args = <<>>

MCNext ==
  \/ Chosen("arbiter") /\ Next /\ UNCHANGED <<bcVars, portVars, termVars, logVars, argVars,
        answerVars, reportVars, startVars, digitVars, chosen>>
  \/ Chosen("broadcast") /\ BcNext /\ UNCHANGED <<vars, portVars, termVars, logVars, argVars,
        answerVars, reportVars, startVars, digitVars, chosen>>
  \/ Chosen("serial") /\ PortNext /\ UNCHANGED <<vars, bcVars, termVars, logVars, argVars,
        answerVars, reportVars, startVars, digitVars, chosen>>
  \/ Chosen("pty") /\ TermNext /\ UNCHANGED <<vars, bcVars, portVars, logVars, argVars,
        answerVars, reportVars, startVars, digitVars, chosen>>
  \/ Chosen("log") /\ LogNext /\ UNCHANGED <<vars, bcVars, portVars, termVars, argVars,
        answerVars, reportVars, startVars, digitVars, chosen>>
  \/ Chosen("args") /\ ArgsNext /\ UNCHANGED <<vars, bcVars, portVars, termVars, logVars,
        answerVars, reportVars, startVars, digitVars, chosen>>
  \/ Chosen("answer") /\ AnswerNext /\ UNCHANGED <<vars, bcVars, portVars, termVars, logVars,
        argVars, reportVars, startVars, digitVars, chosen>>
  \/ Chosen("report") /\ ReportNext /\ UNCHANGED <<vars, bcVars, portVars, termVars, logVars,
        argVars, answerVars, startVars, digitVars, chosen>>
  \/ Chosen("start") /\ Start /\ UNCHANGED <<vars, bcVars, portVars, termVars, logVars,
        argVars, answerVars, reportVars, digitVars, chosen>>
  \/ Chosen("digits") /\ DigitNext /\ UNCHANGED <<vars, bcVars, portVars, termVars, logVars,
        argVars, answerVars, reportVars, startVars, chosen>>

\* The fair actions of a package that was not chosen are never enabled.
MCSpec == /\ MCInit /\ [][MCNext]_allVars
          /\ Fairness /\ BcFairness /\ PortFairness /\ TermFairness
=============================================================================
