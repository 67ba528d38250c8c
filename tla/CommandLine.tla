----------------------------- MODULE CommandLine -----------------------------
(***************************************************************************)
(* The command line tool: main of cmd/cli, which asks the server, and      *)
(* Execute of internal/cli, which answers the user.  Both go over the      *)
(* arguments on their own, main to find the command it sends, Execute to   *)
(* decide what it prints; a step is one round of a loop.                   *)
(*                                                                         *)
(* The answer to GET_LOG is a sequence of bytes that splitLines and        *)
(* parseLogData cut into lines; it is a machine of its own, because the    *)
(* arguments do not matter to it.  A line is where it begins and where it  *)
(* ends.  extractTimestamp and the other extractors only lay out the text. *)
(***************************************************************************)
EXTENDS Integers, Sequences

CONSTANTS Commands,     \* first arguments
          Words,        \* the other arguments
          Bytes,        \* the bytes of an answer; "n" is the newline
          MaxArgs,      \* BOUND: arguments
          MaxAnswer     \* BOUND: bytes of an answer

ASSUME CliAssumption == MaxArgs \in Nat /\ MaxAnswer \in Nat

VARIABLES command,      \* the first argument
          args,         \* the arguments after it
          phase,        \* "main", "execute" or "done"
          at,           \* the place the loop has come to
          opts,         \* filter, format and command of handleLog and handleSend
          toServer,     \* what main sends to the server, or nothing
          ok,           \* Execute returned no error
          answer,       \* the bytes of the answer that splitLines has come to
          start,        \* where the line begins that is not ended yet
          lines         \* the lines that are cut off, without the empty ones

argVars == <<command, args, phase, at, opts, toServer, ok>>
answerVars == <<answer, start, lines>>

\* The empty string.
None == ""

ArgsInit == /\ command \in Commands
            /\ \E n \in 0 .. MaxArgs : args \in [1 .. n -> Words]
            /\ phase = "main"
            /\ at = 1
            /\ opts = [filter |-> None, format |-> "text", command |-> None]
            /\ toServer = None
            /\ ok = FALSE

\* args[i] is the option word, and something comes after it.
IsOption(i, word) == args[i] = word /\ i < Len(args)

\* A round of main's loop, which is there only for send, and ends at the first --command.
SentCommand == /\ phase = "main"
               /\ \/ /\ command = "send" /\ at <= Len(args) /\ IsOption(at, "--command")
                     /\ toServer' = args[at + 1]
                     /\ phase' = "execute"
                     /\ at' = 1
                  \/ /\ command = "send" /\ at <= Len(args) /\ ~IsOption(at, "--command")
                     /\ at' = at + 1
                     /\ UNCHANGED <<toServer, phase>>
                  \/ /\ command # "send" \/ at > Len(args)
                     /\ phase' = "execute"
                     /\ at' = 1
                     /\ UNCHANGED toServer
               /\ UNCHANGED <<command, args, opts, ok>>

LogOptionsInPairs == /\ at <= Len(args)
                     /\ opts' = [opts EXCEPT
                          !.filter = IF IsOption(at, "--filter") THEN args[at + 1] ELSE @,
                          !.format = IF IsOption(at, "--format") THEN args[at + 1] ELSE @]
                     /\ at' = at + 2

\* A round of handleLog: the value of --filter is looked at again, as a possible --format.
LogOptions == LET j == IF IsOption(at, "--filter") THEN at + 1 ELSE at
                  k == IF IsOption(j, "--format") THEN j + 1 ELSE j
              IN  /\ at <= Len(args)
                  /\ opts' = [opts EXCEPT !.filter = IF j > at THEN args[j] ELSE @,
                                          !.format = IF k > j THEN args[k] ELSE @]
                  /\ at' = k + 1

\* A round of handleSend: the last --command counts.
SendCommand == LET j == IF IsOption(at, "--command") THEN at + 1 ELSE at
               IN  /\ at <= Len(args)
                   /\ opts' = [opts EXCEPT !.command = IF j > at THEN args[j] ELSE @]
                   /\ at' = j + 1

Scan == /\ phase = "execute"
        /\ \/ command = "log" /\ LogOptions
           \/ command = "send" /\ SendCommand
        /\ UNCHANGED <<command, args, phase, toServer, ok>>

\* The end of Execute: send needs a command.
Execute == /\ phase = "execute"
           /\ command \in {"log", "send"} => at > Len(args)
           /\ phase' = "done"
           /\ ok' = IF command = "send" THEN opts.command # None
                    ELSE command \in {"version", "log", "status", "help"}
           /\ UNCHANGED <<command, args, at, opts, toServer>>

ArgsNext == SentCommand \/ Scan \/ Execute

ArgsSpec == ArgsInit /\ [][ArgsNext]_argVars

------------------------------------------------------------------------------
\* parseLogData drops the empty line from .. to.
AddLine(all, from, to) == IF from <= to THEN Append(all, <<from, to>>) ELSE all

AnswerInit == answer = <<>> /\ start = 1 /\ lines = <<>>

\* A round of splitLines.
SplitLines(b) == LET i == Len(answer) + 1
                 IN  /\ i <= MaxAnswer
                     /\ answer' = Append(answer, b)
                     /\ start' = IF b = "n" THEN i + 1 ELSE start
                     /\ lines' = IF b = "n" THEN AddLine(lines, start, i - 1) ELSE lines

ParseLogDataEnded == lines

\* The result, if the answer ends here: a last line that is not ended counts.
ParseLogData == AddLine(lines, start, Len(answer))

AnswerNext == \E b \in Bytes : SplitLines(b)

AnswerSpec == AnswerInit /\ [][AnswerNext]_answerVars

------------------------------------------------------------------------------
Options == {"--filter", "--format", "--command"}

\* Every option is followed by a value that is no option.
WellFormed == \A i \in DOMAIN args : args[i] \in Options =>
                i < Len(args) /\ args[i + 1] \notin Options

Places(word) == {i \in DOMAIN args : args[i] = word}

\* v is the value after the last word before place n, the default without one.
GivenBefore(n, word, default, v) ==
  LET before == {i \in Places(word) : i < n}
  IN  IF before = {} THEN v = default
      ELSE \E p \in before : /\ \A q \in before : q <= p
                             /\ v = args[p + 1]

Given(word, default, v) == GivenBefore(Len(args) + 1, word, default, v)

(* Options that are each followed by a value that is no option are understood as *)
(* given, in any order and between any other words, the last one of a kind       *)
(* counting; and send succeeds exactly when main had that command to give to the *)
(* server, if it is given once: the two loops over the arguments agree           *)
(* (cli.go:75-84, 157-166, cmd/cli/main.go:65-81).                               *)
OptionsAsGiven ==
  (phase = "done" /\ WellFormed) =>
    /\ command = "log" => /\ Given("--filter", None, opts.filter)
                          /\ Given("--format", "text", opts.format)
    /\ (command = "send" /\ \A p, q \in Places("--command") : p = q) =>
         opts.command = toServer /\ ok = (toServer # None)

\* from .. to is a line of the answer: no newline in it, and none could be added to it.
IsLine(from, to) == /\ from \in DOMAIN answer /\ to \in from .. Len(answer)
                    /\ \A i \in from .. to : answer[i] # "n"
                    /\ from > 1 => answer[from - 1] = "n"
                    /\ to < Len(answer) => answer[to + 1] = "n"

(* The lines of an answer are the longest runs of bytes without a newline, all   *)
(* of them and in their order, wherever the answer is cut off: the last one      *)
(* counts if it is not ended, and none is empty (cmd/cli/main.go:96-129).        *)
LinesAreTheAnswer ==
  /\ \A k \in DOMAIN ParseLogData : IsLine(ParseLogData[k][1], ParseLogData[k][2])
  /\ \A k \in DOMAIN ParseLogData : \A j \in 1 .. k - 1 :
       ParseLogData[j][2] < ParseLogData[k][1]
  /\ \A i \in DOMAIN answer : answer[i] # "n" =>
       \E k \in DOMAIN ParseLogData : i \in ParseLogData[k][1] .. ParseLogData[k][2]
==============================================================================
