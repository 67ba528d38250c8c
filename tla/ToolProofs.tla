----------------------------- MODULE ToolProofs -----------------------------
(***************************************************************************)
(* Proofs for the code that runs alone: the log parser, the command line   *)
(* tool, the report generator and the start of the programs, for inputs of *)
(* any length.                                                             *)
(***************************************************************************)
EXTENDS LogParser, CommandLine, TestReport, Startup, FiniteSetTheorems, TLAPS

------------------------------------------------------------------------------
(* The arguments of the command line tool. *)

\* What main has found once it is done with the arguments: the value of the first --command.
FirstSent == IF Places("--command") = {} THEN toServer = None
             ELSE \E p \in Places("--command") : /\ \A q \in Places("--command") : p <= q
                                                 /\ toServer = args[p + 1]

ArgsType == /\ args \in Seq(Words)
            /\ at \in Nat \ {0}
            /\ phase \in {"main", "execute", "done"}
            /\ opts = [filter |-> opts.filter, format |-> opts.format, command |-> opts.command]

\* While main looks there was no --command; while Execute looks, the options are the ones
\* given before the place it has come to.
Found ==
  /\ phase = "main" => /\ toServer = None
                       /\ opts = [filter |-> None, format |-> "text", command |-> None]
                       /\ \A i \in Places("--command") : at <= i \/ command # "send"
  /\ phase = "execute" =>
       /\ command = "log" => /\ GivenBefore(at, "--filter", None, opts.filter)
                             /\ GivenBefore(at, "--format", "text", opts.format)
       /\ command = "send" => /\ GivenBefore(at, "--command", None, opts.command)
                              /\ FirstSent
  /\ phase = "done" => OptionsAsGiven

ArgsInv == ArgsType /\ (WellFormed => Found)

(* What a round of a loop over well-formed arguments adds to what was given before: *)
(* nothing, if the word is another one, also if it is an option and its value is    *)
(* passed over; the value after it, if it is the word (cli.go:75-84, 157-162).      *)
LEMMA GivenStep ==
  ASSUME NEW n \in 1 .. Len(args), NEW word \in Options, NEW default, NEW v,
         args \in Seq(Words), WellFormed, GivenBefore(n, word, default, v)
  PROVE  /\ args[n] # word => GivenBefore(n + 1, word, default, v)
         /\ args[n] \in Options \ {word} => GivenBefore(n + 2, word, default, v)
         /\ args[n] = word => GivenBefore(n + 2, word, default, args[n + 1])
<1> DEFINE before(m) == {i \in Places(word) : i < m}
<1> n \in Nat /\ Len(args) \in Nat
  OBVIOUS
<1>0. DOMAIN args = 1 .. Len(args)
  OBVIOUS
<1>1. \A m : \A u : GivenBefore(m, word, default, u) <=>
                IF before(m) = {} THEN u = default
                ELSE \E p \in before(m) : (\A q \in before(m) : q <= p) /\ u = args[p + 1]
  BY DEF GivenBefore
<1>2. args[n] # word => before(n + 1) = before(n)
  BY <1>0 DEF Places
<1>3. args[n] \in Options => args[n + 1] \notin Options /\ n + 1 \in DOMAIN args
  <2>1. n \in DOMAIN args
    BY <1>0
  <2>2. args[n] \in Options => n < Len(args) /\ args[n + 1] \notin Options
    BY <2>1 DEF WellFormed
  <2> QED BY <2>2, <1>0
<1>4. args[n] \in Options \ {word} => before(n + 2) = before(n)
  BY <1>0, <1>3 DEF Places
<1>5. args[n] = word => before(n + 2) = before(n) \cup {n}
  BY <1>0, <1>3 DEF Places
<1>6. \A i \in before(n) : i < n /\ i \in Nat
  BY <1>0 DEF Places
<1>7. ASSUME args[n] = word PROVE GivenBefore(n + 2, word, default, args[n + 1])
  <2>1. n \in before(n + 2) /\ \A q \in before(n + 2) : q <= n
    BY <1>5, <1>6, <1>7
  <2> HIDE DEF before
  <2> QED BY <2>1, <1>1
<1> HIDE DEF before
<1> QED BY <1>1, <1>2, <1>4, <1>7

\* What the machine knows at its beginning.
LEMMA ArgsStart == ArgsInit => ArgsInv
<1> SUFFICES ASSUME ArgsInit PROVE ArgsInv
  OBVIOUS
<1>1. args \in Seq(Words)
  <2>1. PICK n \in 0 .. MaxArgs : args \in [1 .. n -> Words]
    BY DEF ArgsInit
  <2> QED BY <2>1
<1>2. \A i \in Places("--command") : at <= i
  <2>1. at = 1 /\ DOMAIN args = 1 .. Len(args)
    BY <1>1 DEF ArgsInit
  <2> QED BY <2>1 DEF Places
<1>3. ArgsType
  BY <1>1 DEF ArgsInit, ArgsType
<1>4. Found
  BY <1>2 DEF ArgsInit, Found
<1> QED BY <1>3, <1>4 DEF ArgsInv

\* main's loop finds the first --command.
LEMMA ArgsMain == ArgsInv /\ SentCommand => ArgsInv'
<1> SUFFICES ASSUME ArgsInv, SentCommand PROVE ArgsInv'
  OBVIOUS
<1>0. /\ DOMAIN args = 1 .. Len(args) /\ Len(args) \in Nat /\ at \in Nat /\ at >= 1
      /\ args' = args /\ opts' = opts /\ command' = command
  BY DEF SentCommand, ArgsInv, ArgsType
<1>1. ArgsType'
  BY <1>0 DEF SentCommand, ArgsInv, ArgsType
<1>2. (WellFormed <=> WellFormed') /\ \A w : Places(w)' = Places(w)
  BY <1>0 DEF WellFormed, Places
<1>3. SUFFICES ASSUME WellFormed PROVE Found'
  BY <1>1, <1>2 DEF ArgsInv
<1>4. /\ phase = "main" /\ toServer = None
      /\ opts = [filter |-> None, format |-> "text", command |-> None]
      /\ \A i \in Places("--command") : at <= i \/ command # "send"
  BY <1>3 DEF SentCommand, Found, ArgsInv
<1>5. opts.filter = None /\ opts.format = "text" /\ opts.command = None
  BY <1>4
<1>6. \A w, d : at' = 1 => GivenBefore(1, w, d, d)'
  BY <1>0, <1>2 DEF GivenBefore, Places
<1>7. CASE phase' = "main"
  <2>1. /\ command = "send" /\ at \in 1 .. Len(args) /\ ~IsOption(at, "--command")
        /\ at' = at + 1 /\ toServer' = toServer
    BY <1>7, <1>4, <1>0 DEF SentCommand
  <2>2. at \notin Places("--command")
    BY <2>1, <1>3, <1>0 DEF IsOption, WellFormed, Places, Options
  <2>3. \A i \in Places("--command") : i \in Nat /\ at <= i /\ i # at
    BY <2>1, <2>2, <1>4, <1>0 DEF Places
  <2>4. \A i \in Places("--command") : at' <= i
    BY <2>1, <2>3
  <2> QED BY <2>1, <2>4, <1>0, <1>2, <1>4, <1>7 DEF Found
<1>8. CASE phase' = "execute"
  <2>1. at' = 1
    BY <1>8, <1>4 DEF SentCommand
  <2>2. ASSUME command = "send" PROVE FirstSent'
    <3>1. CASE at <= Len(args) /\ IsOption(at, "--command")
      <4>1. at \in Places("--command") /\ toServer' = args[at + 1]
        BY <3>1, <2>2, <1>0 DEF IsOption, Places, SentCommand
      <4> QED BY <4>1, <1>0, <1>2, <1>4, <2>2 DEF FirstSent
    <3>2. CASE ~(at <= Len(args) /\ IsOption(at, "--command"))
      <4>1. at > Len(args) /\ toServer' = toServer
        BY <3>2, <2>2, <1>0, <1>4, <1>8 DEF SentCommand
      <4>2. Places("--command") = {}
        BY <4>1, <1>4, <1>0, <2>2 DEF Places
      <4> QED BY <4>1, <4>2, <1>2, <1>4 DEF FirstSent
    <3> QED BY <3>1, <3>2
  <2> QED BY <2>1, <2>2, <1>0, <1>5, <1>6, <1>8 DEF Found
<1> QED BY <1>7, <1>8, <1>4 DEF SentCommand

\* A round of handleLog or handleSend goes over a word, or over an option and its value.
LEMMA ArgsScan == ArgsInv /\ Scan => ArgsInv'
<1> SUFFICES ASSUME ArgsInv, Scan PROVE ArgsInv'
  OBVIOUS
<1>0. /\ DOMAIN args = 1 .. Len(args) /\ Len(args) \in Nat /\ at \in 1 .. Len(args)
      /\ args' = args /\ command' = command /\ toServer' = toServer
      /\ phase = "execute" /\ phase' = phase /\ args \in Seq(Words)
  BY DEF Scan, LogOptions, SendCommand, ArgsInv, ArgsType
<1>1. /\ WellFormed <=> WellFormed'
      /\ \A w : Places(w)' = Places(w)
      /\ FirstSent' <=> FirstSent
      /\ \A n, w, d, v : GivenBefore(n, w, d, v)' <=> GivenBefore(n, w, d, v)
  BY <1>0 DEF WellFormed, Places, FirstSent, GivenBefore
<1>2. opts = [filter |-> opts.filter, format |-> opts.format, command |-> opts.command]
  BY DEF ArgsInv, ArgsType
<1>3. CASE command = "log" /\ LogOptions
  <2> DEFINE j == IF IsOption(at, "--filter") THEN at + 1 ELSE at
             k == IF IsOption(j, "--format") THEN j + 1 ELSE j
  <2>1. /\ opts' = [opts EXCEPT !.filter = IF j > at THEN args[j] ELSE @,
                                !.format = IF k > j THEN args[k] ELSE @]
        /\ at' = k + 1
    BY <1>3 DEF LogOptions
  <2>2. j \in Nat /\ k \in Nat
    BY <1>0
  <2>3. opts' = [filter |-> IF j > at THEN args[j] ELSE opts.filter,
                 format |-> IF k > j THEN args[k] ELSE opts.format, command |-> opts.command]
    BY <2>1, <1>2
  <2>4. ArgsType'
    <3>1. opts' = [filter |-> opts.filter, format |-> opts.format, command |-> opts.command]'
      BY <2>3
    <3>2. at' \in Nat \ {0}
      BY <2>1, <2>2
    <3> QED BY <3>1, <3>2, <1>0 DEF ArgsType
  <2>5. ASSUME WellFormed PROVE Found'
    <3>0. GivenBefore(at, "--filter", None, opts.filter) /\ GivenBefore(at, "--format", "text", opts.format)
      BY <2>5, <1>3, <1>0 DEF ArgsInv, Found
    <3>1. args[at] \in Options => at < Len(args) /\ args[at + 1] \notin Options
      BY <2>5, <1>0 DEF WellFormed
    <3>2. CASE args[at] = "--filter"
      <4>1. j = at + 1 /\ k = at + 1
        BY <3>1, <3>2, <1>0 DEF IsOption, Options
      <4>2. opts'.filter = args[at + 1] /\ opts'.format = opts.format /\ at' = at + 2
        BY <4>1, <2>1, <2>3, <1>0
      <4>3. GivenBefore(at + 2, "--filter", None, args[at + 1])
            /\ GivenBefore(at + 2, "--format", "text", opts.format)
        BY <3>0, <3>2, <2>5, <1>0, GivenStep DEF Options
      <4> QED BY <4>2, <4>3, <1>0, <1>1, <1>3 DEF Found
    <3>3. CASE args[at] = "--format"
      <4>1. j = at /\ k = at + 1
        BY <3>1, <3>3, <1>0 DEF IsOption, Options
      <4>2. opts'.filter = opts.filter /\ opts'.format = args[at + 1] /\ at' = at + 2
        BY <4>1, <2>1, <2>3, <1>0
      <4>3. GivenBefore(at + 2, "--filter", None, opts.filter)
            /\ GivenBefore(at + 2, "--format", "text", args[at + 1])
        BY <3>0, <3>3, <2>5, <1>0, GivenStep DEF Options
      <4> QED BY <4>2, <4>3, <1>0, <1>1, <1>3 DEF Found
    <3>4. CASE args[at] \notin {"--filter", "--format"}
      <4>1. j = at /\ k = at
        BY <3>4, <1>0 DEF IsOption
      <4>2. opts'.filter = opts.filter /\ opts'.format = opts.format /\ at' = at + 1
        BY <4>1, <2>1, <2>3, <1>0
      <4>3. GivenBefore(at + 1, "--filter", None, opts.filter)
            /\ GivenBefore(at + 1, "--format", "text", opts.format)
        BY <3>0, <3>4, <2>5, <1>0, GivenStep DEF Options
      <4> QED BY <4>2, <4>3, <1>0, <1>1, <1>3 DEF Found
    <3> QED BY <3>2, <3>3, <3>4
  <2> QED BY <2>4, <2>5, <1>1 DEF ArgsInv
<1>4. CASE command = "send" /\ SendCommand
  <2> DEFINE j == IF IsOption(at, "--command") THEN at + 1 ELSE at
  <2>1. /\ opts' = [opts EXCEPT !.command = IF j > at THEN args[j] ELSE @]
        /\ at' = j + 1
    BY <1>4 DEF SendCommand
  <2>2. j \in Nat
    BY <1>0
  <2>3. opts' = [filter |-> opts.filter, format |-> opts.format,
                 command |-> IF j > at THEN args[j] ELSE opts.command]
    BY <2>1, <1>2
  <2>4. ArgsType'
    <3>1. opts' = [filter |-> opts.filter, format |-> opts.format, command |-> opts.command]'
      BY <2>3
    <3>2. at' \in Nat \ {0}
      BY <2>1, <2>2
    <3> QED BY <3>1, <3>2, <1>0 DEF ArgsType
  <2>5. ASSUME WellFormed PROVE Found'
    <3>0. GivenBefore(at, "--command", None, opts.command) /\ FirstSent
      BY <2>5, <1>4, <1>0 DEF ArgsInv, Found
    <3>1. args[at] \in Options => at < Len(args) /\ args[at + 1] \notin Options
      BY <2>5, <1>0 DEF WellFormed
    <3>2. CASE args[at] = "--command"
      <4>1. opts'.command = args[at + 1] /\ at' = at + 2
        BY <3>1, <3>2, <2>1, <2>3, <1>0 DEF IsOption, Options
      <4>2. GivenBefore(at + 2, "--command", None, args[at + 1])
        BY <3>0, <3>2, <2>5, <1>0, GivenStep DEF Options
      <4> QED BY <4>1, <4>2, <3>0, <1>0, <1>1, <1>4 DEF Found
    <3>3. CASE args[at] # "--command"
      <4>1. opts'.command = opts.command /\ at' = at + 1
        BY <3>3, <2>1, <2>3, <1>0 DEF IsOption
      <4>2. GivenBefore(at + 1, "--command", None, opts.command)
        BY <3>0, <3>3, <2>5, <1>0, GivenStep DEF Options
      <4> QED BY <4>1, <4>2, <3>0, <1>0, <1>1, <1>4 DEF Found
    <3> QED BY <3>2, <3>3
  <2> QED BY <2>4, <2>5, <1>1 DEF ArgsInv
<1> QED BY <1>3, <1>4 DEF Scan

\* At the end the options are the ones given in all of the arguments, and the first
\* --command is the last one, if there is only one.
LEMMA ArgsEnd == ArgsInv /\ Execute => ArgsInv'
<1> SUFFICES ASSUME ArgsInv, Execute PROVE ArgsInv'
  OBVIOUS
<1>0. /\ DOMAIN args = 1 .. Len(args) /\ Len(args) \in Nat /\ at \in Nat
      /\ args' = args /\ opts' = opts /\ command' = command /\ toServer' = toServer /\ at' = at
      /\ phase = "execute" /\ phase' = "done"
  BY DEF Execute, ArgsInv, ArgsType
<1>1. /\ WellFormed <=> WellFormed'
      /\ \A w : Places(w)' = Places(w)
      /\ \A w, d, v : Given(w, d, v)' <=> Given(w, d, v)
  BY <1>0 DEF WellFormed, Places, Given, GivenBefore
<1>2. ArgsType'
  BY <1>0 DEF ArgsInv, ArgsType
<1>3. SUFFICES ASSUME WellFormed PROVE OptionsAsGiven'
  BY <1>0, <1>1, <1>2 DEF ArgsInv, Found
<1>4. ASSUME at > Len(args), NEW w, NEW d, NEW v, GivenBefore(at, w, d, v) PROVE Given(w, d, v)
  <2>1. {i \in Places(w) : i < at} = {i \in Places(w) : i < Len(args) + 1}
    BY <1>0, <1>4 DEF Places
  <2> QED BY <2>1, <1>4 DEF Given, GivenBefore
<1>5. ASSUME command = "log" PROVE Given("--filter", None, opts.filter) /\ Given("--format", "text", opts.format)
  <2>1. /\ at > Len(args)
        /\ GivenBefore(at, "--filter", None, opts.filter)
        /\ GivenBefore(at, "--format", "text", opts.format)
    BY <1>3, <1>5, <1>0 DEF ArgsInv, Found, Execute
  <2> QED BY <2>1, <1>4
<1>6. ASSUME command = "send", \A p, q \in Places("--command") : p = q
      PROVE  opts.command = toServer /\ ok' = (toServer # None)
  <2>1. /\ at > Len(args) /\ ok' = (opts.command # None)
        /\ GivenBefore(at, "--command", None, opts.command) /\ FirstSent
    BY <1>3, <1>6, <1>0 DEF ArgsInv, Found, Execute
  <2>2. Given("--command", None, opts.command)
    BY <2>1, <1>4
  <2>3. {i \in Places("--command") : i < Len(args) + 1} = Places("--command")
    BY <1>0 DEF Places
  <2>4. opts.command = toServer
    BY <2>1, <2>2, <2>3, <1>6 DEF Given, GivenBefore, FirstSent
  <2> QED BY <2>1, <2>4
<1> QED BY <1>0, <1>1, <1>5, <1>6 DEF OptionsAsGiven

(* For any arguments: options that are each followed by a value are understood as     *)
(* given, and a command that is given once is the one that was sent.                  *)
THEOREM ArgumentsAreUnderstood == ArgsSpec => []OptionsAsGiven
<1>1. ArgsInv /\ UNCHANGED argVars => ArgsInv'
  <2> SUFFICES ASSUME ArgsInv, UNCHANGED argVars PROVE ArgsInv'
    OBVIOUS
  <2>1. args' = args /\ opts' = opts /\ command' = command /\ toServer' = toServer /\ at' = at
        /\ phase' = phase /\ ok' = ok
    BY DEF argVars
  <2> QED BY <2>1, SMTT(30) DEF ArgsInv, ArgsType, Found, WellFormed, Places, GivenBefore, Given, FirstSent,
                      OptionsAsGiven
<1>2. ArgsInv /\ [ArgsNext]_argVars => ArgsInv'
  BY <1>1, ArgsMain, ArgsScan, ArgsEnd DEF ArgsNext
<1>3. ArgsInv => OptionsAsGiven
  BY DEF ArgsInv, Found, OptionsAsGiven
<1> QED BY ArgsStart, <1>2, <1>3, PTL DEF ArgsSpec

------------------------------------------------------------------------------
(* The answer to GET_LOG. *)

\* IsLine for an answer a.
LineOf(a, from, to) == /\ from \in Nat \ {0} /\ to \in Nat /\ from <= to /\ to <= Len(a)
                       /\ \A i \in from .. to : a[i] # "n"
                       /\ from > 1 => a[from - 1] = "n"
                       /\ to < Len(a) => a[to + 1] = "n"

\* The lines in all are the ones of the first n bytes of a.
Cut(a, all, n) ==
  /\ \A k \in DOMAIN all : LineOf(a, all[k][1], all[k][2]) /\ all[k][2] <= n
  /\ \A k \in DOMAIN all : \A j \in 1 .. k - 1 : all[j][2] < all[k][1]
  /\ \A i \in 1 .. n : a[i] # "n" => \E k \in DOMAIN all : i \in all[k][1] .. all[k][2]

\* All is cut up to the place from, which is the beginning or comes after a newline.
CutTo(a, all, from) == /\ a \in Seq(Bytes)
                       /\ all \in Seq(Nat \X Nat)
                       /\ from \in Nat \ {0}
                       /\ from - 1 <= Len(a)
                       /\ from > 1 => a[from - 1] = "n"
                       /\ \A i \in from .. Len(a) : a[i] # "n"
                       /\ Cut(a, all, from - 1)

AnswerInv == CutTo(answer, lines, start)

\* A byte after a newline makes no line before it longer.
LEMMA LineStays ==
  ASSUME NEW a \in Seq(Bytes), NEW b \in Bytes, NEW n \in Nat, n <= Len(a), n > 0 => a[n] = "n",
         NEW from, NEW to, LineOf(a, from, to), to <= n
  PROVE  LineOf(Append(a, b), from, to)
<1>1. from \in Nat /\ from >= 1 /\ to \in Nat /\ from <= to /\ to <= Len(a) /\ Len(a) \in Nat
  BY DEF LineOf
<1>2. \A i \in from .. to : a[i] # "n"
  BY DEF LineOf
<1>3. to < n
  <2>1. a[to] # "n"
    BY <1>1, <1>2
  <2> QED BY <2>1, <1>1
<1>4. a[to + 1] = "n"
  BY <1>1, <1>3 DEF LineOf
<1>5. Append(a, b)[to + 1] = "n"
  BY <1>1, <1>3, <1>4
<1>6. \A i \in from .. to : Append(a, b)[i] # "n"
  BY <1>1, <1>2
<1>7. from > 1 => Append(a, b)[from - 1] = "n"
  BY <1>1 DEF LineOf
<1> QED BY <1>1, <1>5, <1>6, <1>7 DEF LineOf

\* Nor does it change what the lines before it are.
LEMMA CutGrows ==
  ASSUME NEW a \in Seq(Bytes), NEW all \in Seq(Nat \X Nat), NEW n \in 0 .. Len(a), NEW b \in Bytes,
         n > 0 => a[n] = "n", Cut(a, all, n)
  PROVE  Cut(Append(a, b), all, n)
<1>1. n \in Nat /\ n <= Len(a) /\ Len(a) \in Nat
  OBVIOUS
<1>2. ASSUME NEW k \in DOMAIN all PROVE LineOf(Append(a, b), all[k][1], all[k][2]) /\ all[k][2] <= n
  <2>1. LineOf(a, all[k][1], all[k][2]) /\ all[k][2] <= n
    BY <1>2 DEF Cut
  <2> QED BY <2>1, <1>1, LineStays
<1>3. ASSUME NEW i \in 1 .. n, Append(a, b)[i] # "n" PROVE \E k \in DOMAIN all : i \in all[k][1] .. all[k][2]
  <2>1. a[i] # "n"
    BY <1>1, <1>3
  <2> QED BY <2>1 DEF Cut
<1> QED BY <1>2, <1>3 DEF Cut

\* AddLine adds the line from .. to, if it is not empty (cmd/cli/main.go:98-102).
LEMMA CutAdds ==
  ASSUME NEW a \in Seq(Bytes), NEW all \in Seq(Nat \X Nat), NEW from \in Nat \ {0}, NEW to \in Nat,
         from - 1 <= to, to <= Len(a), \A i \in from .. to : a[i] # "n",
         from > 1 => a[from - 1] = "n", to < Len(a) => a[to + 1] = "n",
         Cut(a, all, from - 1)
  PROVE  Cut(a, AddLine(all, from, to), to) /\ AddLine(all, from, to) \in Seq(Nat \X Nat)
<1>1. CASE from > to
  <2>1. AddLine(all, from, to) = all /\ to = from - 1
    BY <1>1 DEF AddLine
  <2> QED BY <2>1
<1>2. CASE from <= to
  <2>0. AddLine(all, from, to) = Append(all, <<from, to>>)
    BY <1>2 DEF AddLine
  <2>1. PICK more \in Seq(Nat \X Nat) : more = Append(all, <<from, to>>)
    <3>1. Append(all, <<from, to>>) \in Seq(Nat \X Nat)
      OBVIOUS
    <3> QED BY <3>1
  <2>2. PICK n \in Nat : n = Len(all)
    OBVIOUS
  <2>3. DOMAIN more = 1 .. n + 1 /\ DOMAIN all = 1 .. n
    BY <2>1, <2>2
  <2>4. more[n + 1] = <<from, to>>
    BY <2>1, <2>2
  <2>5. \A k \in 1 .. n : more[k] = all[k]
    BY <2>1, <2>2
  <2>6. more[n + 1][1] = from /\ more[n + 1][2] = to
    BY <2>4
  <2>7. LineOf(a, from, to)
    BY <1>2 DEF LineOf
  <2>8. ASSUME NEW k \in 1 .. n
        PROVE  /\ LineOf(a, more[k][1], more[k][2]) /\ more[k][2] < from /\ more[k][2] <= to
               /\ \A j \in 1 .. k - 1 : more[j][2] < more[k][1]
    <3>1. more[k] = all[k] /\ k \in DOMAIN all
      BY <2>3, <2>5
    <3>2. LineOf(a, all[k][1], all[k][2]) /\ all[k][2] <= from - 1
      BY <3>1 DEF Cut
    <3>3. all[k][2] \in Nat
      BY <3>2 DEF LineOf
    <3>4. ASSUME NEW j \in 1 .. k - 1 PROVE more[j][2] < more[k][1]
      <4>1. more[j] = all[j]
        BY <2>5
      <4>2. all[j][2] < all[k][1]
        BY <3>1 DEF Cut
      <4> QED BY <4>1, <4>2, <3>1
    <3>5. all[k][2] < from /\ all[k][2] <= to
      BY <3>2, <3>3, <1>2
    <3> QED BY <3>1, <3>2, <3>4, <3>5
  <2>9. ASSUME NEW k \in 1 .. n + 1 PROVE LineOf(a, more[k][1], more[k][2]) /\ more[k][2] <= to
    <3>1. CASE k = n + 1
      BY <3>1, <2>6, <2>7
    <3>2. CASE k \in 1 .. n
      BY <3>2, <2>8
    <3> QED BY <3>1, <3>2
  <2>10. ASSUME NEW k \in 1 .. n + 1, NEW j \in 1 .. k - 1 PROVE more[j][2] < more[k][1]
    <3>1. CASE k = n + 1
      <4>1. more[j][2] < from
        BY <3>1, <2>8
      <4> QED BY <4>1, <3>1, <2>6
    <3>2. CASE k \in 1 .. n
      BY <3>2, <2>8
    <3> QED BY <3>1, <3>2
  <2>11. ASSUME NEW i \in 1 .. to, a[i] # "n"
         PROVE  \E k \in 1 .. n + 1 : i \in more[k][1] .. more[k][2]
    <3>1. CASE i >= from
      <4>1. i \in more[n + 1][1] .. more[n + 1][2]
        BY <3>1, <2>6
      <4> QED BY <4>1
    <3>2. CASE i < from
      <4>1. i \in 1 .. from - 1
        BY <3>2
      <4>2. PICK k \in DOMAIN all : i \in all[k][1] .. all[k][2]
        BY <4>1, <2>11 DEF Cut
      <4>3. k \in 1 .. n /\ more[k] = all[k]
        BY <4>2, <2>3, <2>5
      <4>4. k \in 1 .. n + 1 /\ i \in more[k][1] .. more[k][2]
        BY <4>2, <4>3
      <4> QED BY <4>4
    <3> QED BY <3>1, <3>2, SMTT(30)
  <2> QED BY <2>0, <2>1, <2>3, <2>9, <2>10, <2>11 DEF Cut
<1> QED BY <1>1, <1>2

\* A round of splitLines that comes to a newline.
LEMMA LineEnds ==
  ASSUME NEW a, NEW all, NEW from, "n" \in Bytes, CutTo(a, all, from)
  PROVE  CutTo(Append(a, "n"), AddLine(all, from, Len(a)), Len(a) + 2)
<1>0. /\ a \in Seq(Bytes) /\ all \in Seq(Nat \X Nat) /\ Len(a) \in Nat
      /\ from \in Nat /\ from >= 1 /\ from - 1 <= Len(a)
  BY DEF CutTo
<1>1. from > 1 => a[from - 1] = "n"
  BY DEF CutTo
<1>2. \A i \in from .. Len(a) : a[i] # "n"
  BY DEF CutTo
<1>3. PICK c \in Seq(Bytes) : c = Append(a, "n")
  <2>1. Append(a, "n") \in Seq(Bytes)
    BY <1>0
  <2> QED BY <2>1
<1>4. Cut(c, all, from - 1)
  BY <1>0, <1>1, <1>3, CutGrows DEF CutTo
<1>5. \A i \in from .. Len(a) : c[i] # "n"
  BY <1>0, <1>2, <1>3
<1>6. from > 1 => c[from - 1] = "n"
  BY <1>0, <1>1, <1>3
<1>7. c[Len(a) + 1] = "n" /\ Len(c) = Len(a) + 1
  BY <1>0, <1>3
<1>8. PICK more : more = AddLine(all, from, Len(a))
  OBVIOUS
<1>9. Cut(c, more, Len(a)) /\ more \in Seq(Nat \X Nat)
  <2>1. from \in Nat \ {0} /\ Len(a) <= Len(c)
    BY <1>0, <1>7
  <2> QED BY <2>1, <1>0, <1>3, <1>4, <1>5, <1>6, <1>7, <1>8, CutAdds
<1>10. Cut(c, more, Len(a) + 1)
  <2>1. ASSUME NEW k \in DOMAIN more
        PROVE  LineOf(c, more[k][1], more[k][2]) /\ more[k][2] <= Len(a) + 1
    <3>1. LineOf(c, more[k][1], more[k][2]) /\ more[k][2] <= Len(a)
      BY <1>9, <2>1 DEF Cut
    <3>2. more[k][2] \in Nat
      BY <3>1 DEF LineOf
    <3> QED BY <3>1, <3>2, <1>0
  <2>2. ASSUME NEW i \in 1 .. Len(a) + 1, c[i] # "n"
        PROVE  \E k \in DOMAIN more : i \in more[k][1] .. more[k][2]
    <3>1. i \in 1 .. Len(a)
      BY <2>2, <1>0, <1>7
    <3> QED BY <3>1, <2>2, <1>9 DEF Cut
  <2>3. \A k \in DOMAIN more : \A j \in 1 .. k - 1 : more[j][2] < more[k][1]
    BY <1>9 DEF Cut
  <2> QED BY <2>1, <2>2, <2>3 DEF Cut
<1>11. CutTo(c, more, Len(a) + 2)
  <2>1. Len(a) + 2 - 1 = Len(a) + 1 /\ Len(a) + 2 \in Nat \ {0} /\ Len(a) + 2 > Len(c)
    BY <1>0, <1>7
  <2> QED BY <2>1, <1>0, <1>7, <1>9, <1>10 DEF CutTo
<1> QED BY <1>3, <1>8, <1>11

\* A round that comes to another byte.
LEMMA LineGoesOn ==
  ASSUME NEW a, NEW all, NEW from, NEW b \in Bytes, b # "n", CutTo(a, all, from)
  PROVE  CutTo(Append(a, b), all, from)
<1>0. /\ a \in Seq(Bytes) /\ all \in Seq(Nat \X Nat) /\ Len(a) \in Nat
      /\ from \in Nat /\ from >= 1 /\ from - 1 <= Len(a)
  BY DEF CutTo
<1>1. from > 1 => a[from - 1] = "n"
  BY DEF CutTo
<1>2. \A i \in from .. Len(a) : a[i] # "n"
  BY DEF CutTo
<1>3. PICK c \in Seq(Bytes) : c = Append(a, b)
  <2>1. Append(a, b) \in Seq(Bytes)
    BY <1>0
  <2> QED BY <2>1
<1>4. Cut(c, all, from - 1)
  BY <1>0, <1>1, <1>3, CutGrows DEF CutTo
<1>5. Len(c) = Len(a) + 1 /\ \A i \in from .. Len(a) + 1 : c[i] # "n"
  BY <1>0, <1>2, <1>3
<1>6. from > 1 => c[from - 1] = "n"
  BY <1>0, <1>1, <1>3
<1>7. CutTo(c, all, from)
  BY <1>0, <1>4, <1>5, <1>6 DEF CutTo
<1> QED BY <1>3, <1>7

\* A round of splitLines.
LEMMA AnswerStep == ASSUME AnswerInv, NEW b \in Bytes, SplitLines(b) PROVE AnswerInv'
<1>0. Len(answer) \in Nat
  BY DEF AnswerInv, CutTo
<1>1. CASE b = "n"
  <2>1. /\ answer' = Append(answer, "n") /\ start' = Len(answer) + 2
        /\ lines' = AddLine(lines, start, Len(answer))
    BY <1>0, <1>1 DEF SplitLines
  <2> QED BY <1>1, <2>1, LineEnds DEF AnswerInv
<1>2. CASE b # "n"
  <2>1. answer' = Append(answer, b) /\ start' = start /\ lines' = lines
    BY <1>2 DEF SplitLines
  <2> QED BY <1>2, <2>1, LineGoesOn DEF AnswerInv
<1> QED BY <1>1, <1>2

\* The rest that is not ended is the last line.
LEMMA AnswerResult == AnswerInv => LinesAreTheAnswer
<1> SUFFICES ASSUME AnswerInv PROVE LinesAreTheAnswer
  OBVIOUS
<1>0. /\ answer \in Seq(Bytes) /\ lines \in Seq(Nat \X Nat) /\ Len(answer) \in Nat
      /\ start \in Nat \ {0} /\ start - 1 <= Len(answer) /\ DOMAIN answer = 1 .. Len(answer)
      /\ start > 1 => answer[start - 1] = "n"
      /\ \A k \in start .. Len(answer) : answer[k] # "n"
      /\ Cut(answer, lines, start - 1)
  BY DEF AnswerInv, CutTo
<1>1. Cut(answer, ParseLogData, Len(answer))
  BY <1>0, CutAdds DEF ParseLogData
<1>2. \A k \in DOMAIN ParseLogData : IsLine(ParseLogData[k][1], ParseLogData[k][2])
  <2> SUFFICES ASSUME NEW k \in DOMAIN ParseLogData PROVE IsLine(ParseLogData[k][1], ParseLogData[k][2])
    OBVIOUS
  <2>1. LineOf(answer, ParseLogData[k][1], ParseLogData[k][2])
    BY <1>1 DEF Cut
  <2> QED BY <2>1, <1>0 DEF LineOf, IsLine
<1> QED BY <1>0, <1>1, <1>2 DEF Cut, LinesAreTheAnswer

(* For any answer, wherever it is cut off: the lines are exactly its longest runs of   *)
(* bytes without a newline, in order.                                                  *)
THEOREM AnswerIsCutIntoItsLines == AnswerSpec => []LinesAreTheAnswer
<1>1. AnswerInit => AnswerInv
  BY DEF AnswerInit, AnswerInv, CutTo, Cut
<1>2. AnswerInv /\ UNCHANGED answerVars => AnswerInv'
  BY DEF AnswerInv, answerVars
<1>3. AnswerInv /\ [AnswerNext]_answerVars => AnswerInv'
  BY <1>2, AnswerStep DEF AnswerNext
<1> QED BY <1>1, <1>3, AnswerResult, PTL DEF AnswerSpec

------------------------------------------------------------------------------
(* The start of the programs: the configuration. *)

\* The first of the files that can be read, and what is known of them.
LEMMA FirstReadable ==
  ASSUME NEW S, S \subseteq 1 .. 3, S # {}
  PROVE  First(S) \in S /\ \A j \in S : First(S) <= j
<1>1. \E i \in S : \A j \in S : i <= j
  <2>1. CASE 1 \in S
    BY <2>1
  <2>2. CASE 1 \notin S /\ 2 \in S
    BY <2>2
  <2>3. CASE 1 \notin S /\ 2 \notin S
    <3>1. \A j \in S : j = 3
      BY <2>3
    <3>2. PICK i \in S : TRUE
      OBVIOUS
    <3>3. \A j \in S : i <= j
      BY <3>1
    <3> QED BY <3>3
  <2> QED BY <2>1, <2>2, <2>3
<1> QED BY <1>1 DEF First

\* A file that is YAML can be read.
LEMMA ParsedFile ==
  ASSUME NEW configs, NEW f \in File(configs), f.parsed
  PROVE  f.read
BY DEF File

\* Which file decides: the first one that can be read, if it parses, and else none.
LEMMA WhoDecides ==
  ASSUME NEW configs, files \in [1 .. 3 -> File(configs)]
  PROVE  /\ Readable(files) = {} => \A p \in 1 .. 3 : ~Decides(p)
         /\ Readable(files) # {} =>
              /\ First(Readable(files)) \in 1 .. 3
              /\ files[First(Readable(files))].parsed => Decides(First(Readable(files)))
              /\ ~files[First(Readable(files))].parsed => \A p \in 1 .. 3 : ~Decides(p)
<1>1. \A p \in 1 .. 3 : files[p].parsed => p \in Readable(files)
  <2> SUFFICES ASSUME NEW p \in 1 .. 3, files[p].parsed PROVE p \in Readable(files)
    OBVIOUS
  <2>1. files[p] \in File(configs)
    OBVIOUS
  <2>2. files[p].read
    BY <2>1, ParsedFile
  <2> QED BY <2>2 DEF Readable
<1>2. Readable(files) \subseteq 1 .. 3 /\ \A p \in Readable(files) : files[p].read
  BY DEF Readable
<1>3. CASE Readable(files) = {}
  BY <1>1, <1>3 DEF Decides
<1>4. CASE Readable(files) # {}
  <2>1. PICK p : p = First(Readable(files))
    OBVIOUS
  <2>2. p \in Readable(files) /\ p \in 1 .. 3 /\ \A j \in Readable(files) : p <= j
    BY <1>2, <1>4, <2>1, FirstReadable
  <2>3. \A q \in 1 .. p - 1 : ~files[q].read
    <3> SUFFICES ASSUME NEW q \in 1 .. p - 1, files[q].read PROVE FALSE
      OBVIOUS
    <3>1. q \in 1 .. 3 /\ q < p
      BY <2>2
    <3>2. q \in Readable(files)
      BY <3>1 DEF Readable
    <3> QED BY <3>1, <3>2, <2>2
  <2>4. files[p].parsed => Decides(p)
    BY <2>3 DEF Decides
  <2>5. ASSUME ~files[p].parsed, NEW q \in 1 .. 3, Decides(q) PROVE FALSE
    <3>1. q \in Readable(files) /\ files[q].parsed
      BY <1>1, <2>5 DEF Decides
    <3>2. p < q
      BY <3>1, <2>2, <2>5
    <3>3. p \in 1 .. q - 1
      BY <3>2, <2>2
    <3> QED BY <3>3, <1>2, <2>2, <2>5 DEF Decides
  <2> QED BY <2>1, <2>2, <2>4, <2>5, <1>4
<1> QED BY <1>3, <1>4

\* c is made as LoadClient and LoadServer make it.
MadeFrom(c, first, zero, default, kept) ==
  IF Readable(files) # {} /\ files[first].parsed
  THEN c = [k \in DOMAIN zero |->
              IF k \notin kept /\ Unmarshal(files[first].cfg, zero)[k] = zero[k] THEN default[k]
              ELSE Unmarshal(files[first].cfg, zero)[k]]
  ELSE c = default

\* Such a configuration is what the files say.
LEMMA Filed ==
  ASSUME NEW zero, NEW default, NEW kept, NEW switch, NEW configs, NEW c, NEW first,
         files \in [1 .. 3 -> File(configs)], first = First(Readable(files)),
         DOMAIN default = DOMAIN zero, switch \in kept,
         \A k \in kept \ {switch} : default[k] = zero[k],
         MadeFrom(c, first, zero, default, kept)
  PROVE  DOMAIN c = DOMAIN zero /\ \A k \in DOMAIN zero : AsFiled(k, c[k], zero, default, switch)
<1>1. CASE Readable(files) # {} /\ files[first].parsed
  <2> PICK said : said = files[first].cfg
    OBVIOUS
  <2>1. first \in 1 .. 3 /\ Decides(first)
    BY <1>1, WhoDecides
  <2>2. c = [k \in DOMAIN zero |-> IF k \notin kept /\ Unmarshal(said, zero)[k] = zero[k] THEN default[k]
                                  ELSE Unmarshal(said, zero)[k]]
    BY <1>1 DEF MadeFrom
  <2>3. ASSUME NEW k \in DOMAIN zero PROVE AsFiled(k, c[k], zero, default, switch)
    <3>1. Unmarshal(said, zero)[k] = IF k \in DOMAIN said THEN said[k] ELSE zero[k]
      BY DEF Unmarshal
    <3>2. k \in DOMAIN said => \/ said[k] = c[k]
                               \/ k # switch /\ said[k] = zero[k] /\ c[k] = default[k]
      BY <2>2, <3>1
    <3>3. k \notin DOMAIN said => k = switch \/ c[k] = default[k]
      BY <2>2, <3>1
    <3> QED BY <2>1, <3>2, <3>3 DEF AsFiled, Says
  <2> QED BY <2>2, <2>3
<1>2. CASE ~(Readable(files) # {} /\ files[first].parsed)
  <2>1. c = default
    BY <1>2 DEF MadeFrom
  <2>2. \A p \in 1 .. 3 : ~Decides(p)
    BY <1>2, WhoDecides
  <2> QED BY <2>1, <2>2 DEF AsFiled
<1> QED BY <1>1, <1>2

\* What a client's main has before it looks at the flags.
LEMMA ClientFiled ==
  ASSUME files \in [1 .. 3 -> File(ClientConfigs)], NEW c,
         c = IF LoadClient(files).ok THEN LoadClient(files).cfg ELSE DefaultClientConfig
  PROVE  /\ DOMAIN c = DOMAIN ZeroClient
         /\ \A k \in DOMAIN ZeroClient :
              AsFiled(k, c[k], ZeroClient, DefaultClientConfig, "enabled")
<1>1. DOMAIN DefaultClientConfig = DOMAIN ZeroClient
  BY DEF DefaultClientConfig, ZeroClient
<1>2. PICK first : first = First(Readable(files))
  OBVIOUS
<1>3. PICK switch : switch = "enabled"
  OBVIOUS
<1>5. PICK kept : kept = {switch, "file"}
  OBVIOUS
<1>4. MadeFrom(c, first, ZeroClient, DefaultClientConfig, kept)
  <2>1. CASE Readable(files) = {}
    BY <2>1 DEF LoadClient, MadeFrom
  <2>2. CASE Readable(files) # {}
    <3>1. LoadClient(files) = [ok |-> files[first].parsed, cfg |-> ApplyClientDefaults(Unmarshal(files[first].cfg, ZeroClient))]
      BY <1>2, <2>2 DEF LoadClient
    <3>2. /\ files[first].parsed => c = ApplyClientDefaults(Unmarshal(files[first].cfg, ZeroClient))
          /\ ~files[first].parsed => c = DefaultClientConfig
      BY <3>1
    <3>3. DOMAIN Unmarshal(files[first].cfg, ZeroClient) = DOMAIN ZeroClient
      BY DEF Unmarshal
    <3> QED BY <1>3, <1>5, <2>2, <3>2, <3>3 DEF ApplyClientDefaults, MadeFrom
  <2> QED BY <2>1, <2>2
<1>6. \A k \in kept \ {switch} : DefaultClientConfig[k] = ZeroClient[k]
  BY <1>5 DEF DefaultClientConfig, ZeroClient
<1>7. /\ DOMAIN c = DOMAIN ZeroClient
      /\ \A k \in DOMAIN ZeroClient : AsFiled(k, c[k], ZeroClient, DefaultClientConfig, switch)
  BY <1>1, <1>2, <1>4, <1>5, <1>6, Filed
<1> QED BY <1>3, <1>7

\* The same for a server's.
LEMMA ServerFiled ==
  ASSUME files \in [1 .. 3 -> File(ServerConfigs)], NEW c,
         c = IF LoadServer(files).ok THEN LoadServer(files).cfg ELSE DefaultServerConfig
  PROVE  /\ DOMAIN c = DOMAIN ZeroServer
         /\ \A k \in DOMAIN ZeroServer :
              AsFiled(k, c[k], ZeroServer, DefaultServerConfig, "autoRelease")
<1>1. DOMAIN DefaultServerConfig = DOMAIN ZeroServer
  BY DEF DefaultServerConfig, ZeroServer
<1>2. PICK first : first = First(Readable(files))
  OBVIOUS
<1>3. PICK switch : switch = "autoRelease"
  OBVIOUS
<1>5. PICK kept : kept = {switch, "file"}
  OBVIOUS
<1>4. MadeFrom(c, first, ZeroServer, DefaultServerConfig, kept)
  <2>1. CASE Readable(files) = {}
    BY <2>1 DEF LoadServer, MadeFrom
  <2>2. CASE Readable(files) # {}
    <3>1. LoadServer(files) = [ok |-> files[first].parsed, cfg |-> ApplyDefaults(Unmarshal(files[first].cfg, ZeroServer))]
      BY <1>2, <2>2 DEF LoadServer
    <3>2. /\ files[first].parsed => c = ApplyDefaults(Unmarshal(files[first].cfg, ZeroServer))
          /\ ~files[first].parsed => c = DefaultServerConfig
      BY <3>1
    <3>3. DOMAIN Unmarshal(files[first].cfg, ZeroServer) = DOMAIN ZeroServer
      BY DEF Unmarshal
    <3> QED BY <1>3, <1>5, <2>2, <3>2, <3>3 DEF ApplyDefaults, MadeFrom
  <2> QED BY <2>1, <2>2
<1>6. \A k \in kept \ {switch} : DefaultServerConfig[k] = ZeroServer[k]
  BY <1>5 DEF DefaultServerConfig, ZeroServer
<1>7. /\ DOMAIN c = DOMAIN ZeroServer
      /\ \A k \in DOMAIN ZeroServer : AsFiled(k, c[k], ZeroServer, DefaultServerConfig, switch)
  BY <1>1, <1>2, <1>4, <1>5, <1>6, Filed
<1> QED BY <1>3, <1>7

StartInv == /\ \/ program = "client" /\ files \in [1 .. 3 -> File(ClientConfigs)]
               \/ program = "server" /\ files \in [1 .. 3 -> File(ServerConfigs)]
            /\ loaded => cfg = IF program = "client" THEN ClientSettings(files, flags)
                               ELSE ServerSettings(files, flags)

\* The part of SettingsPrecedence that is about clients.
LEMMA ClientPrecedence ==
  ASSUME files \in [1 .. 3 -> File(ClientConfigs)], cfg = ClientSettings(files, flags)
  PROVE  /\ flags.server # <<>> => cfg.address = flags.server[1]
         /\ Len(flags.server) = 2 => cfg.port = flags.server[2]
         /\ flags.pty # Unset => cfg.ptyPath = flags.pty
         /\ flags.maxRetry # 0 => cfg.maxRetry = flags.maxRetry
         /\ flags.interval # 0 => cfg.interval = flags.interval
         /\ \A k \in DOMAIN ZeroClient \ ClientFlagged :
              AsFiled(k, cfg[k], ZeroClient, DefaultClientConfig, "enabled")
<1>1. PICK c : c = IF LoadClient(files).ok THEN LoadClient(files).cfg ELSE DefaultClientConfig
  OBVIOUS
<1>2. DOMAIN c = DOMAIN ZeroClient
  BY <1>1, ClientFiled
<1>3. DOMAIN ZeroClient = {"address", "port", "ptyPath", "ptyBaud", "enabled", "interval", "maxRetry",
                           "level", "file"}
  BY DEF ZeroClient
<1>4. cfg = [c EXCEPT !.address  = IF flags.server = <<>> THEN @ ELSE flags.server[1],
                      !.port     = IF Len(flags.server) = 2 THEN flags.server[2] ELSE @,
                      !.ptyPath  = IF flags.pty = Unset THEN @ ELSE flags.pty,
                      !.maxRetry = IF flags.maxRetry = 0 THEN @ ELSE flags.maxRetry,
                      !.interval = IF flags.interval = 0 THEN @ ELSE flags.interval]
  BY <1>1 DEF ClientSettings
<1>5. /\ flags.server # <<>> => cfg.address = flags.server[1]
      /\ Len(flags.server) = 2 => cfg.port = flags.server[2]
      /\ flags.pty # Unset => cfg.ptyPath = flags.pty
      /\ flags.maxRetry # 0 => cfg.maxRetry = flags.maxRetry
      /\ flags.interval # 0 => cfg.interval = flags.interval
  BY <1>2, <1>3, <1>4
<1>6. ASSUME NEW k \in DOMAIN ZeroClient \ ClientFlagged PROVE cfg[k] = c[k]
  BY <1>2, <1>3, <1>4, <1>6 DEF ClientFlagged
<1> QED BY <1>1, <1>5, <1>6, ClientFiled

\* The part that is about servers.
LEMMA ServerPrecedence ==
  ASSUME files \in [1 .. 3 -> File(ServerConfigs)], cfg = ServerSettings(files, flags)
  PROVE  /\ flags.serial # Unset => cfg.path = flags.serial
         /\ flags.port # 0 => cfg.port = flags.port
         /\ \A k \in DOMAIN ZeroServer \ ServerFlagged :
              AsFiled(k, cfg[k], ZeroServer, DefaultServerConfig, "autoRelease")
<1>1. PICK c : c = IF LoadServer(files).ok THEN LoadServer(files).cfg ELSE DefaultServerConfig
  OBVIOUS
<1>2. DOMAIN c = DOMAIN ZeroServer
  BY <1>1, ServerFiled
<1>3. DOMAIN ZeroServer = {"path", "baudrate", "databits", "stopbits", "parity", "port", "address",
                           "timeout", "autoRelease", "level", "file"}
  BY DEF ZeroServer
<1>4. cfg = [c EXCEPT !.path = IF flags.serial = Unset THEN @ ELSE flags.serial,
                      !.port = IF flags.port = 0 THEN @ ELSE flags.port]
  BY <1>1 DEF ServerSettings
<1>5. /\ flags.serial # Unset => cfg.path = flags.serial
      /\ flags.port # 0 => cfg.port = flags.port
  BY <1>2, <1>3, <1>4
<1>6. ASSUME NEW k \in DOMAIN ZeroServer \ ServerFlagged PROVE cfg[k] = c[k]
  BY <1>2, <1>3, <1>4, <1>6 DEF ServerFlagged
<1> QED BY <1>1, <1>5, <1>6, ServerFiled

------------------------------------------------------------------------------
(* The start of the programs: the port number. *)

\* values are what the digits read so far come to; while a number is printed, the digits
\* that are out are its last ones, and the others still are to come.
DigitInv ==
  /\ chars \in Seq(0 .. 10)
  /\ values \in Seq(Nat) /\ Len(values) = Len(chars) + 1 /\ values[1] = 0
  /\ \A i \in 1 .. Len(chars) : chars[i] <= 9 => values[i + 1] = 10 * values[i] + chars[i]
  /\ (chars # <<>> /\ chars[1] \in 1 .. 9) => \A i \in 2 .. Len(chars) + 1 : values[i] > 0
  /\ printing \in BOOLEAN /\ number \in Nat /\ printed \in Seq(0 .. 9)
  /\ ~printing => printed = <<>>
  /\ (printing /\ IsNumber) =>
       /\ Len(printed) <= Len(chars)
       /\ number = values[Len(chars) - Len(printed) + 1]
       /\ \A j \in 1 .. Len(printed) : printed[j] = chars[Len(chars) - Len(printed) + j]

\* The number is used up exactly when all its digits are out.
LEMMA DigitResult == DigitInv => ((printing /\ number = 0 /\ IsNumber) => printed = chars)
<1> SUFFICES ASSUME DigitInv, printing, number = 0, IsNumber PROVE printed = chars
  OBVIOUS
<1>1. /\ chars \in Seq(0 .. 10) /\ printed \in Seq(0 .. 9) /\ Len(chars) \in Nat /\ Len(printed) \in Nat
      /\ Len(printed) <= Len(chars) /\ values[Len(chars) - Len(printed) + 1] = 0
  BY DEF DigitInv
<1>2. chars # <<>> /\ chars[1] \in 1 .. 9
  <2>1. Len(chars) >= 1 /\ chars[1] \in 0 .. 10
    BY <1>1 DEF IsNumber
  <2> QED BY <2>1, <1>1 DEF IsNumber
<1>3. \A i \in 2 .. Len(chars) + 1 : values[i] > 0
  BY <1>2 DEF DigitInv
<1>4. Len(printed) = Len(chars)
  <2> SUFFICES ASSUME Len(printed) < Len(chars) PROVE FALSE
    BY <1>1
  <2>1. Len(chars) - Len(printed) + 1 \in 2 .. Len(chars) + 1
    BY <1>1
  <2> QED BY <2>1, <1>1, <1>3
<1>5. \A j \in 1 .. Len(printed) : printed[j] = chars[Len(chars) - Len(printed) + j]
  BY DEF DigitInv
<1>6. \A j \in 1 .. Len(chars) : printed[j] = chars[j]
  BY <1>1, <1>4, <1>5
<1> QED BY <1>1, <1>4, <1>6

\* A round of main's loop over the characters of the port.
LEMMA DigitRead == ASSUME DigitInv, NEW c \in 0 .. 10, ParsePort(c) PROVE DigitInv'
<1>0. /\ chars \in Seq(0 .. 10) /\ Len(chars) \in Nat /\ values \in Seq(Nat)
      /\ Len(values) = Len(chars) + 1 /\ values[1] = 0
      /\ ~printing /\ printing' = printing /\ number' = number /\ printed' = printed
      /\ number \in Nat /\ printed \in Seq(0 .. 9) /\ printing \in BOOLEAN /\ printed = <<>>
  BY DEF DigitInv, ParsePort
<1>1. PICK last \in Nat : last = values[Len(values)]
  BY <1>0
<1>2. PICK v \in Nat : v = IF c <= 9 THEN last * 10 + c ELSE last
  BY <1>1
<1>3. chars' = Append(chars, c) /\ values' = Append(values, v)
  BY <1>1, <1>2 DEF ParsePort
<1>4. chars' \in Seq(0 .. 10) /\ values' \in Seq(Nat) /\ Len(values') = Len(chars') + 1
      /\ Len(chars') = Len(chars) + 1
  BY <1>0, <1>3
<1>5. values'[1] = 0 /\ values'[Len(chars) + 1] = last /\ values'[Len(chars) + 2] = v
      /\ chars'[Len(chars) + 1] = c
  BY <1>0, <1>1, <1>3
<1>6. ASSUME NEW i \in 1 .. Len(chars)
      PROVE  chars'[i] = chars[i] /\ values'[i] = values[i] /\ values'[i + 1] = values[i + 1]
  BY <1>0, <1>3
<1>7. ASSUME NEW i \in 1 .. Len(chars'), chars'[i] <= 9
      PROVE  values'[i + 1] = 10 * values'[i] + chars'[i]
  <2>1. CASE i \in 1 .. Len(chars)
    <3>1. values[i + 1] = 10 * values[i] + chars[i]
      BY <1>6, <1>7, <2>1 DEF DigitInv
    <3> QED BY <3>1, <1>6, <2>1
  <2>2. CASE i = Len(chars) + 1
    <3>1. v = 10 * last + c
      BY <1>2, <1>5, <1>7, <2>2
    <3> QED BY <3>1, <2>2, <1>5, <1>0
  <2> QED BY <2>1, <2>2, <1>0, <1>4
<1>8. ASSUME chars'[1] \in 1 .. 9, NEW i \in 2 .. Len(chars') + 1 PROVE values'[i] > 0
  <2>1. CASE Len(chars) = 0
    <3>1. c \in 1 .. 9 /\ last = 0 /\ i = 2
      BY <2>1, <1>0, <1>1, <1>4, <1>5, <1>8
    <3> QED BY <3>1, <2>1, <1>2, <1>5
  <2>2. CASE Len(chars) > 0
    <3>0. 1 \in 1 .. Len(chars) /\ chars # <<>>
      BY <2>2, <1>0
    <3>1. chars[1] \in 1 .. 9 /\ chars # <<>>
      BY <3>0, <1>6, <1>8
    <3>2. \A k \in 2 .. Len(chars) + 1 : values[k] > 0
      BY <3>1 DEF DigitInv
    <3>3. CASE i \in 2 .. Len(chars) + 1
      <4>1. i - 1 \in 1 .. Len(chars) /\ i - 1 + 1 = i
        BY <3>3, <1>0
      <4>2. values'[i] = values[i]
        BY <4>1, <1>6
      <4> QED BY <4>2, <3>2, <3>3
    <3>4. CASE i = Len(chars) + 2
      <4>1. last > 0
        BY <3>2, <2>2, <1>0, <1>1
      <4> QED BY <4>1, <3>4, <1>2, <1>5
    <3> QED BY <3>3, <3>4, <1>0, <1>4
  <2> QED BY <2>1, <2>2, <1>0
<1> QED BY <1>0, <1>4, <1>5, <1>7, <1>8 DEF DigitInv

\* The call of intToString.
LEMMA DigitPrint == ASSUME DigitInv, ServerAddress PROVE DigitInv'
<1>0. /\ chars \in Seq(0 .. 10) /\ Len(chars) \in Nat /\ values \in Seq(Nat)
      /\ Len(values) = Len(chars) + 1 /\ values[1] = 0
      /\ chars' = chars /\ values' = values /\ printed' = printed /\ printed = <<>>
      /\ printing' = TRUE /\ number' = values[Len(values)]
  BY DEF DigitInv, ServerAddress
<1>1. number' \in Nat /\ printed' \in Seq(0 .. 9) /\ Len(printed') = 0
  BY <1>0
<1>2. number' = values'[Len(chars') - Len(printed') + 1]
  BY <1>0, <1>1
<1>3. \A i \in 1 .. Len(chars') : chars'[i] <= 9 => values'[i + 1] = 10 * values'[i] + chars'[i]
  BY <1>0 DEF DigitInv
<1>4. (chars' # <<>> /\ chars'[1] \in 1 .. 9) => \A i \in 2 .. Len(chars') + 1 : values'[i] > 0
  BY <1>0 DEF DigitInv
<1> QED BY <1>0, <1>1, <1>2, <1>3, <1>4 DEF DigitInv

\* A round of intToString.
LEMMA DigitOut == ASSUME DigitInv, intToString PROVE DigitInv'
<1>0. /\ chars \in Seq(0 .. 10) /\ Len(chars) \in Nat /\ values \in Seq(Nat)
      /\ Len(values) = Len(chars) + 1 /\ values[1] = 0
      /\ chars' = chars /\ values' = values /\ printing /\ printing' = printing
      /\ number \in Nat /\ number > 0 /\ printed \in Seq(0 .. 9) /\ Len(printed) \in Nat
      /\ printing \in BOOLEAN
  BY DEF DigitInv, intToString
<1>1. PICK d \in 0 .. 9 : d = number % 10
  BY <1>0
<1>2. PICK q \in Nat : q = number \div 10
  BY <1>0
<1>3. printed' = <<d>> \o printed /\ number' = q
  BY <1>1, <1>2 DEF intToString
<1>4. /\ printed' \in Seq(0 .. 9) /\ Len(printed') = Len(printed) + 1 /\ printed'[1] = d
      /\ \A j \in 2 .. Len(printed) + 1 : printed'[j] = printed[j - 1]
  BY <1>0, <1>3
<1>5. \A i \in 1 .. Len(chars') : chars'[i] <= 9 => values'[i + 1] = 10 * values'[i] + chars'[i]
  BY <1>0 DEF DigitInv
<1>6. (chars' # <<>> /\ chars'[1] \in 1 .. 9) => \A i \in 2 .. Len(chars') + 1 : values'[i] > 0
  BY <1>0 DEF DigitInv
<1>7. ASSUME IsNumber'
      PROVE  /\ Len(printed') <= Len(chars')
             /\ number' = values'[Len(chars') - Len(printed') + 1]
             /\ \A j \in 1 .. Len(printed') : printed'[j] = chars'[Len(chars') - Len(printed') + j]
  <2>1. IsNumber
    BY <1>0, <1>7 DEF IsNumber
  <2>2. /\ Len(printed) <= Len(chars)
        /\ number = values[Len(chars) - Len(printed) + 1]
        /\ \A j \in 1 .. Len(printed) : printed[j] = chars[Len(chars) - Len(printed) + j]
    BY <1>0, <2>1 DEF DigitInv
  <2>3. PICK m \in Nat : m = Len(chars) - Len(printed)
    <3>1. Len(chars) - Len(printed) \in Nat
      BY <1>0, <2>2
    <3> QED BY <3>1
  <2>4. m >= 1 /\ m \in 1 .. Len(chars)
    <3>1. number = values[m + 1]
      BY <2>2, <2>3
    <3>2. m # 0
      BY <3>1, <1>0
    <3> QED BY <3>2, <2>3, <1>0
  <2>5. chars[m] \in 0 .. 9
    <3>1. chars[m] \in 0 .. 10 /\ m \in DOMAIN chars
      BY <1>0, <2>4, SMTT(30)
    <3>2. chars[m] <= 9
      BY <3>1, <2>1 DEF IsNumber
    <3> QED BY <3>1, <3>2
  <2>6. number = 10 * values[m] + chars[m] /\ values[m] \in Nat
    <3>1. chars[m] <= 9
      BY <2>5
    <3>2. \A i \in 1 .. Len(chars) : chars[i] <= 9 => values[i + 1] = 10 * values[i] + chars[i]
      BY DEF DigitInv
    <3>3. values[m + 1] = 10 * values[m] + chars[m]
      BY <3>1, <3>2, <2>4
    <3>4. number = values[m + 1]
      BY <2>2, <2>3
    <3>5. values[m] \in Nat
      <4>1. m \in 1 .. Len(values)
        BY <2>4, <1>0
      <4> QED BY <4>1, <1>0
    <3> QED BY <3>3, <3>4, <3>5
  <2>7. d = chars[m] /\ q = values[m]
    BY <2>5, <2>6, <1>1, <1>2
  <2>8. Len(chars') - Len(printed') = m - 1
    BY <1>0, <1>4, <2>3
  <2>9. ASSUME NEW j \in 1 .. Len(printed') PROVE printed'[j] = chars'[m - 1 + j]
    <3>1. CASE j = 1
      BY <3>1, <2>4, <2>7, <1>0, <1>4
    <3>2. CASE j \in 2 .. Len(printed) + 1
      <4>1. printed'[j] = printed[j - 1] /\ j - 1 \in 1 .. Len(printed)
        BY <3>2, <1>0, <1>4
      <4>2. printed[j - 1] = chars[m + (j - 1)]
        BY <4>1, <2>2, <2>3
      <4>3. m + (j - 1) = m - 1 + j
        BY <3>2, <1>0
      <4> QED BY <4>1, <4>2, <4>3, <1>0
    <3> QED BY <3>1, <3>2, <1>0, <1>4
  <2>10. Len(printed') <= Len(chars')
    BY <2>3, <2>4, <1>0, <1>4
  <2>11. Len(chars') - Len(printed') + 1 = m
    BY <2>4, <2>8
  <2>12. number' = values'[m]
    BY <2>7, <1>0, <1>3
  <2> QED BY <2>8, <2>9, <2>10, <2>11, <2>12
<1> QED BY <1>0, <1>2, <1>3, <1>4, <1>5, <1>6, <1>7 DEF DigitInv

(* For any files and flags: a flag that is set counts, else the first readable file,    *)
(* else the default; and the digits of a port that fits an int are the ones dialled.    *)
THEOREM SettingsHavePrecedence == StartSpec /\ DigitSpec => []SettingsPrecedence
<1>1. StartInit => StartInv
  BY DEF StartInit, StartInv
<1>2. StartInv /\ [Start]_startVars => StartInv'
  <2> SUFFICES ASSUME StartInv, [Start]_startVars PROVE StartInv'
    OBVIOUS
  <2>1. CASE Start
    BY <2>1 DEF Start, StartInv
  <2>2. CASE UNCHANGED startVars
    BY <2>2 DEF startVars, StartInv
  <2> QED BY <2>1, <2>2
<1>3. DigitInit => DigitInv
  <2> SUFFICES ASSUME DigitInit PROVE DigitInv
    OBVIOUS
  <2>1. chars = <<>> /\ values = <<0>> /\ printing = FALSE /\ number = 0 /\ printed = <<>>
    BY DEF DigitInit
  <2>2. Len(chars) = 0 /\ values \in Seq(Nat) /\ Len(values) = 1 /\ values[1] = 0
    BY <2>1
  <2>3. chars \in Seq(0 .. 10) /\ printed \in Seq(0 .. 9)
    BY <2>1
  <2>4. number \in Nat /\ printing \in BOOLEAN /\ ~printing
    BY <2>1
  <2>5. /\ \A i \in 1 .. Len(chars) : chars[i] <= 9 => values[i + 1] = 10 * values[i] + chars[i]
        /\ ~(chars # <<>> /\ chars[1] \in 1 .. 9)
    BY <2>1, <2>2
  <2> QED BY <2>1, <2>2, <2>3, <2>4, <2>5 DEF DigitInv
<1>4. DigitInv /\ [DigitNext]_digitVars => DigitInv'
  <2> SUFFICES ASSUME DigitInv, [DigitNext]_digitVars PROVE DigitInv'
    OBVIOUS
  <2>1. CASE UNCHANGED digitVars
    BY <2>1 DEF digitVars, DigitInv, IsNumber
  <2>2. CASE DigitNext
    BY <2>2, DigitRead, DigitPrint, DigitOut DEF DigitNext
  <2> QED BY <2>1, <2>2
<1>5. StartInv /\ DigitInv => SettingsPrecedence
  <2> SUFFICES ASSUME StartInv, DigitInv PROVE SettingsPrecedence
    OBVIOUS
  <2>1. loaded /\ program = "client" =>
          files \in [1 .. 3 -> File(ClientConfigs)] /\ cfg = ClientSettings(files, flags)
    BY DEF StartInv
  <2>2. loaded /\ program = "server" =>
          files \in [1 .. 3 -> File(ServerConfigs)] /\ cfg = ServerSettings(files, flags)
    BY DEF StartInv
  <2> QED BY <2>1, <2>2, ClientPrecedence, ServerPrecedence, DigitResult DEF SettingsPrecedence
<1> QED BY <1>1, <1>2, <1>3, <1>4, <1>5, PTL DEF StartSpec, DigitSpec

------------------------------------------------------------------------------
(* The report of the test runs. *)

Case == [name : Int, status : Verdicts \cup {"RUNNING"}]
Suite == [cases : Seq(Case), total : Nat, count : [Verdicts -> Nat],
          status : Verdicts \cup {NoStatus}, panic : BOOLEAN]
Report == [suites : Seq(Suite), total : Nat, count : [Verdicts -> Nat]]
Line == (Verdicts \cup {"run", "end", "other", "eof"}) \X (Int \cup Verdicts)

\* The number of the last line and of the last case.
LastLine == testLog[Len(testLog)]
LastCase == suite.cases[Len(suite.cases)]

\* A case of some suite.
HasCase(case) ==
  \/ \E k \in DOMAIN suite.cases : suite.cases[k] = case
  \/ \E n \in DOMAIN report.suites : \E k \in DOMAIN report.suites[n].cases :
        report.suites[n].cases[k] = case

\* The parts of VerdictsAreRight that are about single tests.
OwnVerdicts == \A i, j \in DOMAIN testLog :
  (/\ testLog[i][1] = "run" /\ testLog[i][2] >= 0
   /\ testLog[j][1] \in Verdicts /\ OnlyOutput(i, j)) =>
     HasCase([name |-> testLog[i][2], status |-> testLog[j][1]])
Reported(case) == \E j \in DOMAIN testLog : testLog[j] = <<case.status, case.name>>
NoForeignVerdict == \A case : (HasCase(case) /\ case.name >= 0 /\ case.status \in Verdicts) => Reported(case)

\* The line i starts a test, and only output came after it.
Started(i) == testLog[i][1] = "run" /\ \A k \in i + 1 .. Len(testLog) : testLog[k][1] = "other"

\* The parts that are about numbers.
Counted == /\ report.total + suite.total = Cardinality(LinesOf("run"))
           /\ \A v \in Verdicts : report.count[v] + suite.count[v] = Cardinality(LinesOf(v))

\* While a test is open the last case waits for a verdict, and is the one of this test or of a
\* subtest; after a line that starts a test, and only output since, it is the case of this
\* test; a suite that was added leaves nothing behind.
Waiting == /\ \A t \in OpenTests : /\ suite.cases # <<>> /\ LastCase.status = "RUNNING"
                                   /\ LastCase.name \in {-1, t}
           /\ \A i \in DOMAIN testLog : Started(i) =>
                /\ suite.cases # <<>>
                /\ LastCase = [name |-> testLog[i][2], status |-> "RUNNING"]
           /\ AllAdded => suite = NewSuite

ReportInv == /\ testLog \in Seq(Line) /\ suite \in Suite /\ report \in Report
             /\ ~suite.panic /\ Waiting /\ Counted /\ OwnVerdicts /\ NoForeignVerdict

\* The lines of a log that begin with word, after one more line.
LEMMA LinesGrow ==
  ASSUME NEW word, NEW line \in Line, testLog \in Seq(Line), testLog' = Append(testLog, line)
  PROVE  /\ IsFiniteSet(LinesOf(word)) /\ Cardinality(LinesOf(word)) \in Nat
         /\ line[1] = word => Cardinality(LinesOf(word)') = Cardinality(LinesOf(word)) + 1
         /\ line[1] # word => LinesOf(word)' = LinesOf(word)
<1>1. PICK n \in Nat : n = Len(testLog)
  OBVIOUS
<1>2. LinesOf(word) \subseteq 1 .. n /\ IsFiniteSet(1 .. n)
  BY <1>1, FS_Interval DEF LinesOf
<1>3. IsFiniteSet(LinesOf(word)) /\ Cardinality(LinesOf(word)) \in Nat
  BY <1>2, FS_Subset, FS_CardinalityType
<1>4. /\ DOMAIN testLog = 1 .. n /\ DOMAIN testLog' = 1 .. n + 1
      /\ testLog'[n + 1] = line
  BY <1>1
<1>5. \A i \in 1 .. n : testLog'[i] = testLog[i]
  BY <1>1
<1>6. ASSUME line[1] # word PROVE LinesOf(word)' = LinesOf(word)
  BY <1>4, <1>5, <1>6 DEF LinesOf
<1>7. ASSUME line[1] = word PROVE Cardinality(LinesOf(word)') = Cardinality(LinesOf(word)) + 1
  <2>1. LinesOf(word)' = LinesOf(word) \cup {n + 1}
    BY <1>4, <1>5, <1>7 DEF LinesOf
  <2>2. n + 1 \notin LinesOf(word)
    BY <1>2
  <2> QED BY <2>1, <2>2, <1>3, FS_AddElement
<1> QED BY <1>3, <1>6, <1>7

\* When a test is open after one more line.
LEMMA OpenAfter ==
  ASSUME NEW line \in Line, testLog \in Seq(Line), testLog' = Append(testLog, line), NEW t \in OpenTests'
  PROVE  \/ line[1] = "run" /\ line[2] = t
         \/ line[1] \in {"run", "other"} /\ t \in OpenTests
<1>1. PICK n \in Nat : n = Len(testLog)
  OBVIOUS
<1>2. /\ DOMAIN testLog = 1 .. n /\ DOMAIN testLog' = 1 .. n + 1 /\ Len(testLog') = n + 1
      /\ testLog'[n + 1] = line
  BY <1>1
<1>3. \A i \in 1 .. n : testLog'[i] = testLog[i]
  BY <1>1
<1>4. PICK i \in 1 .. n + 1 : /\ testLog'[i][1] = "run" /\ testLog'[i][2] >= 0 /\ testLog'[i][2] = t
                              /\ \A j \in i .. n + 1 : testLog'[j][1] \in {"run", "other"}
  BY <1>2 DEF OpenTests
<1>5. line[1] \in {"run", "other"}
  BY <1>2, <1>4
<1>6. CASE i = n + 1
  BY <1>2, <1>4, <1>6
<1>7. CASE i \in 1 .. n
  <2>1. /\ testLog[i][1] = "run" /\ testLog[i][2] >= 0 /\ testLog[i][2] = t
        /\ \A j \in i .. n : testLog[j][1] \in {"run", "other"}
    <3>1. ASSUME NEW j \in i .. n PROVE testLog'[j] = testLog[j] /\ j \in i .. n + 1
      <4>1. j \in 1 .. n /\ j \in i .. n + 1
        BY <1>7
      <4> QED BY <4>1, <1>3
    <3> QED BY <3>1, <1>7, <1>3, <1>4
  <2> QED BY <2>1, <1>1, <1>2, <1>5, <1>7 DEF OpenTests
<1> QED BY <1>6, <1>7

\* Which line a test was started by last, after one more line.
LEMMA StartedAfter ==
  ASSUME NEW line \in Line, testLog \in Seq(Line), testLog' = Append(testLog, line),
         NEW i \in DOMAIN testLog', Started(i)'
  PROVE  \/ line[1] = "run" /\ testLog'[i] = line
         \/ line[1] = "other" /\ i \in DOMAIN testLog /\ Started(i) /\ testLog'[i] = testLog[i]
<1>1. PICK n \in Nat : n = Len(testLog)
  OBVIOUS
<1>2. /\ DOMAIN testLog = 1 .. n /\ DOMAIN testLog' = 1 .. n + 1 /\ Len(testLog') = n + 1
      /\ testLog'[n + 1] = line
  BY <1>1
<1>3. \A k \in 1 .. n : testLog'[k] = testLog[k]
  BY <1>1
<1>4. testLog'[i][1] = "run" /\ \A k \in i + 1 .. n + 1 : testLog'[k][1] = "other"
  BY <1>2 DEF Started
<1>5. CASE i = n + 1
  BY <1>2, <1>4, <1>5
<1>6. CASE i \in 1 .. n
  <2>1. line[1] = "other"
    <3>1. n + 1 \in i + 1 .. n + 1
      BY <1>6
    <3> QED BY <3>1, <1>2, <1>4
  <2>2. ASSUME NEW k \in i + 1 .. n PROVE testLog[k][1] = "other"
    <3>1. k \in 1 .. n /\ k \in i + 1 .. n + 1
      BY <1>6
    <3> QED BY <3>1, <1>3, <1>4
  <2> QED BY <2>1, <2>2, <1>1, <1>2, <1>3, <1>4, <1>6 DEF Started
<1> QED BY <1>2, <1>5, <1>6

\* What go test writes: a verdict only of the test that is open, and subtests only of it.
LEMMA WhatComes ==
  ASSUME NEW line \in TestLines, testLog \in Seq(Line)
  PROVE  /\ line \in Line /\ line[1] \in Verdicts \cup {"run", "end", "other"}
         /\ line[1] \in Verdicts => line[2] \in OpenTests /\ line = <<line[1], line[2]>>
         /\ line[1] = "run" => line[2] \in Int /\ (line[2] = -1 \/ OpenTests = {})
         /\ line[1] = "end" => line[2] \in Verdicts
<1>1. Len(testLog) \in Int
  OBVIOUS
<1>2. CASE line = <<"other", 0>>
  BY <1>2 DEF Line, Verdicts
<1>3. CASE \E v \in Verdicts : \E t \in OpenTests : line = <<v, t>>
  <2>1. PICK v \in Verdicts, t \in OpenTests : line = <<v, t>>
    BY <1>3
  <2>2. t \in Int \cup Verdicts
    <3>1. PICK i \in DOMAIN testLog : t = testLog[i][2]
      BY DEF OpenTests
    <3>2. testLog[i] \in Line
      OBVIOUS
    <3> QED BY <3>1, <3>2 DEF Line
  <2> QED BY <2>1, <2>2 DEF Line, Verdicts
<1>4. CASE line = <<"run", -1>>
  BY <1>4 DEF Line, Verdicts
<1>5. CASE line = <<"run", Len(testLog)>> /\ OpenTests = {}
  BY <1>1, <1>5 DEF Line, Verdicts
<1>6. CASE line = <<"end", "PASS">> \/ line = <<"end", "FAIL">>
  BY <1>6 DEF Line, Verdicts
<1> QED BY <1>2, <1>3, <1>4, <1>5, <1>6 DEF TestLines

\* A line that starts a test makes a case of it.
LEMMA SuiteRun ==
  ASSUME NEW s \in Suite, NEW line, line[1] = "run", line[2] \in Int
  PROVE  /\ ParseLogLine(s, line) \in Suite
         /\ ParseLogLine(s, line).cases = Append(s.cases, [name |-> line[2], status |-> "RUNNING"])
         /\ ParseLogLine(s, line).total = s.total + 1
         /\ ParseLogLine(s, line).count = s.count
         /\ ParseLogLine(s, line).panic = s.panic
<1>1. ParseLogLine(s, line) = [s EXCEPT !.cases = Append(@, [name |-> line[2], status |-> "RUNNING"]),
                                        !.total = @ + 1]
  BY DEF ParseLogLine, Verdicts
<1>2. [name |-> line[2], status |-> "RUNNING"] \in Case
  BY DEF Case
<1>3. s.cases \in Seq(Case) /\ s.total \in Nat
  BY DEF Suite
<1>4. Append(s.cases, [name |-> line[2], status |-> "RUNNING"]) \in Seq(Case) /\ s.total + 1 \in Nat
  BY <1>2, <1>3
<1> QED BY <1>1, <1>4 DEF Suite

\* A verdict goes to the last case.
LEMMA SuiteVerdict ==
  ASSUME NEW s \in Suite, NEW line, line[1] \in Verdicts, s.cases # <<>>
  PROVE  /\ ParseLogLine(s, line) \in Suite
         /\ ParseLogLine(s, line).cases = [s.cases EXCEPT ![Len(s.cases)].status = line[1]]
         /\ ParseLogLine(s, line).total = s.total
         /\ ParseLogLine(s, line).count = [s.count EXCEPT ![line[1]] = @ + 1]
         /\ ParseLogLine(s, line).panic = s.panic
<1>1. ParseLogLine(s, line) = [s EXCEPT !.cases[Len(s.cases)].status = line[1],
                                        !.count[line[1]] = @ + 1]
  BY DEF ParseLogLine, Verdicts
<1>2. s.cases \in Seq(Case) /\ s.count \in [Verdicts -> Nat] /\ Len(s.cases) \in DOMAIN s.cases
  BY DEF Suite
<1>3. s.cases[Len(s.cases)] \in Case
  BY <1>2
<1>4. [s.cases[Len(s.cases)] EXCEPT !.status = line[1]] \in Case
  BY <1>3 DEF Case
<1>5. [s.cases EXCEPT ![Len(s.cases)].status = line[1]] \in Seq(Case)
  BY <1>2, <1>4
<1>6. [s.count EXCEPT ![line[1]] = @ + 1] \in [Verdicts -> Nat]
  BY <1>2
<1> QED BY <1>1, <1>5, <1>6 DEF Suite

\* Other lines change no case and no number.
LEMMA SuiteOther ==
  ASSUME NEW s \in Suite, NEW line,
         line[1] = "other" \/ (line[1] = "end" /\ line[2] \in Verdicts)
  PROVE  /\ ParseLogLine(s, line) \in Suite
         /\ ParseLogLine(s, line).cases = s.cases
         /\ ParseLogLine(s, line).total = s.total
         /\ ParseLogLine(s, line).count = s.count
         /\ ParseLogLine(s, line).panic = s.panic
<1>1. CASE line[1] = "other"
  <2>1. ParseLogLine(s, line) = s
    BY <1>1 DEF ParseLogLine, Verdicts
  <2> QED BY <2>1
<1>2. CASE line[1] = "end" /\ line[2] \in Verdicts
  <2>1. ParseLogLine(s, line) = [s EXCEPT !.status = line[2]]
    BY <1>2 DEF ParseLogLine, Verdicts
  <2> QED BY <1>2, <2>1 DEF Suite
<1> QED BY <1>1, <1>2

\* The verdicts of the tests after one more line, if no verdict of the ones before is lost.
LEMMA VerdictsAfter ==
  ASSUME NEW line \in Line, testLog \in Seq(Line), testLog' = Append(testLog, line), OwnVerdicts,
         \A case : HasCase(case) /\ case.status \in Verdicts => HasCase(case)',
         \A i \in DOMAIN testLog : \A case :
           (/\ Started(i) /\ line[1] \in Verdicts
            /\ case = [name |-> testLog[i][2], status |-> line[1]]) => HasCase(case)'
  PROVE  OwnVerdicts'
<1>1. PICK n \in Nat : n = Len(testLog)
  OBVIOUS
<1>2. /\ DOMAIN testLog = 1 .. n /\ DOMAIN testLog' = 1 .. n + 1
      /\ testLog'[n + 1] = line
  BY <1>1
<1>3. \A k \in 1 .. n : testLog'[k] = testLog[k]
  BY <1>1
<1>4. SUFFICES ASSUME NEW i \in 1 .. n + 1, NEW j \in 1 .. n + 1,
                      testLog'[i][1] = "run", testLog'[i][2] >= 0, testLog'[j][1] \in Verdicts,
                      i < j, \A k \in i + 1 .. j - 1 : testLog'[k][1] = "other",
                      NEW case, case = [name |-> testLog'[i][2], status |-> testLog'[j][1]]
               PROVE  HasCase(case)'
  BY <1>2 DEF OwnVerdicts, OnlyOutput
<1>5. i \in 1 .. n /\ testLog'[i] = testLog[i]
  <2>1. i \in 1 .. n
    BY <1>4
  <2> QED BY <2>1, <1>3
<1>6. ASSUME NEW k \in i + 1 .. j - 1 PROVE testLog[k][1] = "other"
  <2>1. k \in 1 .. n
    BY <1>5, <1>6
  <2> QED BY <2>1, <1>3, <1>4
<1>7. CASE j \in 1 .. n
  <2>1. testLog'[j] = testLog[j]
    BY <1>3, <1>7
  <2>2. OnlyOutput(i, j)
    BY <1>4, <1>6 DEF OnlyOutput
  <2>3. HasCase(case) /\ case.status \in Verdicts
    BY <2>1, <2>2, <1>2, <1>4, <1>5, <1>7 DEF OwnVerdicts
  <2> QED BY <2>3
<1>8. CASE j = n + 1
  <2>1. Started(i)
    BY <1>1, <1>4, <1>5, <1>6, <1>8 DEF Started
  <2>2. case = [name |-> testLog[i][2], status |-> line[1]] /\ line[1] \in Verdicts
    BY <1>2, <1>4, <1>5, <1>8
  <2> QED BY <2>1, <2>2, <1>2, <1>5
<1>9. j \in 1 .. n \/ j = n + 1
  OBVIOUS
<1> QED BY <1>7, <1>8, <1>9

\* What the cases have was reported, if that of the new ones was.
LEMMA NoneForeignAfter ==
  ASSUME NEW line \in Line, testLog \in Seq(Line), testLog' = Append(testLog, line), NoForeignVerdict,
         \A case : (HasCase(case)' /\ case.status \in Verdicts /\ ~HasCase(case)) =>
                     (case.name >= 0 => line = <<case.status, case.name>>)
  PROVE  NoForeignVerdict'
<1>1. PICK n \in Nat : n = Len(testLog)
  OBVIOUS
<1>2. /\ DOMAIN testLog = 1 .. n /\ DOMAIN testLog' = 1 .. n + 1 /\ testLog'[n + 1] = line
      /\ n + 1 \in 1 .. n + 1 /\ 1 .. n \subseteq 1 .. n + 1
  BY <1>1
<1>3. \A k \in 1 .. n : testLog'[k] = testLog[k]
  BY <1>1
<1>4. SUFFICES ASSUME NEW case, HasCase(case)', case.name >= 0, case.status \in Verdicts
               PROVE  Reported(case)'
  BY DEF NoForeignVerdict
<1>5. CASE HasCase(case)
  <2>1. PICK k \in 1 .. n : testLog[k] = <<case.status, case.name>>
    BY <1>2, <1>4, <1>5 DEF NoForeignVerdict, Reported
  <2> QED BY <2>1, <1>2, <1>3 DEF Reported
<1>6. CASE ~HasCase(case)
  BY <1>2, <1>4, <1>6 DEF Reported
<1> QED BY <1>5, <1>6

\* A round of ParseTestLog.
LEMMA ReportLine == ASSUME ReportInv, NEW line \in TestLines, ParseTestLog(line) PROVE ReportInv'
<1>0. /\ testLog \in Seq(Line) /\ suite \in Suite /\ report \in Report /\ ~suite.panic
      /\ Waiting /\ Counted /\ OwnVerdicts /\ NoForeignVerdict
      /\ testLog' = Append(testLog, line) /\ suite' = ParseLogLine(suite, line) /\ report' = report
  BY DEF ReportInv, ParseTestLog
<1>1. /\ line \in Line /\ line[1] \in Verdicts \cup {"run", "end", "other"}
      /\ line[1] \in Verdicts => line[2] \in OpenTests /\ line = <<line[1], line[2]>>
      /\ line[1] = "run" => line[2] \in Int /\ (line[2] = -1 \/ OpenTests = {})
      /\ line[1] = "end" => line[2] \in Verdicts
  BY <1>0, WhatComes
<1>2. /\ testLog' \in Seq(Line) /\ LastLine' = line /\ testLog' # <<>>
  BY <1>0, <1>1 DEF LastLine
<1>3. ~AllAdded'
  BY <1>1, <1>2 DEF AllAdded, LastLine, Verdicts
<1>4. /\ suite.cases \in Seq(Case) /\ suite.total \in Nat /\ suite.count \in [Verdicts -> Nat]
      /\ report.total \in Nat /\ report.count \in [Verdicts -> Nat]
  BY <1>0 DEF Suite, Report
<1>5. Cardinality(LinesOf("run")) \in Nat /\ \A v \in Verdicts : Cardinality(LinesOf(v)) \in Nat
  BY <1>0, <1>1, LinesGrow
<1>6. CASE line[1] = "run"
  <2>1. /\ suite' \in Suite /\ suite'.total = suite.total + 1 /\ suite'.count = suite.count
        /\ suite'.panic = suite.panic
        /\ suite'.cases = Append(suite.cases, [name |-> line[2], status |-> "RUNNING"])
    BY <1>0, <1>1, <1>6, SuiteRun
  <2>2. PICK new : new = [name |-> line[2], status |-> "RUNNING"]
    OBVIOUS
  <2>3. new \in Case
    BY <2>2, <1>1, <1>6 DEF Case
  <2>4. /\ suite'.cases # <<>> /\ LastCase' = new
        /\ \A k \in DOMAIN suite.cases : k \in DOMAIN suite'.cases /\ suite'.cases[k] = suite.cases[k]
    <3>1. PICK all \in Seq(Case) : all = suite.cases
      BY <1>4
    <3>2. /\ Append(all, new) # <<>> /\ Append(all, new)[Len(Append(all, new))] = new
          /\ \A k \in DOMAIN all : k \in DOMAIN Append(all, new) /\ Append(all, new)[k] = all[k]
      BY <2>3, <3>1
    <3> QED BY <2>1, <2>2, <3>1, <3>2 DEF LastCase
  <2>5. Waiting'
    <3>1. \A t \in OpenTests' : line[2] = t \/ t \in OpenTests
      BY <1>0, <1>1, OpenAfter
    <3>2. \A t \in OpenTests' : line[2] \in {-1, t}
      BY <3>1, <1>1, <1>6
    <3>3. \A i \in DOMAIN testLog' : Started(i)' => testLog'[i] = line
      BY <1>0, <1>1, <1>6, StartedAfter
    <3> QED BY <3>2, <3>3, <2>2, <2>4, <1>3 DEF Waiting
  <2>6. Counted'
    <3>1. Cardinality(LinesOf("run")') = Cardinality(LinesOf("run")) + 1
      BY <1>0, <1>1, <1>6, LinesGrow
    <3>2. \A v \in Verdicts : LinesOf(v)' = LinesOf(v)
      <4> SUFFICES ASSUME NEW v \in Verdicts PROVE LinesOf(v)' = LinesOf(v)
        OBVIOUS
      <4>1. line[1] # v
        BY <1>6 DEF Verdicts
      <4> QED BY <4>1, <1>0, <1>1, LinesGrow
    <3>3. report'.total + suite'.total = Cardinality(LinesOf("run")')
      BY <3>1, <2>1, <1>0, <1>4, <1>5 DEF Counted
    <3>4. \A v \in Verdicts : report'.count[v] + suite'.count[v] = Cardinality(LinesOf(v)')
      BY <3>2, <2>1, <1>0 DEF Counted
    <3> QED BY <3>3, <3>4 DEF Counted
  <2>7. OwnVerdicts'
    <3>1. line[1] \notin Verdicts
      BY <1>6 DEF Verdicts
    <3>2. \A case : HasCase(case) => HasCase(case)'
      BY <2>4, <1>0 DEF HasCase
    <3> QED BY <3>1, <3>2, <1>0, <1>1, VerdictsAfter
  <2>8. NoForeignVerdict'
    <3>1. \A k \in DOMAIN suite'.cases : \/ suite'.cases[k] = new
                                         \/ k \in DOMAIN suite.cases /\ suite'.cases[k] = suite.cases[k]
      <4>1. PICK all \in Seq(Case) : all = suite.cases
        BY <1>4
      <4>2. \A k \in DOMAIN Append(all, new) : \/ Append(all, new)[k] = new
                                               \/ k \in DOMAIN all /\ Append(all, new)[k] = all[k]
        BY <2>3, <4>1
      <4> QED BY <2>1, <2>2, <4>1, <4>2
    <3>2. \A case : HasCase(case)' => (HasCase(case) \/ case = new)
      BY <3>1, <1>0 DEF HasCase
    <3>3. new.status \notin Verdicts
      BY <2>2 DEF Verdicts
    <3> QED BY <3>2, <3>3, <1>0, <1>1, NoneForeignAfter
  <2> QED BY <2>1, <2>5, <2>6, <2>7, <2>8, <1>0, <1>2 DEF ReportInv
<1>7. CASE line[1] \in Verdicts
  <2>0. suite.cases # <<>> /\ LastCase.status = "RUNNING"
    BY <1>0, <1>1, <1>7 DEF Waiting
  <2>1. /\ suite' \in Suite /\ suite'.total = suite.total /\ suite'.panic = suite.panic
        /\ suite'.count = [suite.count EXCEPT ![line[1]] = @ + 1]
        /\ suite'.cases = [suite.cases EXCEPT ![Len(suite.cases)].status = line[1]]
    BY <1>0, <1>7, <2>0, SuiteVerdict
  <2>2. PICK n \in Nat : n = Len(suite.cases) /\ n \in DOMAIN suite.cases
    BY <2>0, <1>4
  <2>3. /\ DOMAIN suite'.cases = DOMAIN suite.cases
        /\ suite'.cases[n] = [suite.cases[n] EXCEPT !.status = line[1]]
        /\ \A k \in DOMAIN suite.cases : k # n => suite'.cases[k] = suite.cases[k]
    BY <2>1, <2>2, <1>4
  <2>4. suite.cases[n] = LastCase /\ suite.cases[n] \in Case
    BY <2>2, <1>4 DEF LastCase
  <2>5. line[1] \notin {"run", "other"}
    BY <1>7 DEF Verdicts
  <2>6. Waiting'
    <3>1. OpenTests' = {}
      BY <2>5, <1>0, <1>1, OpenAfter
    <3>2. \A i \in DOMAIN testLog' : ~Started(i)'
      BY <2>5, <1>0, <1>1, StartedAfter
    <3> QED BY <3>1, <3>2, <1>3 DEF Waiting
  <2>7. Counted'
    <3>1. LinesOf("run")' = LinesOf("run")
      BY <1>0, <1>1, <1>7, LinesGrow DEF Verdicts
    <3>2. ASSUME NEW v \in Verdicts PROVE report'.count[v] + suite'.count[v] = Cardinality(LinesOf(v)')
      <4>1. report.count[v] \in Nat /\ suite.count[v] \in Nat
            /\ report.count[v] + suite.count[v] = Cardinality(LinesOf(v)) /\ report'.count[v] = report.count[v]
        BY <1>0, <1>4 DEF Counted
      <4>2. CASE v = line[1]
        <5>1. suite'.count[v] = suite.count[v] + 1
          BY <4>2, <2>1, <1>4
        <5>2. Cardinality(LinesOf(v)') = Cardinality(LinesOf(v)) + 1
          BY <4>2, <1>0, <1>1, LinesGrow
        <5> QED BY <5>1, <5>2, <4>1
      <4>3. CASE v # line[1]
        <5>1. suite'.count[v] = suite.count[v]
          BY <4>3, <2>1, <1>4, <1>7
        <5>2. LinesOf(v)' = LinesOf(v)
          BY <4>3, <1>0, <1>1, LinesGrow
        <5> QED BY <5>1, <5>2, <4>1
      <4> QED BY <4>2, <4>3
    <3>3. report'.total + suite'.total = Cardinality(LinesOf("run")')
      BY <3>1, <2>1, <1>0 DEF Counted
    <3> QED BY <3>2, <3>3 DEF Counted
  <2>8. OwnVerdicts'
    <3>1. ASSUME NEW case, HasCase(case), case.status \in Verdicts PROVE HasCase(case)'
      <4>1. CASE \E k \in DOMAIN suite.cases : suite.cases[k] = case
        <5>1. PICK k \in DOMAIN suite.cases : suite.cases[k] = case
          BY <4>1
        <5>2. k # n
          BY <5>1, <3>1, <2>0, <2>4 DEF Verdicts
        <5>3. k \in DOMAIN suite'.cases /\ suite'.cases[k] = case
          BY <5>1, <5>2, <2>3
        <5> QED BY <5>3 DEF HasCase
      <4>2. CASE ~\E k \in DOMAIN suite.cases : suite.cases[k] = case
        BY <4>2, <3>1, <1>0 DEF HasCase
      <4> QED BY <4>1, <4>2
    <3>2. ASSUME NEW i \in DOMAIN testLog, NEW case, Started(i),
                 case = [name |-> testLog[i][2], status |-> line[1]]
          PROVE  HasCase(case)'
      <4>1. LastCase = [name |-> testLog[i][2], status |-> "RUNNING"]
        BY <3>2, <1>0 DEF Waiting
      <4>2. suite'.cases[n] = case /\ n \in DOMAIN suite'.cases
        BY <4>1, <3>2, <2>2, <2>3, <2>4
      <4> QED BY <4>2 DEF HasCase
    <3> QED BY <3>1, <3>2, <1>0, <1>1, VerdictsAfter
  <2>9. NoForeignVerdict'
    <3>1. \A case : HasCase(case)' => (HasCase(case) \/ case = suite'.cases[n])
      BY <2>2, <2>3, <1>0 DEF HasCase
    <3>2. suite'.cases[n].status = line[1] /\ suite'.cases[n].name = LastCase.name
      BY <2>3, <2>4 DEF Case
    <3>3. LastCase.name \in {-1, line[2]}
      BY <1>0, <1>1, <1>7 DEF Waiting
    <3>4. suite'.cases[n].name >= 0 => line = <<suite'.cases[n].status, suite'.cases[n].name>>
      BY <3>2, <3>3, <1>1, <1>7
    <3> QED BY <3>1, <3>4, <1>0, <1>1, NoneForeignAfter
  <2> QED BY <2>1, <2>6, <2>7, <2>8, <2>9, <1>0, <1>2 DEF ReportInv
<1>8. CASE line[1] \in {"end", "other"}
  <2>1. /\ suite' \in Suite /\ suite'.total = suite.total /\ suite'.panic = suite.panic
        /\ suite'.count = suite.count /\ suite'.cases = suite.cases
    BY <1>0, <1>1, <1>8, SuiteOther
  <2>2. LastCase' = LastCase
    BY <2>1 DEF LastCase
  <2>3. OpenTests' \subseteq OpenTests
    BY <1>0, <1>1, <1>8, OpenAfter
  <2>4. Waiting'
    <3>1. \A i \in DOMAIN testLog' : Started(i)' =>
             i \in DOMAIN testLog /\ Started(i) /\ testLog'[i] = testLog[i]
      BY <1>0, <1>1, <1>8, StartedAfter
    <3> QED BY <3>1, <2>1, <2>2, <2>3, <1>0, <1>3 DEF Waiting
  <2>5. Counted'
    <3>1. LinesOf("run")' = LinesOf("run")
      BY <1>0, <1>1, <1>8, LinesGrow
    <3>2. \A v \in Verdicts : LinesOf(v)' = LinesOf(v)
      <4> SUFFICES ASSUME NEW v \in Verdicts PROVE LinesOf(v)' = LinesOf(v)
        OBVIOUS
      <4>1. line[1] # v
        BY <1>8 DEF Verdicts
      <4> QED BY <4>1, <1>0, <1>1, LinesGrow
    <3> QED BY <3>1, <3>2, <2>1, <1>0 DEF Counted
  <2>6. OwnVerdicts'
    <3>1. line[1] \notin Verdicts
      BY <1>8 DEF Verdicts
    <3>2. \A case : HasCase(case) => HasCase(case)'
      BY <2>1, <1>0 DEF HasCase
    <3> QED BY <3>1, <3>2, <1>0, <1>1, VerdictsAfter
  <2>7. NoForeignVerdict'
    <3>1. \A case : HasCase(case)' => HasCase(case)
      BY <2>1, <1>0 DEF HasCase
    <3> QED BY <3>1, <1>0, <1>1, NoneForeignAfter
  <2> QED BY <2>1, <2>4, <2>5, <2>6, <2>7, <1>0, <1>2 DEF ReportInv
<1> QED BY <1>1, <1>6, <1>7, <1>8

\* The end of a log.
LEMMA ReportAdd == ASSUME ReportInv, AddSuite PROVE ReportInv'
<1>0. /\ testLog \in Seq(Line) /\ suite \in Suite /\ report \in Report /\ ~suite.panic
      /\ Waiting /\ Counted /\ OwnVerdicts /\ NoForeignVerdict
      /\ testLog' = Append(testLog, <<"eof", 0>>) /\ suite' = NewSuite
      /\ report' = [suites |-> Append(report.suites, suite), total |-> report.total + suite.total,
                    count |-> [v \in Verdicts |-> report.count[v] + suite.count[v]]]
  BY DEF ReportInv, AddSuite
<1>1. PICK line : line = <<"eof", 0>>
  OBVIOUS
<1>2. line \in Line /\ line[1] = "eof" /\ testLog' = Append(testLog, line)
  BY <1>0, <1>1 DEF Line
<1>3. testLog' \in Seq(Line) /\ LastLine' = line /\ testLog' # <<>>
  <2>1. PICK l \in Line : l = line
    BY <1>2
  <2>2. /\ Append(testLog, l) \in Seq(Line) /\ Len(Append(testLog, l)) = Len(testLog) + 1
        /\ Append(testLog, l)[Len(testLog) + 1] = l
    BY <1>0
  <2>3. Append(testLog, l) # <<>>
    BY <1>0
  <2> QED BY <2>1, <2>2, <2>3, <1>2 DEF LastLine
<1>4. /\ suite.total \in Nat /\ suite.count \in [Verdicts -> Nat]
      /\ report.total \in Nat /\ report.count \in [Verdicts -> Nat] /\ report.suites \in Seq(Suite)
  BY <1>0 DEF Suite, Report
<1>5. NewSuite \in Suite /\ ~NewSuite.panic /\ NewSuite.total = 0
      /\ \A v \in Verdicts : NewSuite.count[v] = 0
  BY DEF NewSuite, Suite
<1>6. report' \in Report
  <2>1. Append(report.suites, suite) \in Seq(Suite)
    BY <1>0, <1>4
  <2>2. [v \in Verdicts |-> report.count[v] + suite.count[v]] \in [Verdicts -> Nat]
    BY <1>4
  <2> QED BY <2>1, <2>2, <1>0, <1>4 DEF Report
<1>7. Waiting'
  <2>1. OpenTests' = {}
    BY <1>0, <1>2, OpenAfter
  <2>2. \A i \in DOMAIN testLog' : ~Started(i)'
    BY <1>0, <1>2, StartedAfter
  <2> QED BY <2>1, <2>2, <1>0 DEF Waiting
<1>8. Counted'
  <2>1. LinesOf("run")' = LinesOf("run")
    BY <1>0, <1>2, LinesGrow
  <2>2. report'.total + suite'.total = Cardinality(LinesOf("run")')
    BY <2>1, <1>0, <1>4, <1>5 DEF Counted
  <2>3. ASSUME NEW v \in Verdicts PROVE report'.count[v] + suite'.count[v] = Cardinality(LinesOf(v)')
    <3>1. LinesOf(v)' = LinesOf(v)
      BY <1>0, <1>2, LinesGrow DEF Verdicts
    <3>2. report'.count[v] = report.count[v] + suite.count[v] /\ suite'.count[v] = 0
      BY <1>0, <1>5
    <3>3. report.count[v] + suite.count[v] = Cardinality(LinesOf(v)) /\ report.count[v] + suite.count[v] \in Nat
      BY <1>0, <1>4 DEF Counted
    <3> QED BY <3>1, <3>2, <3>3
  <2> QED BY <2>2, <2>3 DEF Counted
<1>9. OwnVerdicts' /\ NoForeignVerdict'
  <2>1. PICK n \in Nat : n = Len(report.suites)
    BY <1>4
  <2>2. /\ n + 1 \in DOMAIN report'.suites /\ report'.suites[n + 1] = suite
        /\ \A k \in DOMAIN report.suites : /\ k \in DOMAIN report'.suites
                                           /\ report'.suites[k] = report.suites[k]
    <3>1. PICK all \in Seq(Suite) : all = report.suites
      BY <1>4
    <3>2. /\ n + 1 \in DOMAIN Append(all, suite) /\ Append(all, suite)[n + 1] = suite
          /\ \A k \in DOMAIN all : k \in DOMAIN Append(all, suite) /\ Append(all, suite)[k] = all[k]
      BY <2>1, <3>1, <1>0
    <3> QED BY <3>1, <3>2, <1>0
  <2>3. \A case : HasCase(case) => HasCase(case)'
    BY <2>2 DEF HasCase
  <2>4. line[1] \notin Verdicts
    BY <1>2 DEF Verdicts
  <2>5. \A case : HasCase(case)' => HasCase(case)
    <3>1. \A k \in DOMAIN report'.suites :
             \/ report'.suites[k] = suite
             \/ k \in DOMAIN report.suites /\ report'.suites[k] = report.suites[k]
      <4>1. PICK all \in Seq(Suite) : all = report.suites
        BY <1>4
      <4>2. \A k \in DOMAIN Append(all, suite) : \/ Append(all, suite)[k] = suite
                                                 \/ k \in DOMAIN all /\ Append(all, suite)[k] = all[k]
        BY <4>1, <1>0
      <4> QED BY <4>1, <4>2, <1>0
    <3>2. DOMAIN suite'.cases = {}
      BY <1>0 DEF NewSuite
    <3> QED BY <3>1, <3>2 DEF HasCase
  <2>6. OwnVerdicts'
    BY <2>3, <2>4, <1>0, <1>2, VerdictsAfter
  <2>7. NoForeignVerdict'
    BY <2>5, <1>0, <1>2, NoneForeignAfter
  <2> QED BY <2>6, <2>7
<1> QED BY <1>0, <1>3, <1>5, <1>6, <1>7, <1>8, <1>9 DEF ReportInv

\* A report that says passed counts no FAIL, and it counts all of them.
LEMMA ReportResult == ReportInv => VerdictsAreRight
<1> SUFFICES ASSUME ReportInv PROVE VerdictsAreRight
  OBVIOUS
<1>0. testLog \in Seq(Line) /\ suite \in Suite /\ report \in Report /\ ~suite.panic
      /\ Waiting /\ Counted /\ OwnVerdicts /\ NoForeignVerdict
  BY DEF ReportInv
<1>1. ASSUME AllAdded, Summary = "passed" PROVE LinesOf("FAIL") = {}
  <2>1. suite.count["FAIL"] = 0
    BY <1>0, <1>1 DEF Waiting, NewSuite, Verdicts
  <2>2. report.count["FAIL"] = 0
    BY <1>1 DEF Summary
  <2>3. Cardinality(LinesOf("FAIL")) = 0
    BY <2>1, <2>2, <1>0 DEF Counted, Verdicts
  <2>4. IsFiniteSet(LinesOf("FAIL"))
    <3>1. PICK n \in Nat : n = Len(testLog)
      BY <1>0
    <3>2. LinesOf("FAIL") \subseteq 1 .. n /\ IsFiniteSet(1 .. n)
      BY <1>0, <3>1, FS_Interval DEF LinesOf
    <3> QED BY <3>2, FS_Subset
  <2> QED BY <2>3, <2>4, FS_EmptySet
<1>2. \A case : case \in Cases <=> HasCase(case)
  BY DEF Cases, CasesOf, HasCase
<1>3. \A case \in Cases : (case.name >= 0 /\ case.status \in Verdicts) =>
        \E j \in DOMAIN testLog : testLog[j] = <<case.status, case.name>>
  BY <1>0, <1>2 DEF NoForeignVerdict, Reported
<1>4. \A i, j \in DOMAIN testLog :
        (/\ testLog[i][1] = "run" /\ testLog[i][2] >= 0
         /\ testLog[j][1] \in Verdicts /\ OnlyOutput(i, j)) =>
           [name |-> testLog[i][2], status |-> testLog[j][1]] \in Cases
  BY <1>0, <1>2 DEF OwnVerdicts
<1> QED BY <1>0, <1>1, <1>3, <1>4 DEF VerdictsAreRight, Counted

(* For any output of go test -v, cut off anywhere: reading it never panics, a test      *)
(* between whose start and verdict there is only its output has its own verdict, none   *)
(* has that of another one, every line is counted once, and a report says passed only   *)
(* if no verdict is FAIL.                                                               *)
THEOREM ReportCountsRight == ReportSpec => []VerdictsAreRight
<1>1. ReportInit => ReportInv
  <2> SUFFICES ASSUME ReportInit PROVE ReportInv
    OBVIOUS
  <2>1. testLog = <<>> /\ suite = NewSuite /\ report = NewReport
    BY DEF ReportInit
  <2>2. testLog \in Seq(Line) /\ NewSuite \in Suite /\ NewReport \in Report /\ ~NewSuite.panic
        /\ Len(testLog) = 0
    BY <2>1 DEF NewSuite, NewReport, Suite, Report
  <2>3. \A w : LinesOf(w) = {}
    BY <2>1 DEF LinesOf
  <2>4. Counted
    <3>1. suite.total = 0 /\ report.total = 0
      BY <2>1 DEF NewSuite, NewReport
    <3>2. \A v \in Verdicts : suite.count[v] = 0 /\ report.count[v] = 0
      BY <2>1 DEF NewSuite, NewReport
    <3>3. \A w : Cardinality(LinesOf(w)) = 0
      BY <2>3, FS_EmptySet
    <3> QED BY <3>1, <3>2, <3>3 DEF Counted
  <2>5. Waiting
    BY <2>1 DEF Waiting, OpenTests, AllAdded
  <2>6. OwnVerdicts /\ NoForeignVerdict
    BY <2>1, <2>2 DEF OwnVerdicts, NoForeignVerdict, HasCase, NewSuite, NewReport
  <2> QED BY <2>1, <2>2, <2>4, <2>5, <2>6 DEF ReportInv
<1>2. ReportInv /\ UNCHANGED reportVars => ReportInv'
  <2> SUFFICES ASSUME ReportInv, UNCHANGED reportVars PROVE ReportInv'
    OBVIOUS
  <2>1. testLog' = testLog /\ suite' = suite /\ report' = report
    BY DEF reportVars
  <2> QED BY <2>1 DEF ReportInv, Waiting, Counted, OwnVerdicts, NoForeignVerdict, HasCase, Reported,
                      LinesOf, LastLine, LastCase, OpenTests, AllAdded, Started, OnlyOutput
<1>3. ReportInv /\ [ReportNext]_reportVars => ReportInv'
  BY <1>2, ReportLine, ReportAdd DEF ReportNext
<1> QED BY <1>1, <1>3, ReportResult, PTL DEF ReportSpec
------------------------------------------------------------------------------
(* The log parser. *)

\* The lines a filter has to keep, by place.
HitLines == {n \in DOMAIN logLines : logLines[n].hit}
LevelLines(l) == {n \in DOMAIN logLines : ParseLine(logLines[n]).level = l}
RangeLines(from, to) == {n \in DOMAIN logLines : /\ logLines[n].ts \in Seconds
                                                 /\ InRange(logLines[n].ts, from, to)}

\* A result over the lines up to n.
Kept(kept, n, S) == kept \in Seq(1 .. n) /\ S \subseteq 1 .. n /\ Selects(kept, S)

\* The numbers of Stats are those of the entries.
StatsAdded == /\ count \in [Levels -> Nat]
              /\ Len(logLines) = count["INFO"] + count["WARN"] + count["ERROR"] + count["DEBUG"]
                                 + count["FATAL"] + count["TRACE"]

LogInv == /\ logLines \in Seq(LogLine)
          /\ entries = [n \in DOMAIN logLines |-> ParseLine(logLines[n])]
          /\ Kept(hits, Len(logLines), HitLines)
          /\ \A l \in Levels : /\ Kept(perLevel[l], Len(logLines), LevelLines(l))
                               /\ Len(perLevel[l]) = count[l]
          /\ StatsAdded
          /\ \A from, to \in Seconds :
                Kept(inTime[<<from, to>>], Len(logLines), RangeLines(from, to))

\* A round of a filter: line n + 1 comes last if it is kept, and nothing else changes.
LEMMA KeepRound ==
  ASSUME NEW n \in Nat, NEW kept, NEW S, Kept(kept, n, S), NEW keep \in BOOLEAN,
         NEW T, T = IF keep THEN S \cup {n + 1} ELSE S
  PROVE  /\ Kept(KeepIf(kept, n + 1, keep), n + 1, T)
         /\ Len(KeepIf(kept, n + 1, keep)) = Len(kept) + IF keep THEN 1 ELSE 0
<1>0. kept \in Seq(1 .. n) /\ S \subseteq 1 .. n /\ Selects(kept, S)
  BY DEF Kept
<1>1. kept \in Seq(1 .. n + 1) /\ S \subseteq 1 .. n + 1
  BY <1>0
<1>2. CASE ~keep
  BY <1>0, <1>1, <1>2 DEF Kept, KeepIf
<1>3. CASE keep
  <2>1. PICK more : more = Append(kept, n + 1)
    OBVIOUS
  <2>2. PICK m \in Nat : m = Len(kept)
    BY <1>0
  <2>3. /\ more \in Seq(1 .. n + 1) /\ Len(more) = m + 1 /\ DOMAIN more = 1 .. m + 1
        /\ more[m + 1] = n + 1
    BY <1>1, <2>1, <2>2
  <2>4. \A i \in 1 .. m : more[i] = kept[i] /\ kept[i] \in 1 .. n
    BY <1>0, <2>1, <2>2
  <2>5. DOMAIN kept = 1 .. m
    BY <1>0, <2>2
  <2>6. Range(more) = S \cup {n + 1}
    <3>1. Range(kept) = S
      BY <1>0 DEF Selects
    <3>2. ASSUME NEW x PROVE x \in Range(more) <=> x \in Range(kept) \/ x = n + 1
      <4>1. ASSUME x \in Range(more) PROVE x \in Range(kept) \/ x = n + 1
        <5>1. PICK i \in 1 .. m + 1 : x = more[i]
          BY <4>1, <2>3 DEF Range
        <5>2. i = m + 1 \/ i \in 1 .. m
          OBVIOUS
        <5> QED BY <5>1, <5>2, <2>3, <2>4, <2>5 DEF Range
      <4>2. ASSUME x \in Range(kept) PROVE x \in Range(more)
        <5>1. PICK i \in 1 .. m : x = kept[i]
          BY <4>2, <2>5 DEF Range
        <5>2. i \in 1 .. m + 1
          OBVIOUS
        <5> QED BY <5>1, <5>2, <2>3, <2>4 DEF Range
      <4>3. ASSUME x = n + 1 PROVE x \in Range(more)
        <5>1. m + 1 \in 1 .. m + 1
          OBVIOUS
        <5> QED BY <5>1, <4>3, <2>3 DEF Range
      <4> QED BY <4>1, <4>2, <4>3
    <3> QED BY <3>1, <3>2
  <2>7. ASSUME NEW k \in DOMAIN more, NEW j \in 1 .. k - 1 PROVE more[j] < more[k]
    <3>1. j \in 1 .. m /\ k \in 1 .. m + 1
      BY <2>3, <2>7
    <3>2. CASE k = m + 1
      BY <3>1, <3>2, <2>3, <2>4
    <3>3. CASE k \in 1 .. m
      <4>1. kept[j] < kept[k]
        BY <3>3, <2>5, <1>0 DEF Selects
      <4> QED BY <4>1, <3>1, <3>3, <2>4
    <3> QED BY <3>1, <3>2, <3>3
  <2>8. Selects(more, S \cup {n + 1})
    BY <2>6, <2>7 DEF Selects
  <2>9. S \cup {n + 1} \subseteq 1 .. n + 1
    BY <1>1
  <2> QED BY <2>1, <2>2, <2>3, <2>8, <2>9, <1>3 DEF Kept, KeepIf
<1> QED BY <1>2, <1>3

\* What a line is filed under is a level.
LEMMA LineLevel == ASSUME NEW line \in LogLine PROVE ParseLine(line).level \in Levels
<1>1. line.level \in Levels \cup {Blank, "WARNING"}
  BY LogAssumption DEF LogLine
<1> QED BY <1>1 DEF ParseLine, Levels

(* InRange is the way of the clock forward from the one time to the other, over      *)
(* midnight or not: seconds are counted modulo the day (logparser.go:139-155).        *)
LEMMA ClockRange ==
  ASSUME NEW t \in Seconds, NEW from \in Seconds, NEW to \in Seconds
  PROVE  InRange(t, from, to) <=> (t - from) % Day <= (to - from) % Day
<1>0. Day \in Nat \ {0} /\ t \in 0 .. Day - 1 /\ from \in 0 .. Day - 1 /\ to \in 0 .. Day - 1
  BY LogAssumption DEF Seconds
<1>1. ASSUME NEW a \in 0 .. Day - 1 PROVE a % Day = a
  BY <1>0
<1>2. ASSUME NEW a \in -(Day - 1) .. -1 PROVE a % Day = a + Day
  BY <1>0
<1>3. (t - from) % Day = IF t >= from THEN t - from ELSE t - from + Day
  <2>1. CASE t >= from
    BY <2>1, <1>0, <1>1
  <2>2. CASE t < from
    BY <2>2, <1>0, <1>2
  <2> QED BY <2>1, <2>2, <1>0
<1>4. (to - from) % Day = IF to >= from THEN to - from ELSE to - from + Day
  <2>1. CASE to >= from
    BY <2>1, <1>0, <1>1
  <2>2. CASE to < from
    BY <2>2, <1>0, <1>2
  <2> QED BY <2>1, <2>2, <1>0
<1> QED BY <1>0, <1>3, <1>4 DEF InRange

\* The lines of a log with one more line.
LEMMA LogGrows ==
  ASSUME logLines \in Seq(LogLine), NEW line \in LogLine, logLines' = Append(logLines, line),
         NEW n \in Nat, n = Len(logLines)
  PROVE  /\ logLines' \in Seq(LogLine) /\ Len(logLines') = n + 1
         /\ DOMAIN logLines = 1 .. n /\ DOMAIN logLines' = 1 .. n + 1
         /\ logLines'[n + 1] = line
         /\ \A i \in 1 .. n : logLines'[i] = logLines[i]
  OBVIOUS

\* The lines that are to be kept, with one more line.
LEMMA WantedGrow ==
  ASSUME logLines \in Seq(LogLine), NEW line \in LogLine, logLines' = Append(logLines, line),
         NEW n \in Nat, n = Len(logLines)
  PROVE  /\ HitLines' = IF line.hit THEN HitLines \cup {n + 1} ELSE HitLines
         /\ \A l : LevelLines(l)' = IF ParseLine(line).level = l THEN LevelLines(l) \cup {n + 1}
                                    ELSE LevelLines(l)
         /\ \A from, to : RangeLines(from, to)' =
              IF line.ts \in Seconds /\ InRange(line.ts, from, to)
              THEN RangeLines(from, to) \cup {n + 1} ELSE RangeLines(from, to)
<1>1. /\ DOMAIN logLines = 1 .. n /\ DOMAIN logLines' = 1 .. n + 1 /\ logLines'[n + 1] = line
      /\ \A i \in 1 .. n : logLines'[i] = logLines[i]
  BY LogGrows
<1>2. 1 .. n + 1 = (1 .. n) \cup {n + 1} /\ n + 1 \notin 1 .. n
  OBVIOUS
<1>3. HitLines' = IF line.hit THEN HitLines \cup {n + 1} ELSE HitLines
  BY <1>1, <1>2 DEF HitLines
<1>4. ASSUME NEW l
      PROVE  LevelLines(l)' = IF ParseLine(line).level = l THEN LevelLines(l) \cup {n + 1}
                              ELSE LevelLines(l)
  BY <1>1, <1>2, Zenon DEF LevelLines
<1>5. ASSUME NEW from, NEW to
      PROVE  RangeLines(from, to)' =
               IF line.ts \in Seconds /\ InRange(line.ts, from, to)
               THEN RangeLines(from, to) \cup {n + 1} ELSE RangeLines(from, to)
  BY <1>1, <1>2, Zenon DEF RangeLines
<1> QED BY <1>3, <1>4, <1>5

\* One line more for every loop.
LEMMA LogStep == ASSUME LogInv, NEW line \in LogLine, NextLine(line) PROVE LogInv'
<1>1. PICK n \in Nat : n = Len(logLines)
  BY DEF LogInv
<1>2. /\ logLines \in Seq(LogLine) /\ entries = [i \in DOMAIN logLines |-> ParseLine(logLines[i])]
      /\ Kept(hits, n, HitLines)
      /\ StatsAdded
  BY <1>1 DEF LogInv
<1>3. /\ \A l \in Levels : Kept(perLevel[l], n, LevelLines(l)) /\ Len(perLevel[l]) = count[l]
      /\ \A from, to \in Seconds : Kept(inTime[<<from, to>>], n, RangeLines(from, to))
  BY <1>1 DEF LogInv
<1>4. /\ logLines' = Append(logLines, line) /\ entries' = Append(entries, ParseLine(line))
      /\ hits' = Filter(hits, "keyword", line, n + 1)
      /\ inTime' = [r \in Seconds \X Seconds |->
                      FilterTimeRange(inTime[r], r[1], r[2], line, n + 1)]
      /\ perLevel' = [l \in Levels |-> FilterByLevels(perLevel[l], {l}, line, n + 1)]
      /\ count' = Stats(count, line)
  BY <1>1 DEF NextLine
<1>5. /\ logLines' \in Seq(LogLine) /\ Len(logLines') = n + 1
      /\ DOMAIN logLines = 1 .. n /\ DOMAIN logLines' = 1 .. n + 1
      /\ logLines'[n + 1] = line
      /\ \A i \in 1 .. n : logLines'[i] = logLines[i]
  BY <1>1, <1>2, <1>4, LogGrows
<1>6. PICK level \in Levels : level = ParseLine(line).level
  BY LineLevel
<1>7. entries' = [i \in DOMAIN logLines' |-> ParseLine(logLines'[i])]
  <2>1. ASSUME NEW e, NEW f, e = [i \in 1 .. n |-> ParseLine(logLines[i])],
               f = [i \in 1 .. n + 1 |-> ParseLine(logLines'[i])]
        PROVE  Append(e, ParseLine(line)) = f
    <3>1. DOMAIN e = 1 .. n /\ Len(e) = n
      BY <2>1
    <3>2. Append(e, ParseLine(line)) = [i \in 1 .. n + 1 |-> IF i = n + 1 THEN ParseLine(line) ELSE e[i]]
      BY <2>1, <3>1
    <3>3. ASSUME NEW i \in 1 .. n + 1
          PROVE  (IF i = n + 1 THEN ParseLine(line) ELSE e[i]) = ParseLine(logLines'[i])
      <4>1. i = n + 1 \/ (i # n + 1 /\ i \in 1 .. n)
        OBVIOUS
      <4> QED BY <4>1, <2>1, <1>5
    <3> QED BY <3>2, <3>3, <2>1
  <2> QED BY <2>1, <1>2, <1>4, <1>5
<1>8. Kept(hits', n + 1, HitLines')
  <2>1. hits' = KeepIf(hits, n + 1, line.hit)
    <3>1. "keyword" # Blank
      BY Zenon DEF Blank
    <3>2. CASE line.hit
      BY <3>2, <1>4 DEF Filter, KeepIf
    <3>3. CASE ~line.hit
      BY <3>1, <3>3, <1>4 DEF Filter, KeepIf
    <3> QED BY <3>2, <3>3
  <2>2. line.hit \in BOOLEAN
    BY DEF LogLine
  <2>3. HitLines' = IF line.hit THEN HitLines \cup {n + 1} ELSE HitLines
    BY <1>1, <1>2, <1>4, WantedGrow
  <2> QED BY <2>1, <2>2, <2>3, <1>2, KeepRound
<1>9. ASSUME NEW l \in Levels
      PROVE  Kept(perLevel'[l], n + 1, LevelLines(l)') /\ Len(perLevel'[l]) = count'[l]
  <2>0. PICK keep \in BOOLEAN : keep = (level = l)
    OBVIOUS
  <2>1. perLevel'[l] = KeepIf(perLevel[l], n + 1, keep)
    BY <2>0, <1>4, <1>6 DEF FilterByLevels, KeepIf
  <2>2. LevelLines(l)' = IF keep THEN LevelLines(l) \cup {n + 1} ELSE LevelLines(l)
    BY <2>0, <1>1, <1>2, <1>4, <1>6, WantedGrow
  <2>3. /\ Kept(perLevel'[l], n + 1, LevelLines(l)')
        /\ Len(perLevel'[l]) = Len(perLevel[l]) + IF keep THEN 1 ELSE 0
    <3>1. Kept(perLevel[l], n, LevelLines(l))
      BY <1>3
    <3>2. /\ Kept(KeepIf(perLevel[l], n + 1, keep), n + 1, LevelLines(l)')
          /\ Len(KeepIf(perLevel[l], n + 1, keep)) = Len(perLevel[l]) + IF keep THEN 1 ELSE 0
      BY <3>1, <2>2, KeepRound
    <3> QED BY <3>2, <2>1
  <2>4. count'[l] = count[l] + IF level = l THEN 1 ELSE 0
    BY <1>2, <1>4, <1>6 DEF Stats, StatsAdded
  <2> QED BY <2>0, <2>3, <2>4, <1>3
<1>10. StatsAdded'
  <2>1. count' = [count EXCEPT ![level] = @ + 1]
    BY <1>4, <1>6 DEF Stats
  <2>2. count' \in [Levels -> Nat]
    BY <2>1, <1>2, <1>6, SMTT(30) DEF StatsAdded
  <2>3. \A l \in Levels : count[l] \in Nat /\ count'[l] = count[l] + IF level = l THEN 1 ELSE 0
    BY <2>1, <1>2, <1>6, SMTT(30) DEF StatsAdded
  <2>4. Len(logLines') = count'["INFO"] + count'["WARN"] + count'["ERROR"] + count'["DEBUG"]
                         + count'["FATAL"] + count'["TRACE"]
    <3>1. /\ count["INFO"] \in Nat /\ count["WARN"] \in Nat /\ count["ERROR"] \in Nat
          /\ count["DEBUG"] \in Nat /\ count["FATAL"] \in Nat /\ count["TRACE"] \in Nat
      BY <2>3 DEF Levels
    <3>2. n = count["INFO"] + count["WARN"] + count["ERROR"] + count["DEBUG"]
              + count["FATAL"] + count["TRACE"]
      BY <1>1, <1>2 DEF StatsAdded
    <3>3. /\ count'["INFO"] = count["INFO"] + IF level = "INFO" THEN 1 ELSE 0
          /\ count'["WARN"] = count["WARN"] + IF level = "WARN" THEN 1 ELSE 0
          /\ count'["ERROR"] = count["ERROR"] + IF level = "ERROR" THEN 1 ELSE 0
          /\ count'["DEBUG"] = count["DEBUG"] + IF level = "DEBUG" THEN 1 ELSE 0
          /\ count'["FATAL"] = count["FATAL"] + IF level = "FATAL" THEN 1 ELSE 0
          /\ count'["TRACE"] = count["TRACE"] + IF level = "TRACE" THEN 1 ELSE 0
      BY <2>3 DEF Levels
    <3>4. n + 1 = count'["INFO"] + count'["WARN"] + count'["ERROR"] + count'["DEBUG"]
                  + count'["FATAL"] + count'["TRACE"]
      BY <3>1, <3>2, <3>3, <1>6 DEF Levels
    <3> QED BY <3>4, <1>5
  <2> QED BY <2>2, <2>4 DEF StatsAdded
<1>11. ASSUME NEW from \in Seconds, NEW to \in Seconds
       PROVE  Kept(inTime'[<<from, to>>], n + 1, RangeLines(from, to)')
  <2>1. PICK keep \in BOOLEAN : keep = (line.ts \in Seconds /\ InRange(line.ts, from, to))
    OBVIOUS
  <2>2. (ParseLine(line).ok /\ line.ts < Day) <=> line.ts \in Seconds
    <3>1. line.ts \in -1 .. Day /\ Day \in Nat
      BY LogAssumption DEF LogLine
    <3>2. ParseLine(line).ok <=> line.ts # -1
      BY DEF ParseLine
    <3> QED BY <3>1, <3>2 DEF Seconds
  <2>3. inTime'[<<from, to>>] = FilterTimeRange(inTime[<<from, to>>], from, to, line, n + 1)
    BY <1>4
  <2>4. inTime'[<<from, to>>] = KeepIf(inTime[<<from, to>>], n + 1, keep)
    BY <2>1, <2>2, <2>3 DEF FilterTimeRange, KeepIf
  <2>5. RangeLines(from, to)' = IF keep THEN RangeLines(from, to) \cup {n + 1}
                                ELSE RangeLines(from, to)
    BY <2>1, <1>1, <1>2, <1>4, WantedGrow
  <2> QED BY <2>4, <2>5, <1>3, KeepRound
<1> QED BY <1>5, <1>7, <1>8, <1>9, <1>10, <1>11 DEF LogInv

\* What the results come to.
LEMMA LogResult == LogInv => FiltersAreRight
<1> SUFFICES ASSUME LogInv PROVE FiltersAreRight
  OBVIOUS
<1>0. /\ logLines \in Seq(LogLine) /\ entries = [i \in DOMAIN logLines |-> ParseLine(logLines[i])]
      /\ Selects(hits, HitLines) /\ StatsAdded
  BY DEF LogInv, Kept
<1>1. /\ \A l \in Levels : Selects(perLevel[l], LevelLines(l)) /\ Len(perLevel[l]) = count[l]
      /\ \A from, to \in Seconds : Selects(inTime[<<from, to>>], RangeLines(from, to))
  BY DEF LogInv, Kept
<1>2. PICK n \in Nat : n = Len(logLines)
  BY <1>0
<1>3. DOMAIN logLines = 1 .. n /\ DOMAIN entries = 1 .. n /\ Len(entries) = n
  BY <1>0, <1>2
<1>4. ToText(entries) = logLines
  <2>1. ToText(entries) = [i \in 1 .. n |-> logLines[i]]
    BY <1>0, <1>3 DEF ToText, ParseLine
  <2>2. logLines = [i \in 1 .. n |-> logLines[i]]
    BY <1>0, <1>2
  <2> QED BY <2>1, <2>2
<1>5. ASSUME NEW l \in Levels
      PROVE  /\ Selects(perLevel[l], {i \in DOMAIN entries : entries[i].level = l})
             /\ Len(perLevel[l]) = count[l]
  <2>1. {i \in DOMAIN entries : entries[i].level = l} = LevelLines(l)
    BY <1>0, <1>3 DEF LevelLines
  <2> QED BY <2>1, <1>1
<1>6. ASSUME NEW from \in Seconds, NEW to \in Seconds
      PROVE  Selects(inTime[<<from, to>>],
               {i \in DOMAIN logLines : /\ logLines[i].ts \in Seconds
                                        /\ (logLines[i].ts - from) % Day <= (to - from) % Day})
  <2>1. {i \in DOMAIN logLines : /\ logLines[i].ts \in Seconds
                                 /\ (logLines[i].ts - from) % Day <= (to - from) % Day}
          = RangeLines(from, to)
    BY ClockRange, Zenon DEF RangeLines
  <2> QED BY <2>1, <1>1
<1>7. ASSUME NEW max \in -1 .. MaxLines + 1, NEW some, some = LimitLines(logLines, max)
      PROVE  /\ some = SubSeq(logLines, 1, Len(some))
             /\ max > 0 => Len(some) <= max
             /\ Len(some) < Len(logLines) => Len(some) = max
  <2>0. max \in Int
    BY LogAssumption
  <2>1. CASE max <= 0 \/ n <= max
    <3>1. some = logLines
      BY <2>1, <1>2, <1>7 DEF LimitLines
    <3>2. logLines = SubSeq(logLines, 1, n)
      BY <1>0, <1>2
    <3>3. Len(some) = n
      BY <3>1, <1>2
    <3>4. some = SubSeq(logLines, 1, Len(some))
      BY <3>1, <3>2, <3>3, Zenon
    <3>5. (max > 0 => n <= max) /\ ~(n < n)
      BY <2>0, <2>1
    <3> QED BY <3>3, <3>4, <3>5, <1>2, Zenon
  <2>2. CASE max > 0 /\ n > max
    <3>1. some = SubSeq(logLines, 1, max)
      BY <2>0, <2>2, <1>2, <1>7 DEF LimitLines
    <3>2. Len(SubSeq(logLines, 1, max)) = max
      BY <2>0, <2>2, <1>0, <1>2
    <3> QED BY <3>1, <3>2, <2>0
  <2> QED BY <2>0, <2>1, <2>2
<1>8. Len(entries) = count["INFO"] + count["WARN"] + count["ERROR"] + count["DEBUG"]
                     + count["FATAL"] + count["TRACE"]
  BY <1>0, <1>2, <1>3 DEF StatsAdded
<1> QED BY <1>0, <1>4, <1>5, <1>6, <1>7, <1>8 DEF FiltersAreRight, HitLines

(* For any log and any length of the day: every filter keeps exactly the lines it is    *)
(* for, in their order, Stats counts what FilterByLevel keeps, a time range is the way  *)
(* of the clock also over midnight, and nothing is lost between lines and text.         *)
THEOREM LogIsFilteredRight == LogSpec => []FiltersAreRight
<1>1. LogInit => LogInv
  <2> SUFFICES ASSUME LogInit PROVE LogInv
    OBVIOUS
  <2>1. logLines = <<>> /\ entries = <<>> /\ hits = <<>>
    BY DEF LogInit
  <2>2. logLines \in Seq(LogLine) /\ Len(logLines) = 0 /\ DOMAIN logLines = {}
    BY <2>1
  <2>3. Kept(<<>>, 0, {})
    BY DEF Kept, Selects, Range
  <2>4. HitLines = {} /\ (\A l : LevelLines(l) = {}) /\ \A from, to : RangeLines(from, to) = {}
    BY <2>2 DEF HitLines, LevelLines, RangeLines
  <2>5. \A l \in Levels : perLevel[l] = <<>> /\ Len(perLevel[l]) = count[l] /\ count[l] = 0
    BY DEF LogInit
  <2>6. \A from, to \in Seconds : inTime[<<from, to>>] = <<>>
    BY DEF LogInit
  <2>7. StatsAdded
    BY <2>2, <2>5 DEF StatsAdded, LogInit, Levels
  <2>8. entries = [i \in DOMAIN logLines |-> ParseLine(logLines[i])]
    BY <2>1, <2>2
  <2> QED BY <2>1, <2>2, <2>3, <2>4, <2>5, <2>6, <2>7, <2>8 DEF LogInv
<1>2. LogInv /\ [LogNext]_logVars => LogInv'
  <2> SUFFICES ASSUME LogInv, [LogNext]_logVars PROVE LogInv'
    OBVIOUS
  <2>1. CASE UNCHANGED logVars
    BY <2>1 DEF logVars, LogInv, StatsAdded, HitLines, LevelLines, RangeLines
  <2>2. CASE LogNext
    BY <2>2, LogStep DEF LogNext
  <2> QED BY <2>1, <2>2
<1> QED BY <1>1, <1>2, LogResult, PTL DEF LogSpec
==============================================================================
