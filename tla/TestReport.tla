----------------------------- MODULE TestReport -----------------------------
(***************************************************************************)
(* cmd/report-generator: the output of up to MaxLogs runs of go test -v is *)
(* read line by line into one suite each, and the suites are added up.     *)
(*                                                                         *)
(* A line is <<"run", t>>, <<verdict, t>>, <<"end", v>> for the result of  *)
(* a package, or <<"other", 0>>, which means nothing to the parser (the    *)
(* results of subtests are such lines: they are indented); <<"eof", 0>> is *)
(* the end of a log.  go test writes tests one after another, each perhaps *)
(* with subtests (number -1) and with output in between, and may be cut    *)
(* off anywhere.                                                           *)
(***************************************************************************)
EXTENDS Integers, Sequences, FiniteSets

CONSTANTS MaxLogs,      \* logs that are looked for: 3
          MaxLogLines   \* BOUND: lines of all the logs

ASSUME ReportAssumption == MaxLogs \in Nat /\ MaxLogLines \in Nat

VARIABLES testLog,      \* the lines read so far, of all logs
          suite,        \* the suite of the log that is being read
          report        \* the report: its suites and its summary

reportVars == <<testLog, suite, report>>

Verdicts == {"PASS", "FAIL", "SKIP"}

\* A suite whose log has no line for it.
NoStatus == ""

NewSuite == [cases |-> <<>>, total |-> 0, count |-> [v \in Verdicts |-> 0],
             status |-> NoStatus, panic |-> FALSE]

NewReport == [suites |-> <<>>, total |-> 0, count |-> [v \in Verdicts |-> 0]]

ReportInit == /\ testLog = <<>>
              /\ suite = NewSuite
              /\ report = NewReport

ParseLogLineFirst(s, line) ==
  CASE line[1] = "run" ->
         [s EXCEPT !.cases = Append(@, [name |-> line[2], status |-> "RUNNING"]), !.total = @ + 1]
    [] line[1] \in Verdicts /\ s.cases = <<>> -> [s EXCEPT !.panic = TRUE]
    [] line[1] \in Verdicts /\ s.cases # <<>> ->
         [s EXCEPT !.cases[1].status = line[1], !.count[line[1]] = @ + 1]
    [] line[1] = "end" -> [s EXCEPT !.status = line[2]]
    [] OTHER -> s

\* A verdict goes to the last case, whatever test it names; there is none: a panic.
ParseLogLine(s, line) ==
  CASE line[1] = "run" ->
         [s EXCEPT !.cases = Append(@, [name |-> line[2], status |-> "RUNNING"]), !.total = @ + 1]
    [] line[1] \in Verdicts /\ s.cases = <<>> -> [s EXCEPT !.panic = TRUE]
    [] line[1] \in Verdicts /\ s.cases # <<>> ->
         [s EXCEPT !.cases[Len(s.cases)].status = line[1], !.count[line[1]] = @ + 1]
    [] line[1] = "end" -> [s EXCEPT !.status = line[2]]
    [] OTHER -> s

\* The test that has no verdict yet, if there is one.
OpenTests == {testLog[i][2] : i \in
                {i \in DOMAIN testLog :
                   /\ testLog[i][1] = "run" /\ testLog[i][2] >= 0
                   /\ \A j \in i .. Len(testLog) : testLog[j][1] \in {"run", "other"}}}

\* What go test may write next.  Tests have different numbers.
TestLines ==
  {<<"other", 0>>} \cup
  IF OpenTests # {} THEN (Verdicts \X OpenTests) \cup {<<"run", -1>>}
  ELSE {<<"run", Len(testLog)>>, <<"end", "PASS">>, <<"end", "FAIL">>}

\* A round of ParseTestLog.
ParseTestLog(line) == /\ Len(testLog) < MaxLogLines
                      /\ Len(report.suites) < MaxLogs
                      /\ ~suite.panic
                      /\ testLog' = Append(testLog, line)
                      /\ suite' = ParseLogLine(suite, line)
                      /\ UNCHANGED report

\* The end of a round of GenerateReport: a log that is there is added to the report.
AddSuite == /\ Len(testLog) < MaxLogLines
            /\ Len(report.suites) < MaxLogs
            /\ ~suite.panic
            /\ testLog' = Append(testLog, <<"eof", 0>>)
            /\ report' = [suites |-> Append(report.suites, suite),
                          total |-> report.total + suite.total,
                          count |-> [v \in Verdicts |-> report.count[v] + suite.count[v]]]
            /\ suite' = NewSuite

ReportNext == AddSuite \/ \E line \in TestLines : ParseTestLog(line)

ReportSpec == ReportInit /\ [][ReportNext]_reportVars

\* The status of the report.  The status of a suite is not asked for.
Summary == IF report.count["FAIL"] = 0
           THEN IF report.count["PASS"] > 0 THEN "passed" ELSE "no_tests"
           ELSE IF report.count["PASS"] > report.count["FAIL"] THEN "partial" ELSE "failed"

------------------------------------------------------------------------------
LinesOf(word) == {i \in DOMAIN testLog : testLog[i][1] = word}

\* The log that was being read is in the report.
AllAdded == testLog # <<>> /\ testLog[Len(testLog)][1] = "eof"

\* The cases of the suites, also of the one that is being read.
CasesOf(s) == {s.cases[k] : k \in DOMAIN s.cases}
Cases == CasesOf(suite) \cup UNION {CasesOf(report.suites[n]) : n \in DOMAIN report.suites}

\* Between the lines i and j there is only output of a test.
OnlyOutput(i, j) == i < j /\ \A k \in i + 1 .. j - 1 : testLog[k][1] = "other"

(* Reading the output of go test -v never indexes an empty list; every line that *)
(* starts a test and every verdict is counted once, over all logs; every test    *)
(* between whose start and verdict nothing but its output is written has its own *)
(* verdict and keeps it, whatever is read after it; no test is given the verdict *)
(* of another one, although a verdict goes to the last case without a look at    *)
(* the name (that of a test with subtests goes to the last of them, so that the  *)
(* test itself has none); and a report says passed only if no verdict of any log *)
(* is FAIL (report-generator/main.go:106-140, 181-218).                          *)
VerdictsAreRight ==
  /\ ~suite.panic
  /\ report.total + suite.total = Cardinality(LinesOf("run"))
  /\ \A v \in Verdicts : report.count[v] + suite.count[v] = Cardinality(LinesOf(v))
  /\ \A i, j \in DOMAIN testLog :
       (/\ testLog[i][1] = "run" /\ testLog[i][2] >= 0
        /\ testLog[j][1] \in Verdicts /\ OnlyOutput(i, j)) =>
          [name |-> testLog[i][2], status |-> testLog[j][1]] \in Cases
  /\ \A case \in Cases : (case.name >= 0 /\ case.status \in Verdicts) =>
       \E j \in DOMAIN testLog : testLog[j] = <<case.status, case.name>>
  /\ AllAdded /\ Summary = "passed" => LinesOf("FAIL") = {}
==============================================================================
