------------------------------ MODULE LogParser ------------------------------
(***************************************************************************)
(* pkg/logparser.  Each of its functions is a loop over the lines of a log *)
(* that appends what it keeps to a result.  The machine gives the lines to *)
(* all of the loops, one round of each at a time, so that TLC sees every   *)
(* log up to a length, and the theorem about it any log.                   *)
(*                                                                         *)
(* A line is [ts, level, hit]: the second of the day in its brackets (-1   *)
(* without one; Day for digits that are no time), the level word, and      *)
(* whether it has the keyword.  A result is the places of the lines kept.  *)
(* Wording and layout are left out.                                        *)
(***************************************************************************)
EXTENDS Integers, Sequences, Functions

CONSTANTS Day,          \* BOUND: seconds of a day: 86400 in the code
          LevelWords,   \* BOUND: the level words that occur in a log
          MaxLines      \* BOUND: lines of a log

\* The level of a line without one, and the keyword of a filter without one.
Blank == ""

\* What a line is filed under.
Levels == {"INFO", "WARN", "ERROR", "DEBUG", "FATAL", "TRACE"}

ASSUME LogAssumption == /\ Day \in Nat \ {0}
                        /\ LevelWords \subseteq Levels \cup {Blank, "WARNING"}
                        /\ MaxLines \in Nat

VARIABLES logLines,     \* the lines the loops have come to
          entries,      \* ParseLines
          hits,         \* Filter, with a keyword, and FilterRegex
          inTime,       \* FilterTimeRange, for every range
          perLevel,     \* FilterByLevel, for every level
          count         \* Stats

logVars == <<logLines, entries, hits, inTime, perLevel, count>>

Seconds == 0 .. Day - 1
LogLine == [ts : -1 .. Day, level : LevelWords, hit : BOOLEAN]

\* A line without a level is INFO and WARNING is WARN; one without a time is an error,
\* but still an entry.
ParseLine(line) ==
  [timestamp |-> line.ts,
   level |-> IF line.level = Blank THEN "INFO" ELSE IF line.level = "WARNING" THEN "WARN" ELSE line.level,
   raw |-> line, ok |-> line.ts # -1]

\* filtered = append(filtered, line).
KeepIf(kept, n, keep) == IF keep THEN Append(kept, n) ELSE kept

\* One round of Filter and of FilterRegex for line n; without a keyword all is kept, and a
\* pattern that does not compile is a panic before the first line.
Filter(kept, keyword, line, n) == KeepIf(kept, n, keyword = Blank \/ line.hit)

InRangeSameDay(t, start, end) == t >= start /\ t <= end

\* A range whose start is after its end goes over midnight.
InRange(t, start, end) ==
  IF start > end THEN t >= start \/ t <= end ELSE t >= start /\ t <= end

\* Lines without a time, and with digits that are no time, are dropped.
FilterTimeRange(kept, start, end, line, n) ==
  KeepIf(kept, n, ParseLine(line).ok /\ line.ts < Day /\ InRange(line.ts, start, end))

\* FilterByLevel is the case of one level.
FilterByLevels(kept, levels, line, n) == KeepIf(kept, n, ParseLine(line).level \in levels)

\* stats[entry.Level]++.
Stats(stats, line) == [stats EXCEPT ![ParseLine(line).level] = @ + 1]

\* lines[:max], unless there is no limit or it is not reached.
LimitLines(lines, max) ==
  IF max <= 0 \/ Len(lines) <= max THEN lines ELSE SubSeq(lines, 1, max)

ToText(parsed) == [i \in DOMAIN parsed |-> parsed[i].raw]

LogInit == /\ logLines = <<>>
           /\ entries = <<>>
           /\ hits = <<>>
           /\ inTime = [r \in Seconds \X Seconds |-> <<>>]
           /\ perLevel = [l \in Levels |-> <<>>]
           /\ count = [l \in Levels |-> 0]

\* Every loop comes to the next line.
NextLine(line) ==
  LET n == Len(logLines) + 1
  IN  /\ n <= MaxLines
      /\ logLines' = Append(logLines, line)
      /\ entries' = Append(entries, ParseLine(line))
      /\ hits' = Filter(hits, "keyword", line, n)
      /\ inTime' = [r \in Seconds \X Seconds |->
                      FilterTimeRange(inTime[r], r[1], r[2], line, n)]
      /\ perLevel' = [l \in Levels |-> FilterByLevels(perLevel[l], {l}, line, n)]
      /\ count' = Stats(count, line)

LogNext == \E line \in LogLine : NextLine(line)

LogSpec == LogInit /\ [][LogNext]_logVars

------------------------------------------------------------------------------
\* kept is the places of S, each once, in the order of the log.
Selects(kept, S) == /\ Range(kept) = S
                    /\ \A k \in DOMAIN kept : \A j \in 1 .. k - 1 : kept[j] < kept[k]

(* What the filters keep and what they do not is never a matter of chance: every *)
(* line, with a time or without, has an entry; the levels divide the entries     *)
(* among them, as Stats counts them; the text of the entries is the log again; a *)
(* limit leaves the beginning.  A time range is the way of the clock from its    *)
(* start forward to its end, also over midnight and when both are the same       *)
(* second, and exactly the lines with such a time are kept, in their order       *)
(* (logparser.go:34-85, 119-166, 178-223).                                       *)
FiltersAreRight ==
  /\ ToText(entries) = logLines
  /\ Selects(hits, {n \in DOMAIN logLines : logLines[n].hit})
  /\ \A l \in Levels : /\ Selects(perLevel[l], {n \in DOMAIN entries : entries[n].level = l})
                       /\ Len(perLevel[l]) = count[l]
  /\ Len(entries) = count["INFO"] + count["WARN"] + count["ERROR"] + count["DEBUG"]
                    + count["FATAL"] + count["TRACE"]
  /\ \A start, end \in Seconds :
       Selects(inTime[<<start, end>>],
               {n \in DOMAIN logLines : /\ logLines[n].ts \in Seconds
                                        /\ (logLines[n].ts - start) % Day <= (end - start) % Day})
  /\ \A max \in -1 .. MaxLines + 1 :
       LET some == LimitLines(logLines, max)
       IN  /\ some = SubSeq(logLines, 1, Len(some))
           /\ max > 0 => Len(some) <= max
           /\ Len(some) < Len(logLines) => Len(some) = max
==============================================================================
