----------------------------- MODULE Regression -----------------------------
(***************************************************************************)
(* The benchmark regression tracker (bench/regression.py): a JSON-lines    *)
(* history, a baseline that is the median of the last Window runs, and a   *)
(* verdict on each new run.  `bench --track` checks and then records.      *)
(*                                                                         *)
(* A line of the file is one record, or Torn: what a crash has left of a   *)
(* record, and whatever is written behind it on the same line.             *)
(***************************************************************************)
EXTENDS Integers, Sequences, FiniteSets, SequencesExt

CONSTANTS
  Names,         \* benchmark names
  Metrics,       \* per metric "lower_is_better" or "higher_is_better"
  Samples,       \* the values a metric may take
  Typical,       \* those of them that are within the tolerance of each other
  Window, TolerancePct, Keep,
  MaxLines       \* bound on the history

ASSUME RegressionAssumption ==
  /\ Samples \subseteq Nat /\ Typical \subseteq Samples \ {0}
  /\ "" \notin Names  \* no record is Torn
  /\ Window \in Nat \ {0} /\ TolerancePct \in Nat /\ Keep \in Nat \ {0} /\ MaxLines \in Nat
  /\ \A a, b \in Typical : 100 * a <= (100 + TolerancePct) * b
                           /\ 100 * a >= (100 - TolerancePct) * b

VARIABLES
  lines,     \* the history file
  ended,     \* the last line ends with a newline
  passed,    \* ok of the latest verdict: the exit code of the command
  safe       \* the records written whole on a line of their own

trackVars == <<lines, ended, passed, safe>>

Torn == [name |-> "", values |-> <<>>]

TrackInit ==
  /\ lines = <<>> /\ ended = TRUE /\ passed = TRUE /\ safe = <<>>

\* The elements of q at the positions in I, in their order (SelectSeq, without recursion).
Picked(q, I) ==
  [k \in 1..Cardinality(I) |-> q[CHOOSE i \in I : Cardinality({j \in I : j <= i}) = k]]

\* load(): lines that do not parse are skipped.
Load_UpToTorn ==   \* mutant: reading stops at the first line that does not parse
  LET bad == {i \in DOMAIN lines : lines[i] = Torn} IN
  IF bad = {} THEN lines ELSE SubSeq(lines, 1, (CHOOSE i \in bad : \A j \in bad : i <= j) - 1)
Load == Picked(lines, {i \in DOMAIN lines : lines[i] # Torn})

History(name) == LET all == Load IN Picked(all, {i \in DOMAIN all : all[i].name = name})

Recent_Oldest(name) ==   \* mutant: the first Window runs
  LET h == History(name) IN SubSeq(h, 1, IF Len(h) > Window THEN Window ELSE Len(h))
Recent(name) ==
  LET h == History(name) IN SubSeq(h, IF Len(h) > Window THEN Len(h) - Window + 1 ELSE 1, Len(h))

\* The k-th smallest of the m-values of some records, and twice their median.
Smallest(records, m, k) ==
  CHOOSE x \in {records[i].values[m] : i \in DOMAIN records} :
    /\ Cardinality({i \in DOMAIN records : records[i].values[m] < x}) < k
    /\ Cardinality({i \in DOMAIN records : records[i].values[m] <= x}) >= k
TwiceMedian(records, m) ==
  Smallest(records, m, (Len(records) + 1) \div 2) + Smallest(records, m, Len(records) \div 2 + 1)

\* delta_pct beyond the tolerance in the bad direction; a baseline of 0 is
\* skipped.
Regressed(records, values, m) ==
  LET base == TwiceMedian(records, m)
      delta == 100 * (2 * values[m] - base)
  IN base # 0 /\ IF Metrics[m] = "higher_is_better" THEN delta < - TolerancePct * base
                 ELSE delta > TolerancePct * base

\* check(): without a baseline the verdict is positive.
Check(name, values) ==
  LET r == Recent(name) IN
  r = <<>> \/ \A m \in DOMAIN Metrics : ~Regressed(r, values, m)

\* A write goes to the last line as long as that has not ended.
Written(r) == IF ended THEN Append(lines, r) ELSE Append(Front(lines), Torn)

\* check_and_record(): the run is recorded whatever its verdict.
CheckAndRecord(name, values) ==
  /\ Len(lines) < MaxLines
  /\ passed' = Check(name, values)
  /\ LET r == [name |-> name, values |-> values] IN
     lines' = Written(r) /\ safe' = IF ended THEN Append(safe, r) ELSE safe
  /\ ended' = TRUE

Records == [name : Names, values : [DOMAIN Metrics -> Samples]]

\* The process dies while the record is written: within it, or before its newline.
CrashInRecord ==
  /\ Len(lines) < MaxLines
  /\ \E r \in {Torn} \cup Records : lines' = Written(r)
  /\ ended' = FALSE
  /\ UNCHANGED <<passed, safe>>

\* A record whose newline a crash has kept back: it is loaded as long as
\* nothing is written behind it.
Open == IF ~ended /\ lines # <<>> /\ Last(lines) # Torn THEN <<Last(lines)>> ELSE <<>>
Whole == safe \o Open

\* The last Keep elements, those that prune() keeps.
LastKeep(q) == SubSeq(q, Len(q) - Keep + 1, Len(q))

\* prune() rewrites the file with the last Keep records.
Prune ==
  /\ Len(Load) > Keep
  /\ lines' = LastKeep(Load) /\ safe' = LastKeep(Whole)
  /\ ended' = TRUE
  /\ UNCHANGED passed

\* write_text() has emptied the file, and the process dies when n records are
\* back: at the end of a line, or within the next record or before its newline.
CrashInPrune ==
  /\ Len(Load) > Keep
  /\ \E n \in 0..Keep - 1 :
       LET back == SubSeq(LastKeep(Load), 1, n) IN
       /\ safe' = SubSeq(LastKeep(Whole), 1, n)
       /\ \/ lines' = back /\ ended' = TRUE
          \/ lines' = Append(back, Torn) /\ ended' = FALSE
          \/ lines' = Append(back, LastKeep(Load)[n + 1]) /\ ended' = FALSE
  /\ UNCHANGED passed

TrackNext ==
  \/ \E name \in Names, values \in [DOMAIN Metrics -> Samples] : CheckAndRecord(name, values)
  \/ CrashInRecord \/ Prune \/ CrashInPrune

TrackSpec == TrackInit /\ [][TrackNext]_trackVars

-----------------------------------------------------------------------------
LastRuns(name) == {i \in DOMAIN Load : Load[i].name = name /\
  Cardinality({j \in i + 1 .. Len(Load) : Load[j].name = name}) < Window}
RunsInWindow(name) == Cardinality(LastRuns(name))
TypicalCount(name, m) == Cardinality({i \in LastRuns(name) : Load[i].values[m] \in Typical})

WorseThanTypical(x, m) ==
  \A t \in Typical :
    IF Metrics[m] = "higher_is_better" THEN 100 * x < (100 - TolerancePct) * t
    ELSE 100 * x > (100 + TolerancePct) * t

\* "a single slower run on a laptop means nothing": as long as more than half
\* of the runs in the window are typical, outliers among them neither make a
\* typical run fail nor let a run pass that is worse than every typical one
\* by more than the tolerance, whatever was torn or pruned before.
OutliersMeanNothing ==
  \A name \in Names :
    LastRuns(name) # {}
      /\ (\A m \in DOMAIN Metrics : 2 * TypicalCount(name, m) > RunsInWindow(name)) =>
    \A v \in [DOMAIN Metrics -> Samples] :
      /\ (\A m \in DOMAIN Metrics : v[m] \in Typical) => Check(name, v)
      /\ (\E m \in DOMAIN Metrics : WorseThanTypical(v[m], m)) => ~Check(name, v)

\* A crash while a record is appended costs that record and the one written
\* behind it on its line; one while prune() rewrites the file costs what is not
\* back yet.  Every other record whose record() returned is loaded, in order, up
\* to the last prune(), and so is one that lacks only its newline, for now.
OneLostPerCrash == Load = Whole
=============================================================================
