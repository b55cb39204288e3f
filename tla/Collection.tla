------------------------------ MODULE Collection ------------------------------
(***************************************************************************)
(* What the coordinator makes of a worker's results file: collect() and    *)
(* the verdict of the printed summary (coordinator/src/run.rs, report.rs). *)
(*                                                                         *)
(* A file is a sequence of lines.  A line is what reading it as JSON       *)
(* finds: a header, a result, an object without a case, or text that does  *)
(* not parse (torn).  It is whole when it is UTF-8: no character in it has *)
(* been cut.                                                               *)
(***************************************************************************)
EXTENDS FiniteSets, Integers, Sequences

CONSTANT Cases     \* the paths a worker may name, assigned or not

NoCase == "none"

ASSUME CasesAssumption == NoCase \notin Cases

Statuses == {"accepted", "rejected", "error"}

Line ==
  [kind : {"result"}, case : Cases, status : Statuses \cup {"unknown"}, whole : BOOLEAN]
  \cup [kind : {"header", "nocase", "torn"}, case : {NoCase}, status : {"unknown"},
        whole : BOOLEAN]

Header == [kind |-> "header", case |-> NoCase, status |-> "unknown", whole |-> TRUE]
Result(c, s, whole) == [kind |-> "result", case |-> c, status |-> s, whole |-> whole]
Torn(whole) == [kind |-> "torn", case |-> NoCase, status |-> "unknown", whole |-> whole]

File == [there : BOOLEAN, lines : Seq(Line)]
NoFile == [there |-> FALSE, lines |-> <<>>]
Written(lines) == [there |-> TRUE, lines |-> lines]

\* exit1 stands for every exit code but zero.
Terminations == {"exit0", "exit1", "signal", "timedOut", "spawnFailed"}
IsClean(term) == term = "exit0"
IsAbnormal(term) == term \in {"signal", "timedOut"}

-----------------------------------------------------------------------------
(* Reading the file *)

\* A file that is missing, or is not UTF-8 from end to end, reads as no text.
Readable(f) == f.there /\ \A i \in DOMAIN f.lines : f.lines[i].whole
Text(f) == IF Readable(f) THEN f.lines ELSE <<>>

\* The header counts in the first line only; elsewhere it is an object without
\* a case.
HasHeader(t) == t # <<>> /\ t[1].kind = "header"
ResultsIn(t) == {i \in DOMAIN t : t[i].kind = "result"}
Reported(t) == {t[i].case : i \in ResultsIn(t)}
CountOf(t, s) == Cardinality({i \in ResultsIn(t) : t[i].status = s})

\* Positions, in the list of assigned cases, of those without a result.
Holes(list, t) == {i \in DOMAIN list : list[i] \notin Reported(t)}

\* The last of them.
LastHole(list, holes) ==
  IF holes = {} THEN NoCase
  ELSE list[CHOOSE i \in holes : \A j \in holes : j <= i]

\* The first of them, however the worker ended.
Suspect(list, holes) ==
  IF holes = {} THEN NoCase
  ELSE list[CHOOSE i \in holes : \A j \in holes : i <= j]

\* No torn line forgiven.
AnyTorn(t, term) == \E i \in DOMAIN t : t[i].kind = "torn"

\* A torn line is forgiven at the end of the file of a worker that was
\* destroyed.
Unparseable(t, term) ==
  \E i \in DOMAIN t : t[i].kind = "torn" /\ ~(i = Len(t) /\ IsAbnormal(term))

CaseMissing(t) ==
  \E i \in DOMAIN t : t[i].kind = "nocase" \/ (t[i].kind = "header" /\ i # 1)

\* Only neighbouring lines compared.
TwiceInARow(t) == \E i, j \in ResultsIn(t) : i + 1 = j /\ t[i].case = t[j].case

ReportedTwice(t) == \E i, j \in ResultsIn(t) : i # j /\ t[i].case = t[j].case

ProtocolErrors ==
  {"unparseable", "no case", "no status", "twice", "no header", "not assigned",
   "exited cleanly"}

Broken(error, list, t, term) ==
  \/ error = "unparseable" /\ Unparseable(t, term)
  \/ error = "no case" /\ CaseMissing(t)
  \/ error = "no status" /\ \E i \in ResultsIn(t) : t[i].status = "unknown"
  \/ error = "twice" /\ ReportedTwice(t)
  \/ error = "no header" /\ t # <<>> /\ ~HasHeader(t)
  \/ error = "not assigned" /\ \E c \in Reported(t) : \A i \in DOMAIN list : list[i] # c
  \/ error = "exited cleanly" /\ IsClean(term) /\ Holes(list, t) # {}

Report == [term : Terminations, header : BOOLEAN, reported : SUBSET Cases,
           count : [Statuses -> Nat], notRun : SUBSET Nat,
           suspect : Cases \cup {NoCase}, errors : SUBSET ProtocolErrors]

Collect(list, f, term) ==
  LET t == Text(f)
  IN  [term |-> term,
       header |-> HasHeader(t),
       reported |-> Reported(t),
       count |-> [s \in Statuses |-> CountOf(t, s)],
       notRun |-> Holes(list, t),
       suspect |-> Suspect(list, Holes(list, t)),
       errors |-> {e \in ProtocolErrors : Broken(e, list, t, term)}]

Verdict(r) ==
  IF IsAbnormal(r.term) THEN "CRSH"
  ELSE IF r.errors # {} THEN "PROT"
  ELSE IF IsClean(r.term) THEN "ok" ELSE "--"
=============================================================================
