---------------------------- MODULE WorkerProcess -----------------------------
(***************************************************************************)
(* A worker process as the coordinator knows it: what it writes to its     *)
(* results file and how it ends.  The shipped workers (main() of the       *)
(* adapters over adapters/common/worker.c, and abi_worker.py) read the     *)
(* list, open the file, write a header and one line per case.  They may    *)
(* die anywhere, because a consumer runs inside them.  An alien worker     *)
(* writes what it likes.                                                   *)
(***************************************************************************)
EXTENDS Collection

CONSTANTS
  AlienLines,   \* what an alien worker may write
  MaxLines      \* bound: lines an alien worker writes

ASSUME LinesAssumption == AlienLines \subseteq Line /\ MaxLines \in Nat

VARIABLES
  assigned,     \* the list of cases, one path per line of cases.txt
  cuts,         \* whether the text of a result may have a character cut
  job,          \* the worker's name, and whether it is alien
  pc,           \* where the process is
  next,         \* position of the case it is on
  line,         \* the result being written
  files,        \* the results file of each name
  fate,         \* how the process ended
  opened,       \* history: it opened its results file
  wrote         \* history: the lines it completed

procVars == <<job, pc, next, line, files, fate, opened, wrote>>

NotEnded == "running"
Alive == pc \notin {"none", "ended"}
Lines == files[job.name].lines
Put(lines) == files' = [files EXCEPT ![job.name] = Written(lines)]

Exit(how) ==
  /\ pc' = "ended" /\ fate' = how
  /\ UNCHANGED <<job, next, line, files, opened, wrote>>

Goto(where) ==
  pc' = where /\ UNCHANGED <<job, next, line, files, fate, opened, wrote>>

-----------------------------------------------------------------------------

\* Arguments, the consumer's library and the case list; a list with a line too
\* long to hold is refused whole.
ReadCases == pc = "reading" /\ (Exit("exit1") \/ Goto("opening"))

\* The results file opened to be added to.
OpenToAppend ==
  /\ pc = "opening"
  /\ \/ Exit("exit1")
     \/ /\ Put(Lines) /\ opened' = TRUE
        /\ pc' = "header"
        /\ UNCHANGED <<job, next, line, fate, wrote>>

\* The results file is truncated, whatever it held.
Open ==
  /\ pc = "opening"
  /\ \/ Exit("exit1")
     \/ /\ Put(<<>>) /\ opened' = TRUE
        /\ pc' = "header"
        /\ UNCHANGED <<job, next, line, fate, wrote>>

WriteHeader ==
  /\ pc = "header" /\ ~job.alien
  /\ Put(Append(Lines, Header)) /\ wrote' = Append(wrote, Header)
  /\ pc' = "case"
  /\ UNCHANGED <<job, next, line, fate, opened>>

OnCase == pc = "case" /\ ~job.alien /\ next <= Len(assigned)

\* The case is run and its result formatted.  What a consumer says goes into a
\* buffer of fixed size, which may cut its last character.
RunCase ==
  /\ OnCase
  /\ \E s \in Statuses, whole \in {TRUE, ~cuts} :
       line' = Result(assigned[next], s, whole)
  /\ pc' = "writing"
  /\ UNCHANGED <<job, next, files, fate, opened, wrote>>

\* A line longer than the stream's buffer reaches the file in pieces.
Spill ==
  /\ pc = "writing"
  /\ \E whole \in {TRUE, ~cuts} : Put(Append(Lines, Torn(whole)))
  /\ pc' = "spilled"
  /\ UNCHANGED <<job, next, line, fate, opened, wrote>>

\* The line left in the stream's buffer.
NotFlushed ==
  /\ pc \in {"writing", "spilled"}
  /\ wrote' = Append(wrote, line)
  /\ next' = next + 1
  /\ pc' = "case"
  /\ UNCHANGED <<job, line, files, fate, opened>>

Spilled == pc = "spilled"

\* The line is complete in the file before the next case begins.
Flush ==
  /\ pc \in {"writing", "spilled"}
  /\ Put(Append(IF Spilled THEN SubSeq(Lines, 1, Len(Lines) - 1) ELSE Lines, line))
  /\ wrote' = Append(wrote, line)
  /\ next' = next + 1
  /\ pc' = "case"
  /\ UNCHANGED <<job, line, fate, opened>>

Return == pc = "case" /\ ~job.alien /\ next > Len(assigned) /\ Exit("exit0")

\* A consumer calls exit() in the middle of a case.
Quit ==
  /\ OnCase \/ (job.alien /\ pc = "case")
  /\ \E how \in {"exit0", "exit1"} : Exit(how)

\* A consumer kills its process: in its case, or later by what it left behind.
Die == Alive /\ Exit("signal")

\* Bounded by MaxLines.
Babble ==
  /\ job.alien /\ pc \in {"header", "case"} /\ Len(wrote) < MaxLines
  /\ \E l \in AlienLines :
       (l.whole \/ cuts) /\ Put(Append(Lines, l)) /\ wrote' = Append(wrote, l)
  /\ pc' = "case"
  /\ UNCHANGED <<job, next, line, fate, opened>>

Work ==
  \/ ReadCases \/ Open \/ WriteHeader \/ RunCase \/ Spill \/ Flush \/ Return
  \/ Quit \/ Die \/ Babble
=============================================================================
