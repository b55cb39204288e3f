------------------------------ MODULE RunReport ------------------------------
(***************************************************************************)
(* The differential report of a run: what build() and check_expected() of  *)
(* tools/diff_report.py make of run.json and of the results files, which   *)
(* it reads again.  A cell of the model is named by the case built for it; *)
(* one with no case is inexpressible.  Of what a worker observed a result  *)
(* says nothing bad here: PyWorker judges that.                            *)
(***************************************************************************)
EXTENDS Coordinator, DiffReport

CONSTANT Corpora   \* models and the part of each that the manifest constructs

ASSUME CorporaAssumption ==
  Corpora \subseteq [cells : SUBSET Cases, constructed : SUBSET Cases]

-----------------------------------------------------------------------------
(* load_run() *)

\* json.loads() and read_text() raise, and no report is written.
Raises(f) == f.there /\ \E i \in DOMAIN f.lines : f.lines[i].kind = "torn" \/ ~f.lines[i].whole

\* No file is no rows; a first row that is a header is not a result.
RowsIn(f) ==
  IF ~f.there THEN <<>> ELSE IF HasHeader(f.lines) THEN Tail(f.lines) ELSE f.lines

FileOf(w) == files[crew[w].name]
Loaded == \A w \in DOMAIN reports : ~Raises(FileOf(w))

-----------------------------------------------------------------------------
(* build() *)

\* Rows about no case of the manifest: one of them spoils every claim.
Strangers(corpus, rows) == \E i \in DOMAIN rows : rows[i].case \notin corpus.constructed
Problems(corpus) == \E w \in DOMAIN reports : Strangers(corpus, RowsIn(FileOf(w)))

RowsOf(rows, c) == {i \in DOMAIN rows : rows[i].case = c}

\* by_id[case_id] = line: of two answers the later one counts.
Answer(rows, c) == rows[Max(RowsOf(rows, c))]

Plain(status) ==
  [status |-> status, panicked |-> FALSE, violations |-> FALSE, incomplete |-> FALSE,
   broken |-> FALSE, outstanding |-> FALSE, capsules |-> FALSE, sent |-> FALSE,
   received |-> "none"]

Crashed == <<"not-run", "crash">>

\* A slip: a case that was not reached is taken to have caused no trouble.
CellStateUnreached(corpus, w, c) ==
  LET rows == RowsIn(FileOf(w))
  IN  IF c \in corpus.constructed /\ RowsOf(rows, c) # {}
      THEN Classify(Plain(Answer(rows, c).status), FALSE, TRUE, FALSE)
      ELSE <<"agree", "none">>

\* A slip: everything that was not reached is a crash.
CellStateAllCrashed(corpus, w, c) ==
  LET rows == RowsIn(FileOf(w))
  IN  IF c \in corpus.constructed /\ RowsOf(rows, c) # {}
      THEN Classify(Plain(Answer(rows, c).status), FALSE, TRUE, FALSE)
      ELSE Crashed

\* The suspect comes before anything its worker may have said of it.
CellState(corpus, w, c) ==
  LET rows == RowsIn(FileOf(w))
  IN  IF c \notin corpus.constructed THEN <<"inexpressible", "none">>
      ELSE IF c = reports[w].suspect THEN Crashed
      ELSE IF RowsOf(rows, c) = {} THEN NotRun
      ELSE Classify(Plain(Answer(rows, c).status), FALSE, TRUE, FALSE)

Judged(state) == state[1] \in {"agree", "disagree"}

\* per_consumer: every cell in a state that is a judgement.
Claimable(corpus, w) ==
  ~Problems(corpus) /\ \A c \in corpus.cells : Judged(CellState(corpus, w, c))

\* check_expected() with nothing allowed.
AsExpected(corpus) ==
  /\ ~Problems(corpus)
  /\ \A w \in DOMAIN reports, c \in corpus.cells : CellState(corpus, w, c)[1] = "agree"

-----------------------------------------------------------------------------
(* Properties.  Files of two workers of one name are one file, and a file  *)
(* nobody opened is an earlier run's: neither says anything of a run.      *)

OwnFiles == \A v, w \in DOMAIN crew : crew[v].name = crew[w].name => v = w
Reporting == phase = "done" /\ Loaded /\ OwnFiles

\* A case was built for every cell of the model.
Full(corpus) == corpus.cells \subseteq corpus.constructed

\* What worker w completed about case c in this run.
Said(w, c) == {past[w].wrote[i].status : i \in RowsOf(past[w].wrote, c)}

\* "N/N" is claimed of a worker only if in this run it completed an answer, not
\* an error, for every cell of the model, and said nothing of a case that is not
\* in the manifest.
ClaimIsEarned ==
  Reporting => \A corpus \in Corpora, w \in DOMAIN reports :
    Claimable(corpus, w) /\ past[w].opened =>
      /\ Full(corpus)
      /\ \A c \in corpus.cells : Said(w, c) \ {"error"} # {}
      /\ \A i \in ResultsIn(past[w].wrote) :
           past[w].wrote[i].case \in corpus.constructed

\* A crash is filed against the case a shipped worker would have done next, and
\* only if it ended without doing it.  It need not have been started: of one
\* that never opened its file the first case with no answer there is filed.
CrashIsDeserved ==
  Reporting => \A corpus \in Corpora, w \in DOMAIN reports : \A c \in corpus.cells :
    ~crew[w].alien /\ Distinct(assigned) /\ CellState(corpus, w, c) = Crashed =>
      \/ ~past[w].opened
      \/ past[w].next <= Len(assigned) /\ c = assigned[past[w].next] /\ Said(w, c) = {}

\* A run that passes with nothing allowed has, from every worker that opened its
\* file, an answer to every cell that is no refusal and no error.  The worker may
\* have been destroyed after that: nothing in the report says that it was.
PassIsComplete ==
  Reporting => \A corpus \in Corpora : AsExpected(corpus) =>
    \A w \in DOMAIN reports, c \in corpus.cells :
      past[w].opened => Said(w, c) \ {"rejected", "error"} # {}

\* The report of a run of shipped workers that opened their files is lost only to
\* one destroyed in the middle of a line; the coordinator has forgiven that line.
LostOnlyToDeath ==
  phase = "done" /\ OwnFiles /\ ~cuts /\ ~Loaded =>
    \E w \in DOMAIN reports :
      \/ crew[w].alien \/ ~past[w].opened
      \/ IsAbnormal(reports[w].term) /\ "unparseable" \notin reports[w].errors
=============================================================================
