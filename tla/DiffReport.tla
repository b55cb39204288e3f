----------------------------- MODULE DiffReport -----------------------------
(***************************************************************************)
(* How tools/diff_report.py judges one result line against one cell of the *)
(* model: docs/coverage-matrix.md section 5, row by row.  A text is looked *)
(* at only as far as a limit's pattern may match it or not.                *)
(***************************************************************************)
EXTENDS Naturals, Sequences, FiniteSetsExt

(* The dimensions a consumer may decline, and the class of each that every *)
(* consumer must accept; "type" has none.                                  *)
Dimensions == {"offset", "alignment", "type"}
MustAccept == [offset |-> "0", alignment |-> "natural", type |-> "none"]

(* A cell of the model has a class in each dimension; an entry of          *)
(* documented-limits.toml names a consumer and a set of classes.           *)
ExpectedOutcome(cell) ==
    IF cell.offset # "0" \/ cell.alignment # "natural" THEN "EITHER" ELSE "ACCEPT"

(* load_limits(): what else there is refuses the whole table. *)
ValidLimit(entry) ==
    /\ entry.dimension \in Dimensions /\ entry.values # {}
    /\ MustAccept[entry.dimension] \notin entry.values

Documented(limits, consumer, cell, matches) ==
    \E entry \in limits : /\ entry.consumer = consumer
                          /\ cell[entry.dimension] \in entry.values
                          /\ entry.pattern => matches

---------------------------------------------------------------------------
(* A line: status, panicked, the observer's violations, outstanding and    *)
(* capsules, the judge's incomplete and broken, sent, and what came back:  *)
(* "none", "error", "same", "relaid" or "changed".                         *)

NotRun == <<"not-run", "none">>
Defect == <<"disagree", "defect">>

Leaked(line) == line.outstanding /\ ~line.capsules

(* A slip: how the case was answered outranks what it did to the memory. *)
RowsAnswerFirst(line, excused, required, handsBack) ==
    LET accepted == line.status = "accepted"
    IN  << <<line.status = "error", NotRun>>,
           <<line.panicked, Defect>>,
           <<~accepted /\ excused, <<"agree", "compatibility">>>>,
           <<~accepted /\ required, Defect>>,
           <<~accepted, <<"agree", "undocumented">>>>,
           <<line.violations, Defect>>,
           <<line.incomplete, NotRun>>,
           <<line.broken, Defect>>,
           <<Leaked(line), Defect>>,
           <<line.received = "changed", Defect>>,
           <<TRUE, <<"agree", "none">>>> >>

(* A slip: the judge is believed before the log is known to be whole. *)
RowsTruncatedLate(line, excused, required, handsBack) ==
    << <<line.status = "error", NotRun>>,
       <<line.panicked \/ line.violations \/ line.broken \/ Leaked(line), Defect>>,
       <<line.incomplete, NotRun>>,
       <<line.status = "rejected" /\ required, Defect>>,
       <<line.status = "accepted" /\ line.received = "changed", Defect>>,
       <<TRUE, <<"agree", "none">>>> >>

(* classify(): the first row that applies decides. *)
Rows(line, excused, required, handsBack) ==
    LET accepted == line.status # "rejected"
        compared == line.sent /\ line.received \in {"same", "relaid", "changed"}
    IN  << <<line.status = "error", NotRun>>,
           <<line.panicked, Defect>>,
           <<line.violations, Defect>>,
           <<line.incomplete, NotRun>>,
           <<line.broken, Defect>>,
           <<Leaked(line), Defect>>,
           <<~accepted /\ excused, <<"agree", "compatibility">>>>,
           <<~accepted /\ required, Defect>>,
           <<~accepted, <<"agree", "undocumented">>>>,
           <<line.sent /\ line.received = "error", NotRun>>,
           <<line.sent /\ line.received = "none" /\ handsBack, NotRun>>,
           <<compared /\ line.received = "changed", Defect>>,
           <<compared /\ line.received = "relaid", <<"agree", "representation">>>>,
           <<TRUE, <<"agree", "none">>>> >>

Classify(line, excused, required, handsBack) ==
    LET rows == Rows(line, excused, required, handsBack)
    IN  rows[Min({i \in DOMAIN rows : rows[i][1]})][2]
=============================================================================
