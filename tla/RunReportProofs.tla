---------------------------- MODULE RunReportProofs ----------------------------
(***************************************************************************)
(* When the differential report of a run is lost: the coordinator and      *)
(* tools/diff_report.py read the same files, and forgive differently.      *)
(***************************************************************************)
EXTENDS RunReport, AttributionProofs

\* A file in which nothing is torn but the end, by a worker that was destroyed.
TornOnlyByDeath(u, t) ==
  AllWhole(u) /\ \A i \in DOMAIN u : u[i].kind = "torn" => i = Len(u) /\ IsAbnormal(t)

\* What a worker that opened its file leaves behind: the lines it completed, as
\* the case it had come to says, and at most one torn line after them.
Left(f, was, alien, ended) ==
  /\ f.there /\ (f.lines = was.wrote \/ TornAfter(was.wrote, f.lines))
  /\ ~alien =>
       /\ Progress(assigned, was.wrote, was.next) /\ was.next <= Len(assigned) + 1
       /\ ~cuts => TornOnlyByDeath(f.lines, ended)

LeftInv ==
  /\ Len(past) = Len(reports)
  /\ OwnFiles => \A w \in DOMAIN reports :
       past[w].opened => Left(FileOf(w), past[w], crew[w].alien, reports[w].term)

LEMMA LeftByShipped ==
  ASSUME AttributionInv, phase = "collect", ~cuts, opened, ~job.alien
  PROVE  TornOnlyByDeath(Lines, term)
<1> USE DEF AttributionInv
<1>0. /\ assigned \in Seq(Cases) /\ wrote \in Seq(Line) /\ next \in Nat \ {0}
      /\ next <= Len(assigned) + 1 /\ Progress(assigned, wrote, next)
      /\ Len(wrote) \in Nat /\ DOMAIN wrote = 1..Len(wrote)
  BY RunIsTyped, LenProperties DEF TypeInv, TypeOK, ShippedInv
<1>1. AllWhole(Lines)
  BY DEF FileInv
<1>2. \A i \in DOMAIN wrote : wrote[i].kind # "torn"
  BY <1>0, AnsweredShape
<1>3. CASE Lines = wrote
  BY <1>1, <1>2, <1>3 DEF TornOnlyByDeath
<1>4. CASE Lines # wrote
  <2>1. IsAbnormal(term)
    BY <1>4 DEF TermInv, ShippedInv, IsAbnormal
  <2>2. PICK whole \in BOOLEAN : Lines = Append(wrote, Torn(whole))
    BY <1>4 DEF FileInv, TornAfter
  <2>3. /\ Len(Lines) = Len(wrote) + 1 /\ DOMAIN Lines = 1..Len(Lines)
        /\ \A i \in 1..Len(wrote) : Lines[i] = wrote[i]
    BY <1>0, <2>2, TornIsLine, AppendProperties, LenProperties
  <2>4. ASSUME NEW i \in DOMAIN Lines, Lines[i].kind = "torn"
        PROVE  i = Len(Lines)
    BY <1>0, <1>2, <2>3, <2>4
  <2> QED BY <1>1, <2>1, <2>4 DEF TornOnlyByDeath
<1> QED BY <1>3, <1>4

LEMMA LeftByWorker ==
  ASSUME AttributionInv, phase = "collect", opened, NEW was,
         was.wrote = wrote, was.next = next
  PROVE  Left(files[job.name], was, job.alien, term)
<1> USE DEF AttributionInv
<1>1. files[job.name].there /\ (Lines = wrote \/ TornAfter(wrote, Lines))
  BY DEF FileInv
<1>2. ~job.alien => Progress(assigned, wrote, next) /\ next <= Len(assigned) + 1
  BY DEF ShippedInv
<1>3. ~job.alien /\ ~cuts => TornOnlyByDeath(Lines, term)
  BY LeftByShipped
<1> QED BY <1>1, <1>2, <1>3 DEF Left, Lines

LEMMA NextKeepsLeft ==
  ASSUME AttributionInv, LeftInv, [Next]_vars
  PROVE  LeftInv'
<1> USE DEF AttributionInv
<1>1. CASE UNCHANGED <<files, crew, reports, past, cuts, assigned>>
  BY <1>1 DEF LeftInv, Left, OwnFiles, FileOf
<1>2. CASE Work /\ UNCHANGED <<runVars, Given>>
  <2>1. UNCHANGED <<crew, reports, past, cuts, assigned>>
    BY <1>2 DEF runVars, Given
  <2>2. job = crew[cur] /\ Len(reports) = cur - 1
    BY <1>2, WorkIsAlive DEF TurnInv
  <2>3. ASSUME OwnFiles, NEW w \in DOMAIN reports
        PROVE  files'[crew[w].name] = files[crew[w].name]
    <3>1. w \in DOMAIN crew /\ cur \in DOMAIN crew /\ w # cur
      BY <2>2, CrewIsCounted
    <3>2. crew[w].name # job.name /\ crew[w].name \in Names(crew)
      BY <2>2, <2>3, <3>1 DEF Names, OwnFiles
    <3> QED BY <1>2, <3>2, OthersFilesAreSafe
  <2> QED BY <2>1, <2>3 DEF LeftInv, Left, OwnFiles, FileOf
<1>3. CASE CollectResults /\ UNCHANGED Given
  <2> DEFINE record == [opened |-> opened, wrote |-> wrote, next |-> next]
             All == [opened : BOOLEAN, wrote : Seq(Line), next : Nat \ {0}]
  <2>1. past \in Seq(All) /\ record \in All /\ past' = Append(past, record)
    BY <1>3 DEF TypeInv, TypeOK, CollectResults
  <2>2. /\ Len(past') = Len(past) + 1 /\ past'[Len(past) + 1] = record
        /\ \A w \in 1..Len(past) : past'[w] = past[w]
    <3> HIDE DEF record, All
    <3> QED BY <2>1, AppendProperties, LenProperties
  <2>3. /\ job = crew[Len(reports) + 1] /\ phase = "collect"
        /\ Len(past) = Len(reports) /\ Len(reports') = Len(reports) + 1
        /\ UNCHANGED <<files, crew, cuts, assigned>>
    BY <1>3, CollectTakesTurn DEF LeftInv, Given, CollectResults, procVars
  <2>4. Collect(assigned, files[job.name], term).term = term
    BY DEF Collect
  <2>5. ASSUME OwnFiles, NEW w \in DOMAIN reports', past'[w].opened
        PROVE  Left(FileOf(w), past'[w], crew[w].alien, reports'[w].term)
    <3>1. CASE w \in DOMAIN reports
      <4>1. past'[w] = past[w] /\ reports'[w] = reports[w]
        BY <1>3, <2>2, <2>3, <3>1, ReportAdded
      <4> QED BY <2>5, <3>1, <4>1 DEF LeftInv
    <3>2. CASE w = Len(reports) + 1
      <4>1. /\ past'[w].opened = opened /\ reports'[w].term = term /\ crew[w] = job
            /\ past'[w].wrote = wrote /\ past'[w].next = next
        BY <1>3, <2>2, <2>3, <2>4, <3>2, ReportAdded
      <4> QED BY <2>3, <2>5, <4>1, LeftByWorker DEF FileOf
    <3> QED BY <1>3, <2>5, <3>1, <3>2, ReportAdded
  <2>6. Len(past') = Len(reports')
    BY <2>2, <2>3
  <2> HIDE DEF record, All
  <2> QED BY <2>3, <2>5, <2>6 DEF LeftInv, Left, OwnFiles, FileOf
<1>4. CASE Next
  <2>1. CASE Worker
    BY <1>2, <1>4, <2>1 DEF Worker, Next
  <2>2. CASE CollectResults
    BY <1>3, <1>4, <2>2 DEF Next
  <2>3. CASE Spawn \/ Prepare \/ Poll \/ Check \/ Wait \/ Publish \/ Clock
             \/ KilledDies \/ Stopped
    BY <1>1, <1>4, <2>3 DEF Next, Spawn, Abort, Started, Prepare, Poll, Check, Wait,
       Publish, Clock, KilledDies, Stopped, Exit, procVars, runVars, Given
  <2> QED BY <1>4, <2>1, <2>2, <2>3 DEF Next, Supervisor
<1>5. CASE UNCHANGED vars
  BY <1>1, <1>5 DEF vars, procVars, runVars
<1> QED BY <1>4, <1>5

ReportInv == AttributionInv /\ LeftInv /\ ArtifactsAgree

LEMMA ReportHolds == Spec => []ReportInv
<1>1. Init => LeftInv /\ ArtifactsAgree
  BY EmptySeq DEF Init, LeftInv, ArtifactsAgree
<1>2. ReportInv /\ [Next]_vars => LeftInv' /\ ArtifactsAgree'
  BY NextKeepsLeft, NextKeepsArtifacts DEF ReportInv, AttributionInv
<1>3. Spec => []AttributionInv
  BY AttributionHolds
<1> QED BY <1>1, <1>2, <1>3, PTL DEF Spec, ReportInv

\* A line the coordinator does not hold against its worker can cost the report of
\* the whole run, and nothing else a shipped worker writes can: for every list of
\* cases, every crew and whatever was in the directory.
THEOREM OnlyDeathLosesTheReport == Spec => []LostOnlyToDeath
<1>1. ReportInv => LostOnlyToDeath
  <2> USE DEF ReportInv
  <2> SUFFICES ASSUME ReportInv, OwnFiles, ~cuts, ~Loaded,
                      \A w \in DOMAIN reports : ~crew[w].alien /\ past[w].opened
               PROVE  \E w \in DOMAIN reports :
                        /\ IsAbnormal(reports[w].term)
                        /\ "unparseable" \notin reports[w].errors
    BY DEF LostOnlyToDeath
  <2>1. PICK w \in DOMAIN reports : Raises(FileOf(w))
    BY DEF Loaded
  <2>2. TornOnlyByDeath(FileOf(w).lines, reports[w].term)
    BY DEF LeftInv, Left
  <2>3. FileOf(w).there /\ IsAbnormal(reports[w].term)
    BY <2>1, <2>2 DEF Raises, TornOnlyByDeath, AllWhole
  <2>4. reports[w] = Collect(assigned, FileOf(w), reports[w].term)
    BY DEF ArtifactsAgree, OwnFiles, FileOf
  <2>5. Text(FileOf(w)) = FileOf(w).lines
    BY <2>2, <2>3 DEF Text, Readable, TornOnlyByDeath, AllWhole
  <2>6. ~Broken("unparseable", assigned, FileOf(w).lines, reports[w].term)
    BY <2>2 DEF Broken, Unparseable, TornOnlyByDeath
  <2>7. reports[w].errors = {e \in ProtocolErrors :
                               Broken(e, assigned, FileOf(w).lines, reports[w].term)}
    BY <2>4, <2>5 DEF Collect
  <2>8. "unparseable" \notin reports[w].errors
    BY <2>6, <2>7
  <2> QED BY <2>3, <2>8
<1> QED BY <1>1, ReportHolds, PTL

-----------------------------------------------------------------------------
(* What the report claims *)

\* Of a set of positions that is not empty, Max is the last.
LEMMA LastPosition ==
  ASSUME NEW n \in Nat, NEW S \in SUBSET (1..n), S # {}
  PROVE  Max(S) \in S
<1> DEFINE T == {n - i : i \in S}
<1>1. T \in SUBSET Nat /\ T # {}
  <2>1. \A i \in S : i \in 1..n /\ n - i \in Nat
    OBVIOUS
  <2> QED BY <2>1
<1>2. PICK t \in T : \A u \in T : t <= u
  BY <1>1, FirstPosition
<1>3. PICK i \in S : t = n - i
  BY <1>2
<1>4. \A j \in S : i >= j
  BY <1>2, <1>3
<1> QED BY <1>3, <1>4 DEF Max

LEMMA FirstIs ==
  ASSUME NEW S \in SUBSET Nat, NEW i \in S, \A j \in S : i <= j
  PROVE  Min(S) = i
<1>1. Min(S) \in S /\ \A j \in S : Min(S) <= j
  BY DEF Min
<1>2. Min(S) <= i /\ i <= Min(S) /\ i \in Nat /\ Min(S) \in Nat
  BY <1>1
<1> QED BY <1>2

\* classify() of a line that says nothing but how its case was answered.
LEMMA PlainIsClassified ==
  ASSUME NEW s
  PROVE  Classify(Plain(s), FALSE, TRUE, FALSE)
           = IF s = "error" THEN NotRun
             ELSE IF s = "rejected" THEN Defect ELSE <<"agree", "none">>
<1> DEFINE said == Plain(s)
           rows == Rows(said, FALSE, TRUE, FALSE)
           applies == {i \in DOMAIN rows : rows[i][1]}
<1>1. Classify(Plain(s), FALSE, TRUE, FALSE) = rows[Min(applies)][2]
  BY DEF Classify
<1>2. /\ DOMAIN rows = 1..14
      /\ rows[1][1] <=> s = "error"
      /\ rows[8][1] <=> s = "rejected"
      /\ \A i \in 2..7 : ~rows[i][1]
      /\ \A i \in 9..13 : rows[i][1] => s = "rejected"
      /\ rows[14][1]
      /\ rows[1][2] = NotRun /\ rows[8][2] = Defect /\ rows[14][2] = <<"agree", "none">>
  <2>1. /\ said.status = s /\ ~said.panicked /\ ~said.violations /\ ~said.incomplete
        /\ ~said.broken /\ ~Leaked(said) /\ ~said.sent /\ said.received = "none"
    BY DEF Plain, Leaked
  <2> HIDE DEF said
  <2>2. DOMAIN rows = 1..14
    BY DEF Rows
  <2>3. (rows[1][1] <=> s = "error") /\ (rows[8][1] <=> s = "rejected") /\ rows[14][1]
    BY <2>1 DEF Rows
  <2>4. ~rows[2][1] /\ ~rows[3][1] /\ ~rows[4][1] /\ ~rows[5][1] /\ ~rows[6][1] /\ ~rows[7][1]
    BY <2>1 DEF Rows
  <2>5. /\ rows[9][1] => s = "rejected"
        /\ ~rows[10][1] /\ ~rows[11][1] /\ ~rows[12][1] /\ ~rows[13][1]
    BY <2>1 DEF Rows
  <2>6. rows[1][2] = NotRun /\ rows[8][2] = Defect /\ rows[14][2] = <<"agree", "none">>
    BY DEF Rows
  <2> HIDE DEF rows
  <2>7. /\ \A i \in 2..7 : i = 2 \/ i = 3 \/ i = 4 \/ i = 5 \/ i = 6 \/ i = 7
        /\ \A i \in 9..13 : i = 9 \/ i = 10 \/ i = 11 \/ i = 12 \/ i = 13
    OBVIOUS
  <2> QED BY <2>2, <2>3, <2>4, <2>5, <2>6, <2>7
<1> HIDE DEF rows
<1>3. applies \in SUBSET Nat
  BY <1>2
<1>4. CASE s = "error"
  <2>1. 1 \in applies /\ \A j \in applies : 1 <= j
    BY <1>2, <1>4
  <2>2. Min(applies) = 1
    BY <1>3, <2>1, FirstIs
  <2> QED BY <1>1, <1>2, <1>4, <2>2
<1>5. CASE s = "rejected"
  <2>1. 8 \in applies /\ \A j \in applies : 8 <= j
    <3>1. \A j \in 1..7 : ~rows[j][1]
      BY <1>2, <1>5
    <3> QED BY <1>2, <1>5, <3>1
  <2>2. Min(applies) = 8
    BY <1>3, <2>1, FirstIs
  <2> QED BY <1>1, <1>2, <1>5, <2>2
<1>6. CASE s # "error" /\ s # "rejected"
  <2>1. 14 \in applies /\ \A j \in applies : 14 <= j
    <3>1. \A j \in 1..13 : ~rows[j][1]
      BY <1>2, <1>6
    <3> QED BY <1>2, <3>1
  <2>2. Min(applies) = 14
    BY <1>3, <2>1, FirstIs
  <2> QED BY <1>1, <1>2, <1>6, <2>2
<1> QED BY <1>4, <1>5, <1>6

\* The rows of a file are its results and what is not a header.
Body(t) == IF HasHeader(t) THEN Tail(t) ELSE t

LEMMA RowsAreLines ==
  ASSUME NEW t \in Seq(Line)
  PROVE  /\ Body(t) \in Seq(Line)
         /\ \A i \in DOMAIN Body(t) : \E j \in DOMAIN t : Body(t)[i] = t[j]
         /\ \A j \in ResultsIn(t) : \E i \in DOMAIN Body(t) : Body(t)[i] = t[j]
<1> DEFINE rows == Body(t)
<1>0. rows = IF HasHeader(t) THEN Tail(t) ELSE t
  BY DEF Body
<1> HIDE DEF rows
<1>1. CASE HasHeader(t)
  <2>0. t # <<>> /\ t[1].kind = "header"
    BY <1>1 DEF HasHeader
  <2>1. /\ rows \in Seq(Line) /\ Len(rows) = Len(t) - 1 /\ Len(t) \in Nat \ {0}
        /\ DOMAIN rows = 1..(Len(t) - 1) /\ DOMAIN t = 1..Len(t)
        /\ \A i \in 1..(Len(t) - 1) : rows[i] = t[i + 1]
    BY <1>0, <1>1, <2>0, HeadTailProperties, LenProperties
  <2>2. ASSUME NEW i \in DOMAIN rows PROVE \E j \in DOMAIN t : rows[i] = t[j]
    <3> DEFINE n == Len(t)
    <3>0. n \in Nat /\ i \in 1..(n - 1) /\ DOMAIN t = 1..n
      BY <2>1
    <3> HIDE DEF n
    <3>1. i + 1 \in DOMAIN t /\ i \in 1..(n - 1)
      BY <3>0
    <3>2. rows[i] = t[i + 1]
      BY <2>1, <3>1 DEF n
    <3> QED BY <3>1, <3>2
  <2>3. ASSUME NEW j \in ResultsIn(t) PROVE \E i \in DOMAIN rows : rows[i] = t[j]
    <3>1. j \in 1..Len(t) /\ j # 1
      BY <2>0, <2>1 DEF ResultsIn
    <3> DEFINE n == Len(t)
    <3>0. n \in Nat /\ j \in 1..n
      BY <2>1, <3>1
    <3> HIDE DEF n
    <3>2. j - 1 \in 1..(n - 1) /\ (j - 1) + 1 = j
      BY <3>0, <3>1
    <3> USE DEF n
    <3> QED BY <2>1, <3>2
  <2> QED BY <2>1, <2>2, <2>3 DEF rows
<1>2. CASE ~HasHeader(t)
  BY <1>0, <1>2 DEF ResultsIn, rows
<1> QED BY <1>1, <1>2 DEF rows

\* A file that is read whole holds what its worker completed in this run.
LEMMA ReadBack ==
  ASSUME ReportInv, Reporting, NEW w \in DOMAIN reports, past[w].opened
  PROVE  /\ FileOf(w).there /\ FileOf(w).lines = past[w].wrote
         /\ past[w].wrote \in Seq(Line)
         /\ Text(FileOf(w)) = past[w].wrote
         /\ RowsIn(FileOf(w)) = Body(past[w].wrote)
<1> DEFINE f == FileOf(w)
           t == past[w].wrote
<1>1. w \in DOMAIN past /\ t \in Seq(Line)
  <2> DEFINE All == [opened : BOOLEAN, wrote : Seq(Line), next : Nat \ {0}]
  <2>1. past \in Seq(All)
    BY DEF ReportInv, AttributionInv, TypeInv, TypeOK
  <2>2. DOMAIN past = DOMAIN reports
    BY <2>1, LenProperties DEF ReportInv, LeftInv, AttributionInv, TypeInv, TypeOK
  <2>3. past[w] \in All
    <3> HIDE DEF All
    <3>1. w \in 1..Len(past)
      BY <2>1, <2>2, LenProperties
    <3> QED BY <2>1, <3>1, ElementOfSeq
  <2> QED BY <2>2, <2>3
<1>2. f.there /\ (f.lines = t \/ TornAfter(t, f.lines))
  BY DEF ReportInv, LeftInv, Left, Reporting
<1>3. ~Raises(f)
  BY DEF Reporting, Loaded
<1>4. f.lines = t
  <2> SUFFICES ASSUME TornAfter(t, f.lines) PROVE FALSE
    BY <1>2
  <2>1. PICK whole \in BOOLEAN : f.lines = Append(t, Torn(whole))
    BY DEF TornAfter
  <2>2. /\ Len(f.lines) \in DOMAIN f.lines
        /\ f.lines[Len(f.lines)] = Torn(whole)
    BY <1>1, <2>1, TornIsLine, AppendProperties, LenProperties
  <2>3. f.lines[Len(f.lines)].kind = "torn"
    BY <2>2 DEF Torn
  <2> QED BY <1>2, <1>3, <2>2, <2>3 DEF Raises
<1>5. Text(f) = t
  BY <1>2, <1>3, <1>4 DEF Text, Readable, Raises
<1> QED BY <1>1, <1>2, <1>4, <1>5 DEF RowsIn, Body

\* The row a cell is judged by is one its worker completed.
LEMMA AnswerWasSaid ==
  ASSUME ReportInv, Reporting, NEW w \in DOMAIN reports, past[w].opened,
         NEW c \in Cases, NEW rows, rows = RowsIn(FileOf(w))
  PROVE  /\ RowsOf(rows, c) # {} => Answer(rows, c).status \in Said(w, c)
         /\ \A i \in ResultsIn(past[w].wrote) :
              \E k \in DOMAIN rows : rows[k].case = past[w].wrote[i].case
<1> DEFINE t == past[w].wrote
<1>1. /\ t \in Seq(Line) /\ rows \in Seq(Line)
      /\ \A i \in DOMAIN rows : \E j \in DOMAIN t : rows[i] = t[j]
      /\ \A j \in ResultsIn(t) : \E i \in DOMAIN rows : rows[i] = t[j]
  <2>1. t \in Seq(Line) /\ rows = Body(t)
    BY ReadBack
  <2> HIDE DEF t
  <2> QED BY <2>1, RowsAreLines
<1>2. ASSUME RowsOf(rows, c) # {} PROVE Answer(rows, c).status \in Said(w, c)
  <2>1. Len(rows) \in Nat /\ RowsOf(rows, c) \in SUBSET (1..Len(rows))
    BY <1>1, LenProperties DEF RowsOf
  <2>2. Max(RowsOf(rows, c)) \in RowsOf(rows, c)
    BY <1>2, <2>1, LastPosition
  <2>3. PICK j \in DOMAIN t : Answer(rows, c) = t[j]
    BY <1>1, <2>2 DEF Answer, RowsOf
  <2>4. Answer(rows, c).case = c
    BY <2>2 DEF Answer, RowsOf
  <2> QED BY <2>3, <2>4 DEF Said, RowsOf
<1>3. ASSUME NEW i \in ResultsIn(t)
      PROVE  \E k \in DOMAIN rows : rows[k].case = t[i].case
  BY <1>1
<1> QED BY <1>2, <1>3

\* How a cell that was built for and is not the suspect's comes to its state.
LEMMA CellOf ==
  ASSUME NEW corpus, NEW w, NEW c, NEW rows, rows = RowsIn(FileOf(w)),
         NEW state, state = CellState(corpus, w, c), state[1] # "inexpressible"
  PROVE  /\ c \in corpus.constructed
         /\ state = Crashed => c = reports[w].suspect
         /\ state[1] \in {"agree", "disagree"} =>
              RowsOf(rows, c) # {} /\ Answer(rows, c).status # "error"
         /\ state[1] = "agree" => Answer(rows, c).status # "rejected"
<1> DEFINE s == Answer(rows, c).status
           judged == Classify(Plain(s), FALSE, TRUE, FALSE)
<1>1. /\ c \in corpus.constructed
      /\ c = reports[w].suspect => state = Crashed
      /\ c # reports[w].suspect /\ RowsOf(rows, c) = {} => state = NotRun
      /\ c # reports[w].suspect /\ RowsOf(rows, c) # {} => state = judged
  BY DEF CellState
<1>2. judged = IF s = "error" THEN NotRun
               ELSE IF s = "rejected" THEN Defect ELSE <<"agree", "none">>
  BY PlainIsClassified
<1> HIDE DEF judged, s
<1>3. /\ Crashed = <<"not-run", "crash">> /\ NotRun = <<"not-run", "none">>
      /\ Defect = <<"disagree", "defect">>
  BY DEF Crashed, NotRun, Defect
<1> QED BY <1>1, <1>2, <1>3 DEF s

\* "N/N" is claimed of a worker only for what it completed in this run, for every
\* model and manifest, every crew, and whatever earlier runs left behind.
THEOREM ClaimsAreEarned == Spec => []ClaimIsEarned
<1>1. ReportInv => ClaimIsEarned
  <2> SUFFICES ASSUME ReportInv, Reporting, NEW corpus \in Corpora,
                      NEW w \in DOMAIN reports, Claimable(corpus, w), past[w].opened
               PROVE  /\ Full(corpus)
                      /\ \A c \in corpus.cells : Said(w, c) \ {"error"} # {}
                      /\ \A i \in ResultsIn(past[w].wrote) :
                           past[w].wrote[i].case \in corpus.constructed
    BY DEF ClaimIsEarned
  <2> DEFINE rows == RowsIn(FileOf(w))
  <2>1. corpus.cells \subseteq Cases
    BY CorporaAssumption
  <2>2. ASSUME NEW c \in corpus.cells
        PROVE  /\ c \in corpus.constructed /\ RowsOf(rows, c) # {}
               /\ Answer(rows, c).status # "error"
    <3> DEFINE state == CellState(corpus, w, c)
    <3>1. state[1] \in {"agree", "disagree"}
      BY DEF Claimable, Judged
    <3> QED BY <3>1, CellOf
  <2>3. Full(corpus)
    BY <2>2 DEF Full
  <2>4. ASSUME NEW c \in corpus.cells PROVE Said(w, c) \ {"error"} # {}
    BY <2>1, <2>2, AnswerWasSaid
  <2>5. ASSUME NEW i \in ResultsIn(past[w].wrote)
        PROVE  past[w].wrote[i].case \in corpus.constructed
    <3>0. past[w].wrote[i].case \in Cases
      <4>1. past[w].wrote \in Seq(Line)
        BY ReadBack
      <4>2. past[w].wrote[i] \in Line /\ past[w].wrote[i].kind = "result"
        BY <4>1, ElementOfSeq, LenProperties DEF ResultsIn
      <4> QED BY <4>2 DEF Line
    <3>1. PICK k \in DOMAIN rows : rows[k].case = past[w].wrote[i].case
      BY <3>0, AnswerWasSaid
    <3>2. rows[k].case \in corpus.constructed
      BY DEF Claimable, Problems, Strangers
    <3> QED BY <3>1, <3>2
  <2> QED BY <2>3, <2>4, <2>5
<1> QED BY <1>1, ReportHolds, PTL

\* What a run that passes with nothing allowed has seen of every worker that
\* opened its file.
THEOREM PassesAreComplete == Spec => []PassIsComplete
<1>1. ReportInv => PassIsComplete
  <2> SUFFICES ASSUME ReportInv, Reporting, NEW corpus \in Corpora, AsExpected(corpus),
                      NEW w \in DOMAIN reports, NEW c \in corpus.cells, past[w].opened
               PROVE  Said(w, c) \ {"rejected", "error"} # {}
    BY DEF PassIsComplete
  <2> DEFINE rows == RowsIn(FileOf(w))
             state == CellState(corpus, w, c)
  <2>1. c \in Cases /\ state[1] = "agree"
    BY CorporaAssumption DEF AsExpected
  <2>2. /\ RowsOf(rows, c) # {} /\ Answer(rows, c).status # "error"
        /\ Answer(rows, c).status # "rejected"
    BY <2>1, CellOf
  <2> QED BY <2>1, <2>2, AnswerWasSaid
<1> QED BY <1>1, ReportHolds, PTL

\* A crash is filed against the case a shipped worker would have done next.
THEOREM CrashesAreDeserved == Spec => []CrashIsDeserved
<1>1. ReportInv => CrashIsDeserved
  <2> SUFFICES ASSUME ReportInv, Reporting, NEW corpus \in Corpora,
                      NEW w \in DOMAIN reports, NEW c \in corpus.cells,
                      ~crew[w].alien, Distinct(assigned),
                      CellState(corpus, w, c) = Crashed, past[w].opened
               PROVE  /\ past[w].next <= Len(assigned) /\ c = assigned[past[w].next]
                      /\ Said(w, c) = {}
    BY DEF CrashIsDeserved
  <2> DEFINE t == past[w].wrote
             n == past[w].next
             f == FileOf(w)
  <2>1. c \in Cases /\ c # NoCase /\ c = reports[w].suspect
    BY CorporaAssumption, CasesAssumption, CellOf DEF Crashed
  <2>2. t \in Seq(Line) /\ Text(f) = t
    BY ReadBack
  <2>3. n \in Nat \ {0} /\ assigned \in Seq(Cases) /\ Len(assigned) \in Nat
    <3> DEFINE All == [opened : BOOLEAN, wrote : Seq(Line), next : Nat \ {0}]
    <3>1. past \in Seq(All) /\ w \in 1..Len(past)
      BY LenProperties DEF ReportInv, LeftInv, AttributionInv, TypeInv, TypeOK
    <3>2. past[w] \in All
      <4> HIDE DEF All
      <4> QED BY <3>1, ElementOfSeq
    <3> QED BY <3>2, RunIsTyped, LenProperties DEF ReportInv, AttributionInv, TypeInv
  <2>4. Progress(assigned, t, n) /\ n <= Len(assigned) + 1
    BY DEF ReportInv, LeftInv, Left, Reporting
  <2>5. reports[w].suspect = Suspect(assigned, Holes(assigned, t))
    <3>1. reports[w] = Collect(assigned, f, reports[w].term)
      BY DEF ReportInv, ArtifactsAgree, Reporting, OwnFiles, FileOf
    <3>2. Collect(assigned, f, reports[w].term).suspect
            = Suspect(assigned, Holes(assigned, Text(f)))
      BY DEF Collect
    <3> QED BY <2>2, <3>1, <3>2
  <2>6. /\ Holes(assigned, t) = {i \in DOMAIN assigned : n <= i}
        /\ Suspect(assigned, Holes(assigned, t))
             = IF n > Len(assigned) THEN NoCase ELSE assigned[n]
    BY <2>2, <2>3, <2>4, OpenFromNext
  <2> HIDE DEF t, n, f
  <2>7. n <= Len(assigned) /\ c = assigned[n]
    BY <2>1, <2>3, <2>5, <2>6
  <2>8. n \in Holes(assigned, t)
    BY <2>3, <2>6, <2>7, LenProperties
  <2>9. c \notin Reported(t)
    BY <2>7, <2>8 DEF Holes
  <2>10. ASSUME NEW i \in RowsOf(t, c) PROVE FALSE
    <3>1. i \in DOMAIN t /\ t[i] \in Line /\ t[i].case = c
      BY <2>2, <2>10, ElementOfSeq, LenProperties DEF RowsOf
    <3>2. t[i].kind = "result"
      BY <2>1, <3>1 DEF Line
    <3> QED BY <2>9, <3>1, <3>2 DEF Reported, ResultsIn
  <2> QED BY <2>7, <2>10 DEF Said, t, n
<1> QED BY <1>1, ReportHolds, PTL
=============================================================================
