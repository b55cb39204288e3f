--------------------------- MODULE AttributionProofs ---------------------------
(***************************************************************************)
(* What a run says of its workers: the files it leaves agree with it, a    *)
(* worker that is destroyed has the right case named, and none is blamed   *)
(* for what it did not do.                                                 *)
(***************************************************************************)
EXTENDS CoordinatorProofs

-----------------------------------------------------------------------------
(* Whose turn it is *)

\* A worker moves only while it is watched or abandoned, and one report is made of
\* each worker in turn.
TurnInv ==
  /\ Alive => phase \in {"poll", "check", "wait", "abandoned"}
  /\ phase \in {"prepare", "spawn", "poll", "check", "wait", "collect", "abandoned"}
       => Len(reports) = cur - 1
  /\ phase \in {"poll", "check", "wait", "collect", "abandoned"} => job = crew[cur]
  /\ Len(reports) <= Len(crew)

LEMMA CrewIsCounted ==
  ASSUME TypeInv
  PROVE  /\ cur \in 1..Len(crew) /\ Len(crew) \in Nat /\ Len(reports) \in Nat
         /\ DOMAIN crew = 1..Len(crew) /\ DOMAIN reports = 1..Len(reports)
BY RunIsTyped, LenProperties DEF TypeInv, TypeOK

LEMMA WorkIsAlive ==
  ASSUME Work
  PROVE  Alive /\ UNCHANGED job
<1>1. Alive
  BY DEF Work, ReadCases, Open, WriteHeader, OnCase, RunCase, Spill, Flush, Return,
         Quit, Die, Babble, Alive
<1>2. UNCHANGED job
  BY DEF Work, ReadCases, Open, WriteHeader, RunCase, Spill, Flush, Return, Quit, Die,
         Babble, Exit, Goto
<1> QED BY <1>1, <1>2

\* A report is added for the worker at hand.
LEMMA CollectTakesTurn ==
  ASSUME TypeInv, TurnInv, CollectResults
  PROVE  /\ Len(reports') = cur /\ cur = Len(reports) + 1 /\ job = crew[cur] /\ ~Alive
         /\ UNCHANGED <<procVars, crew, term>>
<1>1. Len(reports') = Len(reports) + 1
  BY AppendProperties DEF CollectResults, TypeInv, TypeOK
<1>2. phase = "collect" /\ UNCHANGED <<procVars, crew, term>>
  BY DEF CollectResults
<1> QED BY <1>1, <1>2, CrewIsCounted DEF TurnInv

LEMMA NextKeepsTurn ==
  ASSUME TypeInv, TurnInv, [Next]_vars
  PROVE  TurnInv'
<1>1. CASE Worker \/ KilledDies
  <2>1. Alive /\ UNCHANGED <<job, runVars>>
    BY <1>1, WorkIsAlive DEF Worker, KilledDies, Exit
  <2>2. UNCHANGED <<job, phase, cur, reports, crew>>
    BY <2>1 DEF runVars
  <2> QED BY <2>1, <2>2 DEF TurnInv
<1>2. CASE CollectResults
  <2>1. Len(reports') = cur /\ ~Alive /\ UNCHANGED <<pc, job, crew>>
    BY <1>2, CollectTakesTurn DEF procVars
  <2>2. ~Alive'
    BY <2>1 DEF Alive
  <2>3. phase' = "publish" \/ (phase' = "spawn" /\ cur' = cur + 1)
    BY <1>2 DEF CollectResults
  <2>4. cur \in 1..Len(crew) /\ Len(crew) \in Nat
    BY CrewIsCounted
  <2>5. Len(reports') <= Len(crew')
    BY <2>1, <2>4
  <2> QED BY <2>1, <2>2, <2>3, <2>4, <2>5 DEF TurnInv
<1>3. CASE Spawn
  <2>1. phase = "spawn" /\ ~Alive /\ UNCHANGED <<reports, crew, cur>>
    BY <1>3 DEF Spawn, Abort, Started, TurnInv
  <2>2. CASE Abort
    BY <2>1, <2>2 DEF Abort, procVars, Alive, TurnInv
  <2>3. CASE Started("none") /\ phase' = "collect"
    BY <2>1, <2>3 DEF Started, Alive, TurnInv
  <2>4. CASE Started("reading") /\ phase' = "poll"
    BY <2>1, <2>4 DEF Started, Alive, TurnInv
  <2> QED BY <1>3, <2>2, <2>3, <2>4 DEF Spawn
<1>4. CASE Prepare \/ Poll \/ Check \/ Wait \/ Publish \/ Clock \/ Stopped
  <2>1. UNCHANGED <<pc, job, cur, reports, crew>>
    BY <1>4 DEF Prepare, Abort, Poll, Check, Wait, Publish, Clock, Stopped, procVars,
                runVars
  <2>2. Alive' <=> Alive
    BY <2>1 DEF Alive
  <2>3. CASE Prepare \/ Publish
    BY <2>1, <2>2, <2>3 DEF Prepare, Publish, Abort, TurnInv
  <2>4. CASE Poll
    BY <2>1, <2>2, <2>4 DEF Poll, TurnInv, Alive
  <2>5. CASE Check
    BY <2>1, <2>2, <2>5 DEF Check, TurnInv
  <2>6. CASE Wait
    BY <2>1, <2>2, <2>6 DEF Wait, TurnInv, Alive
  <2>7. CASE Clock \/ Stopped
    BY <2>1, <2>2, <2>7 DEF Clock, Stopped, runVars, TurnInv
  <2> QED BY <1>4, <2>3, <2>4, <2>5, <2>6, <2>7
<1>5. CASE UNCHANGED vars
  BY <1>5 DEF vars, procVars, runVars, TurnInv, Alive
<1> QED BY <1>1, <1>2, <1>3, <1>4, <1>5 DEF Next, Supervisor

LEMMA InitIsFirstTurn ==
  ASSUME Init
  PROVE  TurnInv
<1>1. cur = 1 /\ reports = <<>> /\ pc = "none" /\ phase = "prepare"
  BY DEF Init
<1>2. Len(reports) = 0 /\ Len(crew) \in Nat
  BY <1>1, EmptySeq, InitIsTyped, CrewIsCounted
<1> QED BY <1>1, <1>2 DEF TurnInv, Alive

-----------------------------------------------------------------------------
(* The files left behind give the reports again *)

\* A worker writes to no file but the one of its own name.
LEMMA OthersFilesAreSafe ==
  ASSUME TypeInv, Work, NEW n \in Names(crew), n # job.name
  PROVE  files'[n] = files[n]
<1>1. files \in [Names(crew) -> File]
  BY DEF TypeInv, TypeOK
<1>2. (\E lines : Put(lines)) \/ UNCHANGED files
  BY Zenon DEF Work, ReadCases, Open, WriteHeader, RunCase, Spill, Flush, Return, Quit,
               Die, Babble, Exit, Goto
<1> QED BY <1>1, <1>2 DEF Put

LEMMA NextKeepsArtifacts ==
  ASSUME TypeInv, TurnInv, ArtifactsAgree, [Next]_vars
  PROVE  ArtifactsAgree'
<1>1. CASE UNCHANGED <<files, crew, reports, assigned>>
  BY <1>1 DEF ArtifactsAgree
<1>2. CASE Work /\ UNCHANGED <<runVars, Given>>
  <2>1. UNCHANGED <<crew, reports, assigned>>
    BY <1>2 DEF runVars, Given
  <2>2. job = crew[cur] /\ Len(reports) = cur - 1
    BY <1>2, WorkIsAlive DEF TurnInv
  <2>3. ASSUME \A v, w \in DOMAIN crew : crew[v].name = crew[w].name => v = w,
               NEW w \in DOMAIN reports
        PROVE  reports[w] = Collect(assigned, files'[crew[w].name], reports[w].term)
    <3>1. w \in DOMAIN crew /\ cur \in DOMAIN crew /\ w # cur
      BY <2>2, CrewIsCounted
    <3>2. crew[w].name # job.name /\ crew[w].name \in Names(crew)
      BY <2>2, <2>3, <3>1 DEF Names
    <3>3. files'[crew[w].name] = files[crew[w].name]
      BY <1>2, <3>2, OthersFilesAreSafe
    <3> QED BY <2>3, <3>3 DEF ArtifactsAgree
  <2> QED BY <2>1, <2>3 DEF ArtifactsAgree
<1>3. CASE CollectResults /\ UNCHANGED Given
  <2>1. /\ job = crew[cur] /\ cur = Len(reports) + 1 /\ UNCHANGED <<files, crew, assigned>>
    BY <1>3, CollectTakesTurn DEF procVars, Given
  <2>2. Collect(assigned, files[job.name], term).term = term
    BY DEF Collect
  <2>3. ASSUME \A v, w \in DOMAIN crew : crew[v].name = crew[w].name => v = w,
               NEW w \in DOMAIN reports'
        PROVE  reports'[w] = Collect(assigned, files[crew[w].name], reports'[w].term)
    <3>1. CASE w \in DOMAIN reports
      BY <1>3, <2>3, <3>1, ReportAdded DEF ArtifactsAgree
    <3>2. CASE w = Len(reports) + 1
      BY <1>3, <2>1, <2>2, <3>2, ReportAdded
    <3> QED BY <1>3, <2>3, <3>1, <3>2, ReportAdded
  <2> QED BY <2>1, <2>3 DEF ArtifactsAgree
<1>4. CASE Next
  <2>1. CASE Worker
    BY <1>2, <1>4, <2>1 DEF Worker, Next
  <2>2. CASE CollectResults
    BY <1>3, <1>4, <2>2 DEF Next
  <2>3. CASE Spawn \/ Prepare \/ Poll \/ Check \/ Wait \/ Publish \/ Clock
             \/ KilledDies \/ Stopped
    BY <1>1, <1>4, <2>3 DEF Next, Spawn, Abort, Started, Prepare, Poll, Check, Wait,
       Publish, Clock, KilledDies, Stopped, Exit, procVars, runVars, Given
  <2> QED BY <1>4, <2>1, <2>2, <2>3 DEF Next, Supervisor
<1>5. CASE UNCHANGED vars
  BY <1>1, <1>5 DEF vars, procVars, runVars
<1> QED BY <1>4, <1>5

\* For every crew of workers with names of their own: what can be read from the
\* run directory afterwards is what was reported, so no worker, shipped or alien,
\* writes after its results were collected.
THEOREM FilesGiveTheReports == Spec => []ArtifactsAgree
<1> DEFINE Inv == TypeInv /\ TurnInv /\ ArtifactsAgree
<1>1. Init => Inv
  <2>1. Init => ArtifactsAgree
    BY DEF Init, ArtifactsAgree
  <2> QED BY <2>1, InitIsTyped, InitIsFirstTurn
<1>2. Inv /\ [Next]_vars => Inv'
  BY NextKeepsType, NextKeepsTurn, NextKeepsArtifacts
<1>3. Inv => ArtifactsAgree
  OBVIOUS
<1> QED BY <1>1, <1>2, <1>3, PTL DEF Spec

-----------------------------------------------------------------------------
(* What a shipped worker has written *)

\* A header, and an answer to each of the first n - 1 cases, in order.
Answered(list, t, n) ==
  /\ Len(t) = n /\ t[1].kind = "header"
  /\ \A i \in 2..n : /\ t[i].kind = "result" /\ t[i].case = list[i - 1]
                     /\ t[i].status \in Statuses

\* A list it has begun, or not.
Progress(list, t, n) == (t = <<>> /\ n = 1) \/ Answered(list, t, n)

\* Each line is written in its turn; a torn line stays only in the file of a worker
\* that is destroyed; and a worker that says it is done is done, or was made to
\* say so in the middle of a case.
ShippedInv ==
  ~job.alien =>
    /\ Progress(assigned, wrote, next) /\ next <= Len(assigned) + 1
    /\ pc \in {"reading", "opening", "header"} => wrote = <<>> /\ next = 1
    /\ pc \in {"case", "writing", "spilled"} => Answered(assigned, wrote, next)
    /\ pc \in {"writing", "spilled"} =>
         /\ next <= Len(assigned) /\ line.kind = "result"
         /\ line.case = assigned[next] /\ line.status \in Statuses
    /\ opened /\ wrote = <<>> => Lines = <<>>
    /\ pc = "ended" /\ fate # "signal" /\ opened => Lines = wrote

LEMMA AnsweredOne ==
  ASSUME NEW list \in Seq(Cases), NEW t \in Seq(Line), NEW n \in Nat \ {0},
         Answered(list, t, n), NEW l \in Line, l.kind = "result", l.case = list[n],
         l.status \in Statuses
  PROVE  Answered(list, Append(t, l), n + 1)
<1> DEFINE u == Append(t, l)
<1>1. Len(u) = n + 1 /\ u[n + 1] = l /\ \A i \in 1..n : u[i] = t[i]
  BY AppendProperties DEF Answered
<1> HIDE DEF u
<1>2. u[1].kind = "header"
  BY <1>1 DEF Answered
<1>3. ASSUME NEW i \in 2..(n + 1)
      PROVE  u[i].kind = "result" /\ u[i].case = list[i - 1] /\ u[i].status \in Statuses
  <2>1. CASE i = n + 1
    BY <1>1, <2>1
  <2>2. CASE i # n + 1
    <3>1. i \in 2..n /\ u[i] = t[i]
      BY <1>1, <2>2
    <3> QED BY <3>1 DEF Answered
  <2> QED BY <2>1, <2>2
<1> QED BY <1>1, <1>2, <1>3 DEF Answered, u

\* A process that ends adds nothing; cleanly only where its file is complete.
LEMMA ExitKeepsShipped ==
  ASSUME TypeInv, FileInv, ShippedInv, UNCHANGED Given, Alive \/ pc = "ended",
         NEW how \in {"exit0", "exit1", "signal"}, Exit(how),
         how = "signal" \/ pc \in {"reading", "opening", "case"}
  PROVE  ShippedInv'
<1>1. /\ pc' = "ended" /\ fate' = how
      /\ UNCHANGED <<job, next, line, files, opened, wrote, assigned>>
  BY DEF Exit, Given
<1>2. Lines' = Lines
  BY <1>1 DEF Lines
<1>3. how # "signal" /\ opened => Lines = wrote
  BY DEF FileInv
<1>4. Progress(assigned, wrote, next)' = Progress(assigned, wrote, next)
  BY <1>1
<1> QED BY <1>1, <1>2, <1>3, <1>4 DEF ShippedInv

LEMMA WorkKeepsShipped ==
  ASSUME TypeInv, FileInv, ShippedInv, Work, UNCHANGED Given
  PROVE  ShippedInv'
<1>0. /\ UNCHANGED <<assigned, cuts, job>> /\ Lines \in Seq(Line) /\ wrote \in Seq(Line)
      /\ line \in Line /\ assigned \in Seq(Cases) /\ Len(assigned) \in Nat
      /\ next \in Nat \ {0} /\ Alive
  BY RunIsTyped, LinesAreLines, WorkIsAlive, LenProperties DEF TypeInv, TypeOK, Given
<1>1. CASE ReadCases
  <2>1. CASE Exit("exit1")
    BY <1>0, <1>1, <2>1, ExitKeepsShipped DEF ReadCases
  <2>2. CASE Goto("opening")
    BY <1>0, <1>1, <2>2 DEF Goto, ReadCases, ShippedInv, Lines
  <2> QED BY <1>1, <2>1, <2>2 DEF ReadCases
<1>2. CASE Open
  <2>1. CASE Exit("exit1")
    BY <1>0, <1>2, <2>1, ExitKeepsShipped DEF Open
  <2>2. CASE ~Exit("exit1")
    <3>1. /\ pc = "opening" /\ pc' = "header" /\ Put(<<>>)
          /\ UNCHANGED <<job, next, line, wrote, assigned>>
      BY <1>0, <1>2, <2>2 DEF Open
    <3>2. Lines' = <<>>
      BY <3>1, PutLines, EmptySeq
    <3> QED BY <3>1, <3>2 DEF ShippedInv
  <2> QED BY <2>1, <2>2
<1>3. CASE WriteHeader
  <2>1. /\ pc = "header" /\ pc' = "case" /\ ~job.alien
        /\ wrote' = Append(wrote, Header) /\ next' = next
    BY <1>3 DEF WriteHeader
  <2>2. wrote = <<>> /\ next = 1
    BY <2>1 DEF ShippedInv
  <2>3. Header \in Line /\ Header.kind = "header"
    BY TornIsLine DEF Header
  <2>4. Len(wrote') = 1 /\ wrote'[1] = Header /\ wrote' # <<>>
    BY <2>1, <2>2, <2>3, <1>0, AppendProperties, EmptySeq
  <2>5. Answered(assigned, wrote', 1)
    BY <2>3, <2>4 DEF Answered
  <2> QED BY <1>0, <2>1, <2>2, <2>4, <2>5 DEF ShippedInv, Progress
<1>4. CASE RunCase
  <2>1. /\ pc = "case" /\ pc' = "writing" /\ next <= Len(assigned) /\ ~job.alien
        /\ UNCHANGED <<job, next, files, opened, wrote, assigned>>
    BY <1>0, <1>4 DEF RunCase, OnCase
  <2>2. PICK s \in Statuses, whole \in {TRUE, ~cuts} :
               line' = Result(assigned[next], s, whole)
    BY <1>4, Zenon DEF RunCase
  <2>3. line'.kind = "result" /\ line'.case = assigned[next] /\ line'.status \in Statuses
    BY <2>2 DEF Result
  <2>4. Lines' = Lines
    BY <2>1 DEF Lines
  <2> QED BY <2>1, <2>3, <2>4 DEF ShippedInv
<1>5. CASE Spill
  <2>1. /\ pc = "writing" /\ pc' = "spilled"
        /\ UNCHANGED <<job, next, line, opened, wrote, assigned>>
    BY <1>0, <1>5 DEF Spill
  <2>2. ~job.alien => Len(wrote) = next
    BY <2>1 DEF ShippedInv, Answered
  <2>3. ~job.alien => wrote # <<>>
    BY <1>0, <2>2, EmptySeq
  <2> QED BY <2>1, <2>3 DEF ShippedInv
<1>6. CASE Flush
  <2>1. /\ pc \in {"writing", "spilled"} /\ pc' = "case" /\ next' = next + 1
        /\ wrote' = Append(wrote, line) /\ UNCHANGED <<job, opened, assigned>>
    BY <1>0, <1>6 DEF Flush
  <2>2. ~job.alien => Answered(assigned, wrote', next')
    BY <1>0, <2>1, AnsweredOne DEF ShippedInv
  <2>3. ~job.alien => next' <= Len(assigned) + 1
    BY <1>0, <2>1 DEF ShippedInv
  <2>4. wrote' # <<>>
    BY <1>0, <2>1, AppendProperties, EmptySeq
  <2> QED BY <2>1, <2>2, <2>3, <2>4 DEF ShippedInv, Progress
<1>7. CASE Return
  BY <1>0, <1>7, ExitKeepsShipped DEF Return
<1>8. CASE Quit
  BY <1>0, <1>8, ExitKeepsShipped DEF Quit, OnCase
<1>9. CASE Die
  BY <1>0, <1>9, ExitKeepsShipped DEF Die
<1>10. CASE Babble
  BY <1>0, <1>10 DEF Babble, ShippedInv
<1> QED BY <1>1, <1>2, <1>3, <1>4, <1>5, <1>6, <1>7, <1>8, <1>9, <1>10 DEF Work

LEMMA NextKeepsShipped ==
  ASSUME TypeInv, FileInv, ShippedInv, [Next]_vars
  PROVE  ShippedInv'
<1>1. CASE UNCHANGED <<procVars, assigned>>
  <2>1. UNCHANGED <<job, pc, next, line, files, fate, opened, wrote, assigned>>
        /\ Lines' = Lines
    BY <1>1 DEF procVars, Lines
  <2> QED BY <2>1 DEF ShippedInv
<1>2. CASE Spawn /\ UNCHANGED Given
  <2>1. CASE Abort
    BY <1>1, <1>2, <2>1 DEF Abort, Given
  <2>2. CASE Started("none") \/ Started("reading")
    <3>1. wrote' = <<>> /\ next' = 1 /\ ~opened' /\ pc' \in {"none", "reading"}
          /\ assigned' = assigned
      BY <1>2, <2>2 DEF Started, Given
    <3>2. Len(assigned) \in Nat
      BY RunIsTyped, LenProperties DEF TypeInv
    <3> QED BY <3>1, <3>2 DEF ShippedInv, Progress
  <2> QED BY <1>2, <2>1, <2>2 DEF Spawn
<1>3. CASE (Worker \/ KilledDies) /\ UNCHANGED Given
  BY <1>3, WorkKeepsShipped, ExitKeepsShipped DEF Worker, KilledDies
<1>4. CASE Next
  BY <1>1, <1>2, <1>3, <1>4 DEF Next, Supervisor, Prepare, Abort, Poll, Check, Wait,
     CollectResults, Publish, Clock, Stopped, Given
<1>5. CASE UNCHANGED vars
  BY <1>1, <1>5 DEF vars
<1> QED BY <1>4, <1>5

-----------------------------------------------------------------------------
(* What is made of it *)

LEMMA AnsweredShape ==
  ASSUME NEW list \in Seq(Cases), NEW t \in Seq(Line), NEW n \in Nat \ {0},
         n <= Len(list) + 1, Progress(list, t, n)
  PROVE  /\ \A i \in DOMAIN t : i \in 1..n /\ i \in Nat
         /\ \A i \in DOMAIN t : IF i = 1 THEN t[i].kind = "header"
              ELSE /\ i - 1 \in DOMAIN list /\ t[i].kind = "result"
                   /\ t[i].case = list[i - 1] /\ t[i].status \in Statuses
         /\ t # <<>> => DOMAIN t = 1..n
<1>0. Len(list) \in Nat /\ DOMAIN list = 1..Len(list)
  BY LenProperties
<1>1. CASE t = <<>> /\ n = 1
  <2>1. DOMAIN t = {}
    BY <1>1, EmptySeq
  <2> QED BY <1>1, <2>1
<1>2. CASE Answered(list, t, n)
  <2>1. DOMAIN t = 1..n
    BY <1>2, LenProperties DEF Answered
  <2>2. ASSUME NEW i \in 1..n, i # 1
        PROVE  i \in 2..n /\ i - 1 \in 1..Len(list)
    BY <1>0, <2>2
  <2> QED BY <1>0, <1>2, <2>1, <2>2 DEF Answered
<1> QED BY <1>1, <1>2 DEF Progress

\* The cases open are those from the one it is on to the last.
LEMMA OpenFromNext ==
  ASSUME NEW list \in Seq(Cases), Distinct(list), NEW t \in Seq(Line),
         NEW n \in Nat \ {0}, n <= Len(list) + 1, Progress(list, t, n)
  PROVE  /\ Holes(list, t) = {i \in DOMAIN list : n <= i}
         /\ Suspect(list, Holes(list, t)) = IF n > Len(list) THEN NoCase ELSE list[n]
<1>0. Len(list) \in Nat /\ DOMAIN list = 1..Len(list)
  BY LenProperties
<1>1. ASSUME NEW i \in DOMAIN list, n <= i
      PROVE  list[i] \notin Reported(t)
  <2> SUFFICES ASSUME NEW k \in ResultsIn(t), t[k].case = list[i]
               PROVE  FALSE
    BY DEF Reported
  <2>1. k \in DOMAIN t /\ t[k].kind = "result" /\ k # 1
    BY AnsweredShape DEF ResultsIn
  <2>2. k \in 1..n /\ k - 1 \in DOMAIN list /\ list[k - 1] = list[i]
    BY <2>1, AnsweredShape
  <2>3. k - 1 = i
    BY <2>2 DEF Distinct
  <2> QED BY <1>0, <1>1, <2>2, <2>3
<1>2. ASSUME NEW i \in DOMAIN list, i < n
      PROVE  list[i] \in Reported(t)
  <2>1. t # <<>> /\ DOMAIN t = 1..n
    BY <1>0, <1>2, AnsweredShape DEF Progress, Answered
  <2>2. i + 1 \in DOMAIN t /\ i + 1 # 1 /\ (i + 1) - 1 = i
    BY <1>0, <1>2, <2>1
  <2>3. t[i + 1].kind = "result" /\ t[i + 1].case = list[i]
    BY <2>2, AnsweredShape
  <2> QED BY <2>2, <2>3 DEF Reported, ResultsIn
<1>3. Holes(list, t) = {i \in DOMAIN list : n <= i}
  BY <1>0, <1>1, <1>2 DEF Holes
<1>4. CASE n > Len(list)
  <2>1. Holes(list, t) = {}
    BY <1>0, <1>3, <1>4
  <2> QED BY <1>3, <1>4, <2>1 DEF Suspect
<1>5. CASE ~(n > Len(list))
  <2>1. n \in Holes(list, t) /\ \A j \in Holes(list, t) : n <= j
    BY <1>0, <1>3, <1>5
  <2>2. Holes(list, t) \in SUBSET (DOMAIN list)
    BY DEF Holes
  <2> QED BY <1>3, <1>5, <2>1, <2>2, SuspectIsCase
<1> QED BY <1>3, <1>4, <1>5

\* No rule is broken but the two that a clean end breaks: a torn line left behind,
\* and cases left open.
LEMMA InnocentLines ==
  ASSUME NEW list \in Seq(Cases), Distinct(list), NEW t \in Seq(Line),
         NEW n \in Nat \ {0}, n <= Len(list) + 1, Progress(list, t, n),
         NEW u \in Seq(Line), u = t \/ (t # <<>> /\ TornAfter(t, u)),
         NEW ended, u = t \/ IsAbnormal(ended),
         NEW e \in ProtocolErrors, Broken(e, list, u, ended)
  PROVE  IsClean(ended) /\ n <= Len(list)
<1>1. /\ \A i \in DOMAIN t : i \in DOMAIN u /\ u[i] = t[i]
      /\ \A i \in DOMAIN u : i \in DOMAIN t
                              \/ (i = Len(u) /\ u[i].kind = "torn" /\ u # t)
      /\ u # <<>> => t # <<>>
  <2>1. CASE u = t
    BY <2>1
  <2>2. CASE t # <<>> /\ TornAfter(t, u)
    <3>1. PICK whole \in BOOLEAN : u = Append(t, Torn(whole))
      BY <2>2 DEF TornAfter
    <3>2. /\ Len(u) = Len(t) + 1 /\ u[Len(t) + 1] = Torn(whole)
          /\ \A i \in 1..Len(t) : u[i] = t[i]
      BY <3>1, TornIsLine, AppendProperties
    <3>3. /\ Len(t) \in Nat /\ DOMAIN t = 1..Len(t) /\ DOMAIN u = 1..Len(u)
          /\ Torn(whole).kind = "torn"
      BY LenProperties DEF Torn
    <3>4. u # t
      BY <3>2, <3>3
    <3> QED BY <2>2, <3>2, <3>3, <3>4
  <2> QED BY <2>1, <2>2
<1>2. ASSUME NEW i \in DOMAIN u
      PROVE  \/ i = 1 /\ u[i].kind = "header"
             \/ /\ i # 1 /\ i \in Nat /\ i - 1 \in DOMAIN list /\ u[i].kind = "result"
                /\ u[i].case = list[i - 1] /\ u[i].status \in Statuses
             \/ i = Len(u) /\ u[i].kind = "torn" /\ u # t
  <2>1. CASE i \in DOMAIN t
    BY <1>1, <2>1, AnsweredShape
  <2>2. CASE i \notin DOMAIN t
    BY <1>1, <2>2
  <2> QED BY <2>1, <2>2
<1>3. ASSUME NEW i \in ResultsIn(u)
      PROVE  /\ i - 1 \in DOMAIN list /\ i \in Nat
             /\ u[i].case = list[i - 1] /\ u[i].status \in Statuses
  BY <1>2, <1>3 DEF ResultsIn
<1>4. e # "unparseable"
  <2> SUFFICES ASSUME Unparseable(u, ended) PROVE FALSE
    BY DEF Broken
  <2>1. PICK i \in DOMAIN u : u[i].kind = "torn" /\ ~(i = Len(u) /\ IsAbnormal(ended))
    BY DEF Unparseable
  <2> QED BY <1>2, <2>1
<1>5. e # "no case"
  <2> SUFFICES ASSUME CaseMissing(u) PROVE FALSE
    BY DEF Broken
  <2> QED BY <1>2 DEF CaseMissing
<1>6. e # "no status"
  <2> SUFFICES ASSUME NEW i \in ResultsIn(u), u[i].status = "unknown" PROVE FALSE
    BY DEF Broken
  <2> QED BY <1>3 DEF Statuses
<1>7. e # "twice"
  <2> SUFFICES ASSUME NEW i \in ResultsIn(u), NEW j \in ResultsIn(u), i # j,
                      u[i].case = u[j].case
               PROVE  FALSE
    BY DEF Broken, ReportedTwice
  <2>1. i - 1 = j - 1 /\ i \in Nat /\ j \in Nat
    BY <1>3 DEF Distinct
  <2> QED BY <2>1
<1>8. e # "no header"
  <2> SUFFICES ASSUME u # <<>> PROVE HasHeader(u)
    BY DEF Broken
  <2>1. DOMAIN t = 1..n /\ 1 \in DOMAIN t
    BY <1>1, AnsweredShape
  <2> QED BY <1>1, <2>1, AnsweredShape DEF HasHeader
<1>9. e # "not assigned"
  <2> SUFFICES ASSUME NEW c \in Reported(u) PROVE \E i \in DOMAIN list : list[i] = c
    BY DEF Broken
  <2>1. PICK i \in ResultsIn(u) : u[i].case = c
    BY DEF Reported
  <2> QED BY <1>3, <2>1
<1>10. IsClean(ended) /\ Holes(list, u) # {}
  BY <1>4, <1>5, <1>6, <1>7, <1>8, <1>9 DEF Broken, ProtocolErrors
<1>11. u = t
  BY <1>10 DEF IsClean, IsAbnormal
<1>12. Holes(list, t) = {i \in DOMAIN list : n <= i}
  BY OpenFromNext
<1> QED BY <1>10, <1>11, <1>12, LenProperties

\* How the process is said to have ended.
TermInv ==
  phase = "collect" =>
    (term = "spawnFailed" /\ ~opened) \/ (pc = "ended" /\ term \in {fate, "timedOut"})

LEMMA NextKeepsTerm ==
  ASSUME TypeInv, TurnInv, TermInv, [Next]_vars
  PROVE  TermInv'
<1>1. CASE Worker \/ KilledDies
  <2>1. Alive /\ UNCHANGED runVars
    BY <1>1, WorkIsAlive DEF Worker, KilledDies
  <2>2. phase' # "collect"
    BY <2>1 DEF TurnInv, runVars
  <2> QED BY <2>2 DEF TermInv
<1>2. CASE Spawn
  BY <1>2 DEF Spawn, Abort, Started, TermInv
<1>3. CASE Prepare \/ Poll \/ Check \/ Wait \/ Publish \/ Clock \/ CollectResults
  BY <1>3 DEF Prepare, Abort, Poll, Check, Wait, Publish, Clock, CollectResults, TermInv,
     procVars
<1>4. CASE Stopped \/ UNCHANGED vars
  BY <1>4 DEF Stopped, vars, procVars, runVars, TermInv
<1> QED BY <1>1, <1>2, <1>3, <1>4 DEF Next, Supervisor

\* The report of a shipped worker that opened its file.
Fair(r, was) ==
  /\ IsAbnormal(r.term) => r.suspect = IF was.next > Len(assigned) THEN NoCase
                                       ELSE assigned[was.next]
  /\ r.errors # {} => r.term = "exit0" /\ was.next <= Len(assigned)

LEMMA CollectedIsFair ==
  ASSUME TypeInv, FileInv, ShippedInv, TermInv, phase = "collect", ~cuts, opened,
         ~job.alien, Distinct(assigned)
  PROVE  LET r == Collect(assigned, files[job.name], term)
         IN  /\ IsAbnormal(r.term) =>
                  r.suspect = IF next > Len(assigned) THEN NoCase ELSE assigned[next]
             /\ r.errors # {} => r.term = "exit0" /\ next <= Len(assigned)
<1>0. /\ assigned \in Seq(Cases) /\ wrote \in Seq(Line) /\ Lines \in Seq(Line)
      /\ next \in Nat \ {0} /\ next <= Len(assigned) + 1
      /\ Progress(assigned, wrote, next)
  BY RunIsTyped, LinesAreLines DEF TypeInv, TypeOK, ShippedInv
<1>1. Text(files[job.name]) = Lines
  BY DEF FileInv, Text, Readable, AllWhole, Lines
<1>2. Lines = wrote \/ (wrote # <<>> /\ TornAfter(wrote, Lines))
  BY DEF FileInv, ShippedInv
<1>3. Lines = wrote \/ IsAbnormal(term)
  BY DEF TermInv, ShippedInv, IsAbnormal
<1>4. Reported(Lines) = Reported(wrote)
  <2>1. CASE Lines = wrote
    BY <2>1
  <2>2. CASE TornAfter(wrote, Lines)
    <3>1. PICK whole \in BOOLEAN : Lines = Append(wrote, Torn(whole))
      BY <2>2 DEF TornAfter
    <3> QED BY <1>0, <3>1, TornAddsNothing
  <2> QED BY <1>2, <2>1, <2>2
<1>5. Suspect(assigned, Holes(assigned, Lines))
        = IF next > Len(assigned) THEN NoCase ELSE assigned[next]
  <2>1. Holes(assigned, Lines) = Holes(assigned, wrote)
    BY <1>4 DEF Holes
  <2> QED BY <1>0, <2>1, OpenFromNext
<1>6. ASSUME NEW e \in ProtocolErrors, Broken(e, assigned, Lines, term)
      PROVE  IsClean(term) /\ next <= Len(assigned)
  BY <1>0, <1>2, <1>3, <1>6, InnocentLines, Zenon
<1> DEFINE r == Collect(assigned, files[job.name], term)
<1>7. /\ r.term = term /\ r.suspect = Suspect(assigned, Holes(assigned, Lines))
      /\ r.errors = {e \in ProtocolErrors : Broken(e, assigned, Lines, term)}
  BY <1>1 DEF Collect
<1> HIDE DEF r
<1> QED BY <1>5, <1>6, <1>7 DEF IsClean, r

\* Every report so far.
FairInv ==
  /\ Len(past) = Len(reports)
  /\ \A w \in DOMAIN reports :
       ~cuts /\ past[w].opened /\ ~crew[w].alien /\ Distinct(assigned)
         => Fair(reports[w], past[w])

AttributionInv ==
  TypeInv /\ FileInv /\ TurnInv /\ ShippedInv /\ TermInv /\ FairInv

LEMMA NextKeepsFair ==
  ASSUME AttributionInv, [Next]_vars
  PROVE  FairInv'
<1> USE DEF AttributionInv
<1>1. CASE UNCHANGED <<reports, past, crew, cuts, assigned>>
  BY <1>1 DEF FairInv, Fair
<1>2. CASE CollectResults /\ UNCHANGED Given
  <2> DEFINE record == [opened |-> opened, wrote |-> wrote, next |-> next]
             All == [opened : BOOLEAN, wrote : Seq(Line), next : Nat \ {0}]
  <2>1. past \in Seq(All) /\ record \in All /\ past' = Append(past, record)
    BY <1>2 DEF TypeInv, TypeOK, CollectResults
  <2>2. /\ Len(past') = Len(past) + 1 /\ past'[Len(past) + 1] = record
        /\ \A w \in 1..Len(past) : past'[w] = past[w]
    <3> HIDE DEF record, All
    <3> QED BY <2>1, AppendProperties, LenProperties
  <2>3. Len(past) = Len(reports) /\ Len(reports') = Len(reports) + 1
        /\ job = crew[Len(reports) + 1] /\ phase = "collect"
        /\ UNCHANGED <<crew, cuts, assigned>>
    BY <1>2, CollectTakesTurn DEF FairInv, Given, CollectResults
  <2>4. ASSUME NEW w \in DOMAIN reports', ~cuts, past'[w].opened, ~crew[w].alien,
               Distinct(assigned)
        PROVE  Fair(reports'[w], past'[w])
    <3>1. CASE w \in DOMAIN reports
      <4>1. past'[w] = past[w] /\ reports'[w] = reports[w]
        BY <1>2, <2>2, <2>3, <3>1, ReportAdded
      <4> QED BY <2>4, <3>1, <4>1 DEF FairInv
    <3>2. CASE w = Len(reports) + 1
      <4>1. /\ past'[w].opened = opened /\ past'[w].next = next
            /\ reports'[w] = Collect(assigned, files[job.name], term)
        BY <1>2, <2>2, <2>3, <3>2, ReportAdded
      <4> QED BY <2>3, <2>4, <3>2, <4>1, CollectedIsFair DEF Fair
    <3> QED BY <1>2, <2>4, <3>1, <3>2, ReportAdded
  <2>5. Len(past') = Len(reports')
    BY <2>2, <2>3
  <2> HIDE DEF record, All
  <2> QED BY <2>3, <2>4, <2>5 DEF FairInv, Fair
<1>3. UNCHANGED <<reports, past, crew, cuts, assigned>>
        \/ (CollectResults /\ UNCHANGED Given)
  BY DEF Next, Supervisor, Given, vars, runVars, Prepare, Abort, Spawn, Started, Poll,
         Check, Wait, Publish, Worker, Clock, KilledDies, Stopped
<1> QED BY <1>1, <1>2, <1>3

LEMMA AttributionHolds == Spec => []AttributionInv
<1>1. Init => AttributionInv
  <2> SUFFICES ASSUME Init PROVE FileInv /\ ShippedInv /\ TermInv /\ FairInv
    BY InitIsTyped, InitIsFirstTurn DEF AttributionInv
  <2>1. /\ pc = "none" /\ ~opened /\ wrote = <<>> /\ next = 1
        /\ reports = <<>> /\ past = <<>> /\ phase = "prepare"
    BY DEF Init
  <2>2. Len(assigned) \in Nat
    BY InitIsTyped, RunIsTyped, LenProperties DEF TypeInv
  <2>3. FileInv
    BY <2>1 DEF FileInv
  <2>4. ShippedInv
    BY <2>1, <2>2 DEF ShippedInv, Progress
  <2>5. TermInv
    BY <2>1 DEF TermInv
  <2>6. FairInv
    BY <2>1, EmptySeq DEF FairInv
  <2> QED BY <2>3, <2>4, <2>5, <2>6
<1>2. AttributionInv /\ [Next]_vars => AttributionInv'
  BY NextKeepsType, NextKeepsFile, NextKeepsTurn, NextKeepsShipped, NextKeepsTerm,
     NextKeepsFair DEF AttributionInv
<1> QED BY <1>1, <1>2, PTL DEF Spec

\* For every list without repetition, every crew and every moment of death: the
\* case named for a shipped worker that was destroyed, or killed when its time was
\* up, is the first one it had not answered.
THEOREM TheRightCaseIsNamed == Spec => []SuspectWasNext
<1>1. AttributionInv => SuspectWasNext
  BY DEF AttributionInv, FairInv, Fair, SuspectWasNext
<1> QED BY <1>1, AttributionHolds, PTL

\* And no protocol error is held against a shipped worker unless it exited with 0
\* before it had answered everything.
THEOREM NoOneIsBlamedForDying == Spec => []BlameDeserved
<1>1. AttributionInv => BlameDeserved
  BY DEF AttributionInv, FairInv, Fair, BlameDeserved
<1> QED BY <1>1, AttributionHolds, PTL

-----------------------------------------------------------------------------
(* A run keeps its accounts: Coordinator.tla implements Accounting.tla *)

Watched == phase \in {"poll", "check", "wait", "collect", "abandoned"}

\* What the first n workers' reports, and the answers of the one watched, come to.
Stages(n, watched) ==
  [w \in 1..Len(crew) |-> IF w <= n THEN "closed"
                          ELSE IF w = n + 1 /\ watched THEN "running" ELSE "waiting"]
Answers(n, watched, closed, mine) ==
  [w \in 1..Len(crew) |-> IF w <= n THEN closed[w].reported
                          ELSE IF w = n + 1 /\ watched THEN mine ELSE {}]

\* In a run with nothing left over, a worker that has not opened its file has none.
UnopenedIsEmpty ==
  Clean => \A w \in DOMAIN crew :
    \/ w > cur
    \/ w = cur /\ phase \in {"prepare", "spawn"}
    \/ w = cur /\ Watched /\ ~opened
    => files[crew[w].name] = NoFile

AccountInv == Len(reports) <= cur /\ UnopenedIsEmpty

AccountsRight ==
  /\ Clean => /\ StateOf = Stages(Len(reports), Watched)
              /\ DoneOf = Answers(Len(reports), Watched, reports, Reported(wrote))
  /\ ~Clean => /\ StateOf = [w \in 1..Len(crew) |-> "waiting"]
               /\ DoneOf = [w \in 1..Len(crew) |-> {}]

LEMMA AccountsAre == TypeInv /\ TurnInv /\ AccountInv => AccountsRight
<1> SUFFICES ASSUME TypeInv, TurnInv, AccountInv PROVE AccountsRight
  OBVIOUS
<1>1. /\ cur \in 1..Len(crew) /\ Len(crew) \in Nat /\ Len(reports) \in Nat
      /\ DOMAIN crew = 1..Len(crew) /\ DOMAIN reports = 1..Len(reports)
      /\ Watched => Len(reports) = cur - 1
      /\ Len(reports) <= cur /\ Len(reports) <= Len(crew)
  BY CrewIsCounted DEF AccountInv, TurnInv, Watched
<1>2. Watched <=> phase \in {"poll", "check", "wait", "collect", "abandoned"}
  BY DEF Watched
<1>3. CASE Clean
  <2>1. ASSUME NEW w \in 1..Len(crew)
        PROVE  StateOf[w] = Stages(Len(reports), Watched)[w]
    BY <1>1, <1>2, <1>3, <2>1 DEF StateOf, Stages
  <2>2. StateOf = Stages(Len(reports), Watched)
    BY <1>1, <2>1 DEF StateOf, Stages
  <2>3. ASSUME NEW w \in 1..Len(crew)
        PROVE  DoneOf[w] = Answers(Len(reports), Watched, reports, Reported(wrote))[w]
    <3>1. StateOf[w] = IF w <= Len(reports) THEN "closed"
                       ELSE IF w = Len(reports) + 1 /\ Watched THEN "running" ELSE "waiting"
      BY <2>2 DEF Stages
    <3>2. DoneOf[w] = IF StateOf[w] = "waiting" THEN {}
                      ELSE IF StateOf[w] = "running" THEN Reported(wrote)
                      ELSE reports[w].reported
      BY <1>1 DEF DoneOf
    <3> QED BY <1>1, <3>1, <3>2 DEF Answers
  <2>4. DoneOf = Answers(Len(reports), Watched, reports, Reported(wrote))
    BY <1>1, <2>3 DEF DoneOf, Answers
  <2> QED BY <1>3, <2>2, <2>4 DEF AccountsRight
<1>4. CASE ~Clean
  <2>1. StateOf = [w \in 1..Len(crew) |-> "waiting"]
    BY <1>1, <1>4 DEF StateOf
  <2>2. DoneOf = [w \in 1..Len(crew) |-> {}]
    BY <1>1, <2>1 DEF DoneOf
  <2> QED BY <1>4, <2>1, <2>2 DEF AccountsRight
<1> QED BY <1>3, <1>4

LEMMA InitKeepsAccounts ==
  ASSUME Init
  PROVE  AccountInv /\ Accounts!Init
<1>1. TypeInv /\ TurnInv
  BY InitIsTyped, InitIsFirstTurn
<1>2. /\ reports = <<>> /\ phase = "prepare" /\ cur = 1
      /\ fresh = (\A n \in Names(crew) : files[n] = NoFile)
  BY DEF Init
<1>3. AccountInv
  BY <1>2, EmptySeq DEF AccountInv, UnopenedIsEmpty, Clean, Names
<1>4. Len(crew) \in Nat /\ Len(reports) = 0
  BY <1>1, <1>2, CrewIsCounted
<1>5. StateOf = [w \in 1..Len(crew) |-> "waiting"] /\ DoneOf = [w \in 1..Len(crew) |-> {}]
  <2>1. ~Watched
    BY <1>2 DEF Watched
  <2>2. /\ Stages(0, Watched) = [w \in 1..Len(crew) |-> "waiting"]
        /\ Answers(0, Watched, reports, Reported(wrote)) = [w \in 1..Len(crew) |-> {}]
    BY <1>4, <2>1 DEF Stages, Answers
  <2> QED BY <1>1, <1>3, <1>4, <2>2, AccountsAre DEF AccountsRight
<1> QED BY <1>3, <1>4, <1>5 DEF Accounts!Init

\* A line completed is an answer, or says nothing of a case.
LEMMA LineAnswers ==
  ASSUME NEW t \in Seq(Line), NEW l \in Line
  PROVE  \/ Reported(Append(t, l)) = Reported(t)
         \/ l.case \in Cases /\ Reported(Append(t, l)) = Reported(t) \cup {l.case}
<1> DEFINE u == Append(t, l)
           n == Len(t)
<1>1. /\ DOMAIN u = 1..(n + 1) /\ DOMAIN t = 1..n /\ n \in Nat /\ u[n + 1] = l
      /\ \A i \in 1..n : u[i] = t[i]
  BY AppendProperties, LenProperties
<1> HIDE DEF u, n
<1>2. CASE l.kind = "result"
  <2>1. ResultsIn(u) = ResultsIn(t) \cup {n + 1} /\ ResultsIn(t) \subseteq 1..n
    BY <1>1, <1>2 DEF ResultsIn
  <2>2. Reported(u) = Reported(t) \cup {l.case}
    BY <1>1, <2>1 DEF Reported
  <2> QED BY <1>2, <2>2 DEF u, Line
<1>3. CASE l.kind # "result"
  <2>1. ResultsIn(u) = ResultsIn(t) /\ ResultsIn(t) \subseteq 1..n
    BY <1>1, <1>3 DEF ResultsIn
  <2>2. Reported(u) = Reported(t)
    BY <1>1, <2>1 DEF Reported
  <2> QED BY <2>2 DEF u
<1> QED BY <1>2, <1>3

LEMMA CleanStays ==
  ASSUME [Next]_vars
  PROVE  /\ Clean' <=> Clean
         /\ UNCHANGED <<crew, fresh, cuts, assigned>>
<1>1. UNCHANGED <<crew, fresh, cuts, assigned>>
  BY DEF Next, Supervisor, Given, vars, runVars, Prepare, Abort, Spawn, Started, Poll,
         Check, Wait, CollectResults, Publish, Worker, Clock, KilledDies, Stopped
<1> QED BY <1>1 DEF Clean

\* A worker opens its file or leaves it as it is.
LEMMA UnopenedWritesNothing ==
  ASSUME FileInv, Work, ~opened'
  PROVE  UNCHANGED files
BY Zenon DEF Work, ReadCases, Open, WriteHeader, RunCase, Spill, Flush, Return, Quit,
       Die, Babble, Exit, Goto, OnCase, FileInv

LEMMA NextKeepsAccounts ==
  ASSUME TypeInv, FileInv, TurnInv, AccountInv, [Next]_vars
  PROVE  AccountInv'
<1>0. /\ cur \in 1..Len(crew) /\ Len(crew) \in Nat /\ Len(reports) \in Nat
      /\ DOMAIN crew = 1..Len(crew) /\ (Clean' <=> Clean) /\ UNCHANGED crew
  BY CrewIsCounted, CleanStays
<1>1. CASE Worker \/ KilledDies
  <2>1. /\ Work /\ Alive /\ UNCHANGED <<phase, cur, reports, job>>
    BY <1>1, WorkIsAlive DEF Worker, KilledDies, runVars, Work, Die
  <2>2. /\ phase \in {"poll", "check", "wait", "abandoned"} /\ job = crew[cur]
        /\ Watched /\ Watched'
    BY <2>1 DEF TurnInv, Watched
  <2>3. ASSUME Clean, NEW w \in DOMAIN crew, w > cur \/ (w = cur /\ ~opened')
        PROVE  files'[crew[w].name] = NoFile
    <3>1. CASE w > cur
      <4>1. crew[w].name # job.name /\ crew[w].name \in Names(crew)
        BY <1>0, <2>2, <2>3, <3>1 DEF Clean, Names
      <4>2. files'[crew[w].name] = files[crew[w].name]
        BY <2>1, <4>1, OthersFilesAreSafe
      <4> QED BY <2>3, <3>1, <4>2 DEF AccountInv, UnopenedIsEmpty
    <3>2. CASE w = cur /\ ~opened'
      <4>1. UNCHANGED files /\ ~opened
        <5>1. UNCHANGED files
          BY <2>1, <3>2, UnopenedWritesNothing
        <5>2. opened => opened'
          BY <2>1 DEF Work, ReadCases, Open, WriteHeader, RunCase, Spill, Flush, Return,
             Quit, Die, Babble, Exit, Goto
        <5> QED BY <3>2, <5>1, <5>2
      <4> QED BY <2>2, <2>3, <3>2, <4>1 DEF AccountInv, UnopenedIsEmpty
    <3> QED BY <2>3, <3>1, <3>2
  <2>4. UnopenedIsEmpty'
    BY <1>0, <2>1, <2>2, <2>3 DEF UnopenedIsEmpty
  <2> QED BY <2>1, <2>4 DEF AccountInv
<1>2. CASE CollectResults
  <2>1. Len(reports') = cur /\ UNCHANGED files
        /\ ((cur' = cur + 1 /\ phase' = "spawn") \/ (cur' = cur /\ phase' = "publish"))
    BY <1>2, CollectTakesTurn DEF CollectResults, procVars
  <2>2. UnopenedIsEmpty'
    BY <1>0, <2>1 DEF UnopenedIsEmpty, AccountInv, Watched
  <2> QED BY <1>0, <2>1, <2>2 DEF AccountInv
<1>3. CASE Spawn
  <2>1. UNCHANGED <<files, cur, reports>> /\ phase = "spawn"
    BY <1>3 DEF Spawn, Abort, Started, procVars
  <2>2. UnopenedIsEmpty'
    BY <1>0, <2>1 DEF UnopenedIsEmpty, AccountInv, Watched
  <2> QED BY <2>1, <2>2 DEF AccountInv
<1>4. CASE Prepare \/ Poll \/ Check \/ Wait \/ Publish \/ Clock \/ Stopped \/ UNCHANGED vars
  <2>1. UNCHANGED <<files, opened, cur, reports>>
    BY <1>4 DEF Prepare, Abort, Poll, Check, Wait, Publish, Clock, Stopped, vars,
       procVars, runVars
  <2>2. Watched' => Watched
    BY <1>4 DEF Prepare, Abort, Poll, Check, Wait, Publish, Clock, Stopped, vars,
       procVars, runVars, Watched
  <2>3. phase' \in {"prepare", "spawn"} => phase \in {"prepare", "spawn"}
    BY <1>4 DEF Prepare, Abort, Poll, Check, Wait, Publish, Clock, Stopped, vars,
       procVars, runVars
  <2>4. UnopenedIsEmpty'
    BY <1>0, <2>1, <2>2, <2>3 DEF UnopenedIsEmpty, AccountInv
  <2> QED BY <2>1, <2>4 DEF AccountInv
<1> QED BY <1>1, <1>2, <1>3, <1>4 DEF Next, Supervisor

LEMMA AccountsWillBe == (TypeInv /\ TurnInv /\ AccountInv)' => AccountsRight'
BY AccountsAre, PTL

\* What one account being opened, added to, or closed does to all of them.
LEMMA AccountsTurn ==
  ASSUME NEW n \in Nat, Len(crew) \in Nat, n + 1 \in 1..Len(crew)
  PROVE  /\ Stages(n, TRUE) = [Stages(n, FALSE) EXCEPT ![n + 1] = "running"]
         /\ Stages(n + 1, FALSE) = [Stages(n, TRUE) EXCEPT ![n + 1] = "closed"]
         /\ Stages(n, FALSE)[n + 1] = "waiting" /\ Stages(n, TRUE)[n + 1] = "running"
         /\ \A v \in 1..n : Stages(n, FALSE)[v] = "closed"
<1>1. Stages(n, TRUE) = [Stages(n, FALSE) EXCEPT ![n + 1] = "running"]
  <2> DEFINE old == Stages(n, FALSE)
             new == Stages(n, TRUE)
  <2>1. /\ old = [w \in 1..Len(crew) |-> old[w]] /\ new = [w \in 1..Len(crew) |-> new[w]]
        /\ \A w \in 1..Len(crew) : new[w] = IF w = n + 1 THEN "running" ELSE old[w]
    BY DEF Stages
  <2> HIDE DEF old, new
  <2>2. new = [old EXCEPT ![n + 1] = "running"]
    BY <2>1
  <2> QED BY <2>2 DEF old, new
<1>2. Stages(n + 1, FALSE) = [Stages(n, TRUE) EXCEPT ![n + 1] = "closed"]
  <2> DEFINE old == Stages(n, TRUE)
             new == Stages(n + 1, FALSE)
  <2>1. /\ old = [w \in 1..Len(crew) |-> old[w]] /\ new = [w \in 1..Len(crew) |-> new[w]]
        /\ \A w \in 1..Len(crew) : new[w] = IF w = n + 1 THEN "closed" ELSE old[w]
    BY DEF Stages
  <2> HIDE DEF old, new
  <2>2. new = [old EXCEPT ![n + 1] = "closed"]
    BY <2>1
  <2> QED BY <2>2 DEF old, new
<1>3. Stages(n, FALSE)[n + 1] = "waiting" /\ Stages(n, TRUE)[n + 1] = "running"
      /\ \A v \in 1..n : Stages(n, FALSE)[v] = "closed"
  BY DEF Stages
<1> QED BY <1>1, <1>2, <1>3

AccountsInv == TypeInv /\ FileInv /\ TurnInv /\ AccountInv

\* What the report of the worker at hand lists as answered is what it answered.
LEMMA ClosedAsAnswered ==
  ASSUME AccountsInv, Clean, phase = "collect"
  PROVE  Collect(assigned, files[job.name], term).reported = Reported(wrote)
<1>1. ~cuts /\ job = crew[cur] /\ cur \in DOMAIN crew /\ Watched
  BY CrewIsCounted DEF AccountsInv, TurnInv, Clean, Watched
<1>2. CASE opened
  BY <1>1, <1>2, CollectedIsFaithful DEF AccountsInv, Faithful
<1>3. CASE ~opened
  <2>1. files[job.name] = NoFile
    BY <1>1, <1>3 DEF AccountsInv, AccountInv, UnopenedIsEmpty
  <2>2. wrote = <<>>
    BY <1>3 DEF AccountsInv, FileInv
  <2>3. Text(NoFile) = <<>>
    BY DEF Text, Readable, NoFile
  <2> QED BY <2>1, <2>2, <2>3 DEF Collect
<1> QED BY <1>2, <1>3

LEMMA StepKeepsAccounts ==
  ASSUME AccountsInv, AccountsInv', [Next]_vars
  PROVE  [Accounts!Next]_(Accounts!vars)
<1> USE DEF AccountsInv
<1> DEFINE n == Len(reports)
<1>0. /\ cur \in 1..Len(crew) /\ Len(crew) \in Nat /\ n \in Nat
      /\ DOMAIN crew = 1..Len(crew) /\ (Clean' <=> Clean) /\ crew' = crew
      /\ AccountsRight /\ AccountsRight'
  BY CrewIsCounted, CleanStays, AccountsAre, AccountsWillBe
<1>1. CASE ~Clean
  <2>1. StateOf' = StateOf /\ DoneOf' = DoneOf
    BY <1>0, <1>1 DEF AccountsRight
  <2> QED BY <1>0, <2>1 DEF Accounts!vars
<1>2. CASE Clean /\ UNCHANGED <<reports, wrote>> /\ (Watched' <=> Watched)
  <2>1. Stages(n, Watched)' = Stages(n, Watched)
    BY <1>0, <1>2 DEF Stages
  <2>2. Answers(n, Watched, reports, Reported(wrote))'
          = Answers(n, Watched, reports, Reported(wrote))
    BY <1>0, <1>2 DEF Answers
  <2>3. StateOf' = StateOf /\ DoneOf' = DoneOf
    BY <1>0, <1>2, <2>1, <2>2 DEF AccountsRight
  <2> QED BY <1>0, <2>3 DEF Accounts!vars
<1>3. CASE Clean /\ Worker
  <2>1. Work /\ UNCHANGED <<phase, cur, reports>> /\ Alive
    BY <1>3, WorkIsAlive DEF Worker, runVars
  <2>2. Watched /\ (Watched' <=> Watched) /\ n + 1 \in 1..Len(crew)
    BY <1>0, <2>1 DEF Watched, TurnInv
  <2>3. wrote' = wrote \/ \E l \in Line : wrote' = Append(wrote, l)
    <3>1. line \in Line /\ Header \in Line /\ AlienLines \subseteq Line
      BY LinesAssumption, TornIsLine DEF TypeInv, TypeOK
    <3>2. CASE WriteHeader
      BY <3>1, <3>2 DEF WriteHeader
    <3>3. CASE Flush
      BY <3>1, <3>3 DEF Flush
    <3>4. CASE Babble
      BY <3>1, <3>4 DEF Babble
    <3>5. CASE ReadCases \/ Open \/ RunCase \/ Spill \/ Return \/ Quit \/ Die
      BY <3>5 DEF ReadCases, Open, RunCase, Spill, Return, Quit, Die, Exit, Goto
    <3> QED BY <2>1, <3>2, <3>3, <3>4, <3>5 DEF Work
  <2>4. CASE Reported(wrote') = Reported(wrote)
    <3>1. StateOf' = StateOf /\ DoneOf' = DoneOf
      BY <1>0, <1>3, <2>1, <2>2, <2>4 DEF AccountsRight, Stages, Answers
    <3> QED BY <1>0, <3>1 DEF Accounts!vars
  <2>5. CASE Reported(wrote') # Reported(wrote)
    <3>1. PICK c \in Cases : Reported(wrote') = Reported(wrote) \cup {c}
      <4>1. PICK l \in Line : wrote' = Append(wrote, l)
        BY <2>3, <2>5
      <4>2. wrote \in Seq(Line)
        BY DEF TypeInv, TypeOK
      <4> QED BY <2>5, <4>1, <4>2, LineAnswers
    <3>2. c \notin Reported(wrote)
      BY <2>5, <3>1
    <3> DEFINE mine == Reported(wrote)
               more == Reported(wrote')
    <3>3. /\ StateOf = Stages(n, TRUE) /\ StateOf' = StateOf
          /\ DoneOf = Answers(n, TRUE, reports, mine)
      BY <1>0, <1>3, <2>1, <2>2 DEF AccountsRight, Stages
    <3>4. DoneOf' = Answers(n, TRUE, reports, more)
      BY <1>0, <1>3, <2>1, <2>2 DEF AccountsRight, Answers
    <3> HIDE DEF n, mine, more
    <3>5. /\ StateOf[n + 1] = "running" /\ DoneOf[n + 1] = mine
          /\ DoneOf' = [DoneOf EXCEPT ![n + 1] = more]
      <4>1. /\ Stages(n, TRUE)[n + 1] = "running"
        BY <1>0, <2>2, AccountsTurn
      <4> DEFINE old == Answers(n, TRUE, reports, mine)
                 new == Answers(n, TRUE, reports, more)
      <4>2. /\ old = [w \in 1..Len(crew) |-> old[w]] /\ new = [w \in 1..Len(crew) |-> new[w]]
            /\ \A w \in 1..Len(crew) : new[w] = IF w = n + 1 THEN more ELSE old[w]
            /\ old[n + 1] = mine
        BY <1>0, <2>2 DEF Answers
      <4>3. DoneOf = old /\ DoneOf' = new
        BY <3>3, <3>4
      <4> HIDE DEF old, new
      <4>4. new = [old EXCEPT ![n + 1] = more]
        BY <4>2
      <4> QED BY <3>3, <4>1, <4>2, <4>3, <4>4
    <3>6. Accounts!Answer(n + 1, c)
      <4>1. more = mine \cup {c} /\ c \notin mine
        BY <3>1, <3>2 DEF mine, more
      <4>2. DoneOf' = [DoneOf EXCEPT ![n + 1] = DoneOf[n + 1] \cup {c}]
        BY <3>5, <4>1
      <4>3. StateOf' = StateOf /\ Len(crew') = Len(crew) /\ c \notin DoneOf[n + 1]
        BY <1>0, <3>3, <3>5, <4>1
      <4> QED BY <3>5, <4>1, <4>2, <4>3 DEF Accounts!Answer
    <3> QED BY <2>2, <3>6 DEF Accounts!Next
  <2> QED BY <2>4, <2>5
<1>4. CASE Clean /\ Spawn
  <2>1. UNCHANGED reports /\ phase = "spawn" /\ ~Watched /\ n + 1 = cur
    BY <1>0, <1>4 DEF Spawn, Abort, Started, Watched, TurnInv
  <2>2. CASE Abort
    <3>1. ~Watched' /\ wrote' = wrote
      BY <2>2 DEF Abort, Watched, procVars
    <3> QED BY <1>2, <1>4, <2>1, <3>1
  <2>3. CASE wrote' = <<>> /\ phase' \in {"collect", "poll"}
    <3>1. Watched' /\ Reported(wrote') = {}
      <4>1. Reported(<<>>) = {}
        BY EmptySeq DEF Reported, ResultsIn
      <4> QED BY <2>3, <4>1 DEF Watched
    <3> DEFINE mine == Reported(wrote)
    <3>2. StateOf = Stages(n, FALSE) /\ DoneOf = Answers(n, FALSE, reports, mine)
      BY <1>0, <1>4, <2>1 DEF AccountsRight, Stages, Answers
    <3>3. StateOf' = Stages(n, TRUE) /\ DoneOf' = Answers(n, TRUE, reports, {})
      BY <1>0, <1>4, <2>1, <3>1 DEF AccountsRight, Stages, Answers
    <3> HIDE DEF n, mine
    <3>4. /\ StateOf' = [StateOf EXCEPT ![n + 1] = "running"] /\ DoneOf' = DoneOf
          /\ StateOf[n + 1] = "waiting" /\ \A v \in 1..n : StateOf[v] = "closed"
      <4>1. /\ Stages(n, TRUE) = [Stages(n, FALSE) EXCEPT ![n + 1] = "running"]
            /\ Stages(n, FALSE)[n + 1] = "waiting"
            /\ \A v \in 1..n : Stages(n, FALSE)[v] = "closed"
        BY <1>0, <2>1, AccountsTurn
      <4>2. Answers(n, TRUE, reports, {}) = Answers(n, FALSE, reports, mine)
        BY <1>0, <2>1 DEF Answers
      <4> QED BY <3>2, <3>3, <4>1, <4>2
    <3>5. Accounts!Begin(n + 1)
      BY <1>0, <3>4 DEF Accounts!Begin, Accounts!Becomes
    <3> QED BY <1>0, <2>1, <3>5 DEF Accounts!Next
  <2> QED BY <1>4, <2>2, <2>3 DEF Spawn, Started
<1>5. CASE Clean /\ CollectResults
  <2>1. phase = "collect" /\ n + 1 = cur /\ Watched /\ ~Watched' /\ Len(reports') = n + 1
    BY <1>0, <1>5, CollectTakesTurn DEF CollectResults, TurnInv, Watched
  <2> DEFINE mine == Reported(wrote)
  <2>2. (\A w \in 1..n : reports'[w] = reports[w]) /\ reports'[n + 1].reported = mine
    BY <1>5, <2>1, ReportAdded, ClosedAsAnswered
  <2>3. StateOf = Stages(n, TRUE) /\ DoneOf = Answers(n, TRUE, reports, mine)
    BY <1>0, <1>5, <2>1 DEF AccountsRight
  <2>4. StateOf' = Stages(n + 1, FALSE)
    BY <1>0, <1>5, <2>1 DEF AccountsRight, Stages
  <2>5. DoneOf' = Answers(n + 1, FALSE, reports', mine)
    BY <1>0, <1>5, <2>1 DEF AccountsRight, Answers
  <2> HIDE DEF n, mine
  <2>6. /\ StateOf' = [StateOf EXCEPT ![n + 1] = "closed"] /\ DoneOf' = DoneOf
        /\ StateOf[n + 1] = "running"
    <3>1. Answers(n + 1, FALSE, reports', mine) = Answers(n, TRUE, reports, mine)
      BY <1>0, <2>1, <2>2 DEF Answers
    <3>2. /\ Stages(n + 1, FALSE) = [Stages(n, TRUE) EXCEPT ![n + 1] = "closed"]
          /\ Stages(n, TRUE)[n + 1] = "running"
      BY <1>0, <2>1, AccountsTurn
    <3> QED BY <2>3, <2>4, <2>5, <3>1, <3>2
  <2>7. Accounts!Close(n + 1)
    BY <1>0, <2>6 DEF Accounts!Close, Accounts!Becomes
  <2> QED BY <1>0, <2>1, <2>7 DEF Accounts!Next
<1>6. CASE Clean /\ (\/ Prepare \/ Poll \/ Check \/ Wait \/ Publish \/ Clock \/ KilledDies
                     \/ Stopped \/ UNCHANGED vars)
  <2>1. UNCHANGED <<reports, wrote>> /\ (Watched' <=> Watched)
    BY <1>6 DEF Prepare, Abort, Poll, Check, Wait, Publish, Clock, KilledDies, Exit,
       Stopped, vars, procVars, runVars, Watched
  <2> QED BY <1>2, <1>6, <2>1
<1> QED BY <1>1, <1>3, <1>4, <1>5, <1>6 DEF Next, Supervisor

\* Whatever the workers do and however they end: one is watched at a time, no answer
\* one of them completed is lost between its file and its report, and a report once
\* made is not changed.
THEOREM ARunKeepsItsAccounts == Spec => FollowsAccounting
<1>1. Init => AccountsInv /\ Accounts!Init
  BY InitIsTyped, InitIsFirstTurn, InitKeepsAccounts DEF AccountsInv, Init, FileInv
<1>2. AccountsInv /\ [Next]_vars => AccountsInv'
  BY NextKeepsType, NextKeepsFile, NextKeepsTurn, NextKeepsAccounts DEF AccountsInv
<1>3. AccountsInv /\ AccountsInv' /\ [Next]_vars => [Accounts!Next]_(Accounts!vars)
  BY StepKeepsAccounts
<1> QED BY <1>1, <1>2, <1>3, PTL DEF Spec, FollowsAccounting, Accounts!Spec
=============================================================================
