--------------------------- MODULE CoordinatorProofs --------------------------
(***************************************************************************)
(* Theorems about Coordinator.tla for every list of cases, every crew of   *)
(* workers, whatever they write and whenever they die.                     *)
(***************************************************************************)
EXTENDS Coordinator, FiniteSetTheorems, SequenceTheorems, TLAPS

-----------------------------------------------------------------------------
(* What Collection.tla makes of a list of cases and a file. *)

LEMMA TornIsLine ==
  ASSUME NEW whole \in BOOLEAN
  PROVE  Torn(whole) \in Line /\ Header \in Line
BY DEF Torn, Header, Line, NoCase

LEMMA TextIsLines ==
  ASSUME NEW f \in File
  PROVE  Text(f) \in Seq(Line)
BY EmptySeq DEF Text, File

LEMMA ResultsAreFinite ==
  ASSUME NEW t \in Seq(Line)
  PROVE  /\ IsFiniteSet(ResultsIn(t))
         /\ \A s : IsFiniteSet({i \in ResultsIn(t) : t[i].status = s})
<1>1. IsFiniteSet(1..Len(t))
  BY FS_Interval, LenProperties
<1>2. ResultsIn(t) \in SUBSET (1..Len(t))
  BY LenProperties DEF ResultsIn
<1>3. IsFiniteSet(ResultsIn(t))
  BY <1>1, <1>2, FS_Subset
<1>4. ASSUME NEW s
      PROVE  IsFiniteSet({i \in ResultsIn(t) : t[i].status = s})
  <2>1. {i \in ResultsIn(t) : t[i].status = s} \in SUBSET ResultsIn(t)
    OBVIOUS
  <2> QED BY <2>1, <1>3, FS_Subset
<1> QED BY <1>3, <1>4

LEMMA CountIsNat ==
  ASSUME NEW t \in Seq(Line), NEW s
  PROVE  CountOf(t, s) \in Nat
BY ResultsAreFinite, FS_CardinalityType DEF CountOf

\* A set of positions that is not empty has a first one.
LEMMA FirstPosition ==
  ASSUME NEW S \in SUBSET Nat, S # {}
  PROVE  \E i \in S : \A j \in S : i <= j
<1> DEFINE Before == {p \in Nat \X Nat : p[1] < p[2]}
<1>1. IsWellFoundedOn(Before, Nat)
  BY NatLessThanWellFounded, Zenon DEF OpToRel
<1> HIDE DEF Before
<1>2. \E i \in S : \A j \in S : ~ (<<j, i>> \in Before)
  BY <1>1, WFMin, Zenon
<1>3. ASSUME NEW i \in Nat, NEW j \in Nat, j < i
      PROVE  <<j, i>> \in Before
  BY <1>3 DEF Before
<1>4. PICK i \in S : \A j \in S : ~ (<<j, i>> \in Before)
  BY <1>2
<1>5. \A j \in S : ~ (j < i)
  BY <1>3, <1>4
<1> QED BY <1>5

LEMMA SuspectIsCase ==
  ASSUME NEW list \in Seq(Cases), NEW holes \in SUBSET (DOMAIN list)
  PROVE  /\ Suspect(list, holes) \in Cases \cup {NoCase}
         /\ \A i \in holes : (\A j \in holes : i <= j) => Suspect(list, holes) = list[i]
<1>1. holes \in SUBSET Nat /\ \A i \in holes : i \in DOMAIN list
  BY LenProperties
<1>2. CASE holes = {}
  BY <1>2 DEF Suspect
<1>3. CASE holes # {}
  <2> DEFINE i == CHOOSE k \in holes : \A j \in holes : k <= j
  <2>1. i \in holes /\ \A j \in holes : i <= j
    BY <1>1, <1>3, FirstPosition
  <2>2. Suspect(list, holes) = list[i]
    BY <1>3 DEF Suspect
  <2>3. list[i] \in Cases
    BY <2>1, <1>1, LenProperties, ElementOfSeq
  <2>4. ASSUME NEW k \in holes, \A j \in holes : k <= j
        PROVE  k = i
    BY <2>1, <2>4, <1>1
  <2> QED BY <2>2, <2>3, <2>4
<1> QED BY <1>2, <1>3

LEMMA CollectType ==
  ASSUME NEW list \in Seq(Cases), NEW f \in File, NEW fell \in Terminations
  PROVE  Collect(list, f, fell) \in Report
<1> DEFINE t == Text(f)
<1>1. t \in Seq(Line)
  BY TextIsLines
<1> HIDE DEF t
<1>2. Holes(list, t) \in SUBSET (DOMAIN list) /\ Holes(list, t) \subseteq Nat
  BY LenProperties DEF Holes
<1>3. Suspect(list, Holes(list, t)) \in Cases \cup {NoCase}
  BY <1>2, SuspectIsCase
<1>4. ASSUME NEW i \in ResultsIn(t)
      PROVE  t[i].case \in Cases
  <2>1. t[i] \in Line /\ t[i].kind = "result"
    BY <1>1, LenProperties, ElementOfSeq DEF ResultsIn
  <2> QED BY <2>1 DEF Line
<1>5. \A s \in Statuses : CountOf(t, s) \in Nat
  BY <1>1, CountIsNat
<1>6. HasHeader(t) \in BOOLEAN
  BY DEF HasHeader
<1> QED BY <1>2, <1>3, <1>4, <1>5, <1>6 DEF Collect, Report, Reported, t

\* What counts of a file does not change when a torn line is added to it.
LEMMA TornAddsNothing ==
  ASSUME NEW t \in Seq(Line), NEW whole \in BOOLEAN
  PROVE  LET u == Append(t, Torn(whole))
         IN  /\ Reported(u) = Reported(t)
             /\ HasHeader(u) = HasHeader(t)
             /\ \A s \in Statuses : CountOf(u, s) = CountOf(t, s)
<1> DEFINE u == Append(t, Torn(whole))
<1>1. /\ u \in Seq(Line) /\ Len(u) = Len(t) + 1 /\ u # <<>>
      /\ \A i \in 1..Len(t) : u[i] = t[i]
      /\ u[Len(t) + 1] = Torn(whole)
  BY TornIsLine, AppendProperties
<1>2. /\ Len(t) \in Nat /\ DOMAIN t = 1..Len(t) /\ DOMAIN u = 1..(Len(t) + 1)
      /\ (t # <<>> => Len(t) # 0)
  BY <1>1, LenProperties, EmptySeq
<1>3. u[Len(t) + 1].kind = "torn"
  BY <1>1 DEF Torn
<1> HIDE DEF u
<1>4. ResultsIn(u) = ResultsIn(t)
  BY <1>1, <1>2, <1>3 DEF ResultsIn
<1>5. \A i \in ResultsIn(t) : u[i] = t[i]
  BY <1>1, <1>2 DEF ResultsIn
<1>6. Reported(u) = Reported(t)
  BY <1>4, <1>5 DEF Reported
<1>7. \A s \in Statuses : CountOf(u, s) = CountOf(t, s)
  <2>1. ASSUME NEW s
        PROVE  {i \in ResultsIn(u) : u[i].status = s} = {i \in ResultsIn(t) : t[i].status = s}
    BY <1>4, <1>5
  <2> QED BY <2>1 DEF CountOf
<1>8. HasHeader(u) <=> HasHeader(t)
  BY <1>1, <1>2, <1>3 DEF HasHeader
<1> QED BY <1>6, <1>7, <1>8 DEF u, HasHeader

\* Answers given once each are as many as the cases answered.
LEMMA OnceEach ==
  ASSUME NEW t \in Seq(Line), ~ReportedTwice(t)
  PROVE  Cardinality(Reported(t)) = Cardinality(ResultsIn(t))
<1> DEFINE g == [i \in ResultsIn(t) |-> t[i].case]
<1>1. g \in Bijection(ResultsIn(t), Reported(t))
  BY DEF Bijection, Injection, Surjection, IsInjective, Reported, ReportedTwice
<1> QED BY <1>1, ResultsAreFinite, FS_Bijection DEF ExistsBijection

LEMMA DisjointUnion ==
  ASSUME NEW S, IsFiniteSet(S), NEW T, IsFiniteSet(T), S \cap T = {}
  PROVE  /\ IsFiniteSet(S \cup T)
         /\ Cardinality(S \cup T) = Cardinality(S) + Cardinality(T)
<1>1. Cardinality(S \cup T) = Cardinality(S) + Cardinality(T) - Cardinality(S \cap T)
  BY FS_Union
<1>2. Cardinality(S) \in Nat /\ Cardinality(T) \in Nat /\ Cardinality(S \cap T) = 0
  BY FS_CardinalityType, FS_EmptySet
<1> QED BY <1>1, <1>2, FS_Union

\* Every answer with a status the coordinator knows is counted once.
LEMMA CountsAddUp ==
  ASSUME NEW t \in Seq(Line), \A i \in ResultsIn(t) : t[i].status # "unknown"
  PROVE  CountOf(t, "accepted") + CountOf(t, "rejected") + CountOf(t, "error")
           = Cardinality(ResultsIn(t))
<1> DEFINE With(s) == {i \in ResultsIn(t) : t[i].status = s}
<1>1. \A s : IsFiniteSet(With(s)) /\ Cardinality(With(s)) \in Nat
  BY ResultsAreFinite, FS_CardinalityType
<1>2. ResultsIn(t) = (With("accepted") \cup With("rejected")) \cup With("error")
  <2>1. \A i \in ResultsIn(t) : t[i].status \in Statuses
    <3> SUFFICES ASSUME NEW i \in ResultsIn(t)
                 PROVE  t[i].status \in Statuses
      OBVIOUS
    <3>1. t[i] \in Line
      BY LenProperties, ElementOfSeq DEF ResultsIn
    <3> QED BY <3>1 DEF Line
  <2> QED BY <2>1 DEF Statuses
<1>3. /\ With("accepted") \cap With("rejected") = {}
      /\ (With("accepted") \cup With("rejected")) \cap With("error") = {}
  OBVIOUS
<1> HIDE DEF With
<1>4. /\ IsFiniteSet(With("accepted") \cup With("rejected"))
      /\ Cardinality(With("accepted") \cup With("rejected"))
           = Cardinality(With("accepted")) + Cardinality(With("rejected"))
  BY <1>1, <1>3, DisjointUnion, Zenon
<1>5. Cardinality((With("accepted") \cup With("rejected")) \cup With("error"))
        = Cardinality(With("accepted") \cup With("rejected")) + Cardinality(With("error"))
  BY <1>1, <1>3, <1>4, DisjointUnion, Zenon
<1> QED BY <1>2, <1>4, <1>5 DEF CountOf, With

\* The summary's ok: nothing open, nothing twice, nobody else's.
LEMMA OkMeansComplete ==
  ASSUME NEW list \in Seq(Cases), NEW f \in File, NEW fell \in Terminations,
         NEW r, r = Collect(list, f, fell), Verdict(r) = "ok"
  PROVE  /\ r.reported = {list[i] : i \in DOMAIN list}
         /\ r.count["accepted"] + r.count["rejected"] + r.count["error"]
              = Cardinality(r.reported)
<1> DEFINE t == Text(f)
<1>1. t \in Seq(Line)
  BY TextIsLines
<1> HIDE DEF t
<1>2. r.errors = {} /\ IsClean(r.term)
  BY DEF Verdict
<1>3. /\ r.errors = {e \in ProtocolErrors : Broken(e, list, t, fell)}
      /\ r.term = fell /\ r.reported = Reported(t)
      /\ r.count = [s \in Statuses |-> CountOf(t, s)]
  BY DEF Collect, t
<1>4. \A e \in ProtocolErrors : ~Broken(e, list, t, fell)
  BY <1>2, <1>3
<1>5. /\ \A i \in ResultsIn(t) : t[i].status # "unknown"
      /\ ~ReportedTwice(t)
      /\ \A c \in Reported(t) : \E i \in DOMAIN list : list[i] = c
      /\ Holes(list, t) = {}
  <2>1. {"no status", "twice", "not assigned", "exited cleanly"} \subseteq ProtocolErrors
    BY DEF ProtocolErrors
  <2> QED BY <2>1, <1>2, <1>3, <1>4 DEF Broken
<1>6. Reported(t) = {list[i] : i \in DOMAIN list}
  BY <1>5 DEF Holes
<1>7. CountOf(t, "accepted") + CountOf(t, "rejected") + CountOf(t, "error")
        = Cardinality(Reported(t))
  BY <1>1, <1>5, OnceEach, CountsAddUp
<1> QED BY <1>3, <1>6, <1>7 DEF Statuses

-----------------------------------------------------------------------------
(* Type correctness *)

\* A process that has ended has a fate try_wait() can return.
TypeInv == TypeOK /\ (pc = "ended" => fate \in Terminations)

LEMMA RunIsTyped ==
  ASSUME TypeOK
  PROVE  /\ assigned \in Seq(Cases) /\ cuts \in BOOLEAN
         /\ crew \in Seq([name : STRING, alien : BOOLEAN])
         /\ \A i \in DOMAIN crew : crew[i] \in [name : Names(crew), alien : BOOLEAN]
<1>1. /\ assigned \in Seq(Cases) /\ cuts \in BOOLEAN
      /\ crew \in Seq([name : STRING, alien : BOOLEAN])
  BY SetupsAssumption DEF TypeOK
<1>2. ASSUME NEW i \in DOMAIN crew
      PROVE  crew[i] \in [name : Names(crew), alien : BOOLEAN]
  <2>1. crew[i] \in [name : STRING, alien : BOOLEAN]
    BY <1>1, LenProperties, ElementOfSeq
  <2>2. crew[i].name \in Names(crew)
    BY DEF Names
  <2> QED BY <2>1, <2>2
<1> QED BY <1>1, <1>2

\* Lines put in the worker's file.
LEMMA PutKeepsFiles ==
  ASSUME TypeOK, NEW lines \in Seq(Line), Put(lines)
  PROVE  files' \in [Names(crew) -> File]
BY DEF TypeOK, Put, File, Written

LEMMA LinesAreLines ==
  ASSUME TypeOK
  PROVE  Lines \in Seq(Line) /\ files[job.name] \in File
BY DEF TypeOK, Lines, File

\* The part of the type the worker process can change.
ProcType ==
  /\ job \in [name : Names(crew), alien : BOOLEAN]
  /\ pc \in PCs /\ next \in Nat \ {0} /\ line \in Line
  /\ files \in [Names(crew) -> File]
  /\ fate \in Terminations \cup {NotEnded} /\ opened \in BOOLEAN
  /\ wrote \in Seq(Line)
  /\ pc = "ended" => fate \in Terminations

LEMMA ExitKeepsType ==
  ASSUME TypeInv, UNCHANGED crew, NEW how \in Terminations, Exit(how)
  PROVE  ProcType'
BY DEF TypeInv, TypeOK, ProcType, Exit, PCs

LEMMA WorkKeepsProcType ==
  ASSUME TypeInv, Work, UNCHANGED <<runVars, Given>>
  PROVE  ProcType'
<1> USE DEF TypeInv
<1>0. /\ crew' = crew /\ assigned \in Seq(Cases) /\ cuts \in BOOLEAN
      /\ Lines \in Seq(Line)
  BY RunIsTyped, LinesAreLines DEF runVars
<1>1. CASE ReadCases
  <2>1. CASE Exit("exit1")
    BY <1>0, <2>1, ExitKeepsType DEF Terminations
  <2>2. CASE Goto("opening")
    BY <1>0, <2>2 DEF Goto, TypeOK, ProcType, PCs
  <2> QED BY <1>1, <2>1, <2>2 DEF ReadCases
<1>2. CASE Open
  <2>1. CASE Exit("exit1")
    BY <1>0, <2>1, ExitKeepsType DEF Terminations
  <2>2. CASE ~Exit("exit1")
    <3>1. files' \in [Names(crew) -> File]
      BY <1>2, <2>2, PutKeepsFiles, EmptySeq DEF Open
    <3> QED BY <1>0, <1>2, <2>2, <3>1 DEF Open, TypeOK, ProcType, PCs
  <2> QED BY <2>1, <2>2
<1>3. CASE WriteHeader
  <2>1. Append(Lines, Header) \in Seq(Line) /\ Append(wrote, Header) \in Seq(Line)
    BY <1>0, TornIsLine, AppendProperties DEF TypeOK
  <2>2. files' \in [Names(crew) -> File]
    BY <1>3, <2>1, PutKeepsFiles DEF WriteHeader
  <2> QED BY <1>0, <1>3, <2>1, <2>2 DEF WriteHeader, TypeOK, ProcType, PCs
<1>4. CASE RunCase
  <2>1. assigned[next] \in Cases
    BY <1>0, <1>4, LenProperties, ElementOfSeq DEF RunCase, OnCase, TypeOK
  <2>2. \A whole \in {TRUE, ~cuts} : whole \in BOOLEAN
    BY <1>0
  <2>3. line' \in Line
    <3>1. PICK s \in Statuses, whole \in BOOLEAN : line' = Result(assigned[next], s, whole)
      BY <1>4, <2>2, Zenon DEF RunCase
    <3> HIDE DEF TypeInv
    <3> QED BY <2>1, <3>1 DEF Result, Line
  <2> QED BY <1>0, <1>4, <2>3 DEF RunCase, TypeOK, ProcType, PCs
<1>5. CASE Spill
  <2>1. PICK whole \in BOOLEAN : Put(Append(Lines, Torn(whole)))
    BY <1>0, <1>5 DEF Spill
  <2>2. Append(Lines, Torn(whole)) \in Seq(Line)
    BY <1>0, TornIsLine, AppendProperties
  <2>3. files' \in [Names(crew) -> File]
    BY <2>1, <2>2, PutKeepsFiles
  <2> QED BY <1>0, <1>5, <2>3 DEF Spill, TypeOK, ProcType, PCs
<1>6. CASE Flush
  <2> DEFINE kept == IF Spilled THEN SubSeq(Lines, 1, Len(Lines) - 1) ELSE Lines
  <2>1. kept \in Seq(Line)
    BY <1>0, LenProperties, SubSeqProperties
  <2>2. Append(kept, line) \in Seq(Line) /\ Append(wrote, line) \in Seq(Line)
    BY <2>1, AppendProperties DEF TypeOK
  <2>3. files' \in [Names(crew) -> File]
    BY <1>6, <2>2, PutKeepsFiles DEF Flush
  <2> QED BY <1>0, <1>6, <2>2, <2>3 DEF Flush, TypeOK, ProcType, PCs
<1>7. CASE Return
  BY <1>0, <1>7, ExitKeepsType DEF Return, Terminations
<1>8. CASE Quit
  BY <1>0, <1>8, ExitKeepsType DEF Quit, Terminations
<1>9. CASE Die
  BY <1>0, <1>9, ExitKeepsType DEF Die, Terminations
<1>10. CASE Babble
  <2>1. PICK l \in AlienLines : Put(Append(Lines, l)) /\ wrote' = Append(wrote, l)
    BY <1>10 DEF Babble
  <2>2. Append(Lines, l) \in Seq(Line) /\ Append(wrote, l) \in Seq(Line)
    BY <1>0, LinesAssumption, AppendProperties DEF TypeOK
  <2>3. files' \in [Names(crew) -> File]
    BY <2>1, <2>2, PutKeepsFiles
  <2> QED BY <1>0, <1>10, <2>1, <2>2, <2>3 DEF Babble, TypeOK, ProcType, PCs
<1> QED BY <1>1, <1>2, <1>3, <1>4, <1>5, <1>6, <1>7, <1>8, <1>9, <1>10 DEF Work

\* Which part of TypeOK is the run's own.
RunType ==
  /\ [list |-> assigned, crew |-> crew, cuts |-> cuts] \in Setups
  /\ fresh \in BOOLEAN
  /\ phase \in Phases /\ cur \in DOMAIN crew
  /\ expired \in BOOLEAN /\ killed \in BOOLEAN /\ term \in Terminations
  /\ reports \in Seq(Report)
  /\ past \in Seq([opened : BOOLEAN, wrote : Seq(Line), next : Nat \ {0}])

\* Now and after a step: a fact about the variables says nothing of the next state.
LEMMA TypeParts ==
  /\ TypeInv <=> RunType /\ ProcType
  /\ TypeInv' <=> RunType' /\ ProcType'
<1>1. TypeInv <=> RunType /\ ProcType
  BY Zenon DEF TypeInv, TypeOK, RunType, ProcType
<1>2. TypeInv' <=> RunType' /\ ProcType'
  BY Zenon DEF TypeInv, TypeOK, RunType, ProcType
<1> QED BY <1>1, <1>2

LEMMA UnchangedKeepsProcType ==
  ASSUME ProcType, UNCHANGED <<procVars, crew>>
  PROVE  ProcType'
BY DEF ProcType, procVars, Names

LEMMA SpawnKeepsType ==
  ASSUME TypeInv, Spawn, UNCHANGED Given
  PROVE  TypeInv'
<1> USE DEF Given
<1>0. RunType /\ ProcType /\ crew[cur] \in [name : Names(crew), alien : BOOLEAN]
  BY TypeParts, RunIsTyped DEF TypeInv, RunType
<1>1. CASE Abort
  <2>1. RunType'
    BY <1>0, <1>1 DEF Abort, RunType, Phases
  <2> QED BY <1>0, <1>1, <2>1, TypeParts, UnchangedKeepsProcType DEF Abort
<1>2. ASSUME NEW p \in {"none", "reading"}, Started(p)
      PROVE  ProcType'
  <2>1. Header \in Line /\ <<>> \in Seq(Line)
    BY TornIsLine, EmptySeq
  <2>2. /\ crew' = crew /\ files' = files /\ job' = crew[cur] /\ pc' = p /\ next' = 1
        /\ line' = Header /\ fate' = NotEnded /\ opened' = FALSE /\ wrote' = <<>>
    BY <1>2 DEF Started
  <2>3. pc' \in PCs /\ pc' # "ended"
    BY <2>2 DEF PCs
  <2>4. job' \in [name : Names(crew'), alien : BOOLEAN]
    BY <1>0, <2>2
  <2>5. files' \in [Names(crew') -> File]
    BY <1>0, <2>2 DEF ProcType
  <2>6. opened' \in BOOLEAN /\ fate' \in Terminations \cup {NotEnded}
        /\ line' \in Line /\ wrote' \in Seq(Line)
    BY <2>1, <2>2, Zenon
  <2>7. next' \in Nat \ {0}
    BY <2>2
  <2> QED BY <2>3, <2>4, <2>5, <2>6, <2>7, Zenon DEF ProcType
<1>3. CASE Started("none") /\ term' = "spawnFailed" /\ phase' = "collect"
  <2>1. RunType'
    BY <1>0, <1>3 DEF Started, RunType, Phases, Terminations
  <2> QED BY <1>2, <1>3, <2>1, TypeParts
<1>4. CASE Started("reading") /\ UNCHANGED term /\ phase' = "poll"
  <2>1. RunType'
    BY <1>0, <1>4 DEF Started, RunType, Phases
  <2> QED BY <1>2, <1>4, <2>1, TypeParts
<1> QED BY <1>1, <1>3, <1>4 DEF Spawn

LEMMA CollectKeepsType ==
  ASSUME TypeInv, CollectResults, UNCHANGED Given
  PROVE  TypeInv'
<1> USE DEF Given
<1>0. RunType /\ ProcType
  BY TypeParts
<1>1. ProcType'
  BY <1>0, UnchangedKeepsProcType DEF CollectResults
<1>2. Collect(assigned, files[job.name], term) \in Report
  BY <1>0, RunIsTyped, LinesAreLines, CollectType DEF TypeInv, RunType
<1>3. reports' \in Seq(Report)
  BY <1>0, <1>2, AppendProperties DEF CollectResults, RunType
<1>4. past' \in Seq([opened : BOOLEAN, wrote : Seq(Line), next : Nat \ {0}])
  <2>1. [opened |-> opened, wrote |-> wrote, next |-> next]
          \in [opened : BOOLEAN, wrote : Seq(Line), next : Nat \ {0}]
    BY <1>0 DEF ProcType
  <2> QED BY <1>0, <2>1, AppendProperties DEF CollectResults, RunType
<1>5. cur' \in DOMAIN crew' /\ phase' \in Phases
  <2>1. DOMAIN crew = 1..Len(crew) /\ Len(crew) \in Nat
    BY RunIsTyped, LenProperties DEF TypeInv
  <2> QED BY <1>0, <2>1 DEF CollectResults, RunType, Phases
<1>6. RunType'
  BY <1>0, <1>3, <1>4, <1>5 DEF CollectResults, RunType
<1> QED BY <1>1, <1>6, TypeParts

LEMMA NextKeepsType ==
  ASSUME TypeInv, [Next]_vars
  PROVE  TypeInv'
<1>0. RunType /\ ProcType
  BY TypeParts
<1>1. CASE Next
  <2> USE DEF Given
  <2>0. UNCHANGED Given
    BY <1>1 DEF Next
  <2>1. CASE Prepare \/ Poll \/ Check \/ Wait \/ Publish \/ Clock \/ Stopped
    <3>1. UNCHANGED <<procVars, crew>>
      BY <2>1 DEF Prepare, Abort, Poll, Check, Wait, Publish, Clock, Stopped, runVars
    <3>2. RunType'
      <4>1. CASE Prepare \/ Publish \/ Check
        BY <1>0, <2>0, <4>1 DEF Prepare, Publish, Abort, Check, RunType, Phases
      <4>2. CASE Poll \/ Wait
        BY <1>0, <2>0, <4>2 DEF Poll, Wait, RunType, Phases, ProcType, Terminations
      <4>3. CASE Clock \/ Stopped
        BY <1>0, <2>0, <4>3 DEF Clock, Stopped, RunType, runVars
      <4> QED BY <2>1, <4>1, <4>2, <4>3
    <3> QED BY <1>0, <3>1, <3>2, UnchangedKeepsProcType, TypeParts
  <2>2. CASE Spawn
    BY <2>0, <2>2, SpawnKeepsType
  <2>3. CASE CollectResults
    BY <2>0, <2>3, CollectKeepsType
  <2>4. CASE Worker \/ KilledDies
    <3>1. RunType'
      BY <1>0, <2>0, <2>4 DEF Worker, KilledDies, RunType, runVars
    <3>2. ProcType'
      <4>1. CASE Worker
        BY <2>0, <4>1, WorkKeepsProcType DEF Worker
      <4>2. CASE KilledDies
        BY <4>2, ExitKeepsType DEF KilledDies, Terminations, runVars
      <4> QED BY <2>4, <4>1, <4>2
    <3> QED BY <3>1, <3>2, TypeParts
  <2> QED BY <1>1, <2>1, <2>2, <2>3, <2>4 DEF Next, Supervisor
<1>2. CASE UNCHANGED vars
  <2>1. RunType' /\ ProcType'
    BY <1>0, <1>2, UnchangedKeepsProcType DEF vars, runVars, RunType
  <2> QED BY <2>1, TypeParts
<1> QED BY <1>1, <1>2

LEMMA InitIsTyped ==
  ASSUME Init
  PROVE  TypeInv
<1>1. PICK run \in Setups : assigned = run.list /\ crew = run.crew /\ cuts = run.cuts
  BY DEF Init
<1>2. [list |-> assigned, crew |-> crew, cuts |-> cuts] \in Setups
  BY <1>1, SetupsAssumption
<1>3. crew \in Seq([name : STRING, alien : BOOLEAN]) /\ crew # <<>>
  BY <1>1, SetupsAssumption
<1>4. 1 \in DOMAIN crew /\ crew[1] \in [name : STRING, alien : BOOLEAN]
  <2>1. Len(crew) \in Nat \ {0} /\ DOMAIN crew = 1..Len(crew)
    BY <1>3, LenProperties, EmptySeq
  <2>2. 1 \in 1..Len(crew)
    BY <2>1
  <2>3. crew[1] \in [name : STRING, alien : BOOLEAN]
    BY <1>3, <2>2, ElementOfSeq, Zenon
  <2> QED BY <2>1, <2>2, <2>3
<1>5. crew[1] \in [name : Names(crew), alien : BOOLEAN]
  BY <1>4 DEF Names
<1>6. RunType
  BY <1>2, <1>4, EmptySeq DEF Init, RunType, Phases, Terminations
<1>7. ProcType
  <2>1. files \in [Names(crew) -> File]
    BY LeftoversAssumption DEF Init
  <2>2. Header \in Line /\ <<>> \in Seq(Line)
    BY TornIsLine, EmptySeq
  <2>3. pc \in PCs /\ pc # "ended"
    BY DEF Init, PCs
  <2>4. job \in [name : Names(crew), alien : BOOLEAN]
    BY <1>5 DEF Init
  <2>5. opened \in BOOLEAN
    BY Zenon DEF Init
  <2>7. next \in Nat \ {0}
    BY DEF Init
  <2>6. line \in Line /\ wrote \in Seq(Line) /\ fate \in Terminations \cup {NotEnded}
    BY <2>2 DEF Init
  <2> QED BY <2>1, <2>3, <2>4, <2>5, <2>6, <2>7, Zenon DEF ProcType
<1> QED BY <1>6, <1>7, TypeParts

\* Every variable keeps its type, whoever runs, dies or is killed.
THEOREM CoordinatorTyped == Spec => []TypeOK
<1>1. TypeInv /\ [Next]_vars => TypeInv'
  BY NextKeepsType
<1>2. TypeInv => TypeOK
  BY DEF TypeInv
<1> QED BY <1>1, <1>2, InitIsTyped, PTL DEF Spec

-----------------------------------------------------------------------------
(* What a report called ok stands for *)

\* A report added keeps the earlier ones.
LEMMA ReportAdded ==
  ASSUME TypeInv, CollectResults
  PROVE  /\ DOMAIN reports' = 1..(Len(reports) + 1) /\ DOMAIN reports = 1..Len(reports)
         /\ Len(reports) \in Nat
         /\ \A w \in DOMAIN reports : reports'[w] = reports[w]
         /\ reports'[Len(reports) + 1] = Collect(assigned, files[job.name], term)
         /\ Collect(assigned, files[job.name], term) \in Report
<1>1. reports \in Seq(Report) /\ term \in Terminations
  BY DEF TypeInv, TypeOK
<1>2. Collect(assigned, files[job.name], term) \in Report
  BY <1>1, RunIsTyped, LinesAreLines, CollectType DEF TypeInv
<1>3. reports' = Append(reports, Collect(assigned, files[job.name], term))
  BY DEF CollectResults
<1> QED BY <1>1, <1>2, <1>3, AppendProperties, LenProperties

LEMMA NextKeepsOk ==
  ASSUME TypeInv, OkIsComplete, [Next]_vars
  PROVE  OkIsComplete'
<1>1. CASE UNCHANGED <<reports, assigned>>
  BY <1>1 DEF OkIsComplete
<1>2. CASE CollectResults /\ UNCHANGED Given
  <2>1. assigned' = assigned
    BY <1>2 DEF Given
  <2> DEFINE Complete(r) ==
        /\ r.reported = {assigned[i] : i \in DOMAIN assigned}
        /\ r.count["accepted"] + r.count["rejected"] + r.count["error"]
             = Cardinality(r.reported)
  <2>2. \A w \in DOMAIN reports : Verdict(reports[w]) = "ok" => Complete(reports[w])
    BY DEF OkIsComplete
  <2>3. ASSUME NEW r, r = Collect(assigned, files[job.name], term), Verdict(r) = "ok"
        PROVE  Complete(r)
    <3>1. assigned \in Seq(Cases) /\ files[job.name] \in File /\ term \in Terminations
      BY RunIsTyped, LinesAreLines DEF TypeInv, TypeOK
    <3> QED BY <2>3, <3>1, OkMeansComplete
  <2> HIDE DEF Complete
  <2>4. ASSUME NEW w \in DOMAIN reports', Verdict(reports'[w]) = "ok"
        PROVE  Complete(reports'[w])
    <3>1. CASE w \in DOMAIN reports
      BY <1>2, <2>2, <2>4, <3>1, ReportAdded
    <3>2. CASE w = Len(reports) + 1
      BY <1>2, <2>3, <2>4, <3>2, ReportAdded
    <3> QED BY <1>2, <2>4, <3>1, <3>2, ReportAdded
  <2> QED BY <2>1, <2>4 DEF OkIsComplete, Complete
<1>3. UNCHANGED <<reports, assigned>> \/ (CollectResults /\ UNCHANGED Given)
  BY DEF Next, Supervisor, Given, vars, runVars, Prepare, Abort, Spawn, Started, Poll,
         Check, Wait, Publish, Worker, Clock, KilledDies, Stopped
<1> QED BY <1>1, <1>2, <1>3

\* The summary says ok only of a report that closes every case of the list, each
\* with one answer, for every list, every file and every way of ending.
THEOREM OkNeverHidesACase == Spec => []OkIsComplete
<1>1. Init => OkIsComplete
  BY DEF Init, OkIsComplete
<1>2. TypeInv /\ OkIsComplete /\ [Next]_vars => (TypeInv /\ OkIsComplete)'
  BY NextKeepsType, NextKeepsOk
<1> QED BY <1>1, <1>2, InitIsTyped, PTL DEF Spec

-----------------------------------------------------------------------------
(* What is in the file is what was completed, and at most one torn line *)

AllWhole(t) == \A i \in DOMAIN t : t[i].whole
TornAfter(t, u) == \E whole \in BOOLEAN : u = Append(t, Torn(whole))

\* A file the worker has opened holds what the worker completed and nothing of an
\* earlier run; a torn line ends it while a line is spilled, and for good when the
\* worker dies then.
FileInv ==
  /\ pc \in {"none", "reading", "opening"} => ~opened
  /\ pc \in {"header", "case", "writing", "spilled"} => opened
  /\ ~opened => wrote = <<>>
  /\ opened => files[job.name].there
  /\ pc \in {"header", "case", "writing"} => Lines = wrote
  /\ pc = "spilled" => TornAfter(wrote, Lines)
  /\ opened => Lines = wrote \/ TornAfter(wrote, Lines)
  /\ ~cuts /\ opened => AllWhole(Lines)
  /\ ~cuts /\ pc \in {"writing", "spilled"} => line.whole

LEMMA PutLines ==
  ASSUME TypeInv, NEW lines \in Seq(Line), Put(lines), UNCHANGED job
  PROVE  Lines' = lines /\ files'[job'.name].there
BY DEF TypeInv, TypeOK, Put, Written, Lines, File

LEMMA AppendWhole ==
  ASSUME NEW t \in Seq(Line), NEW l \in Line, AllWhole(t), l.whole
  PROVE  AllWhole(Append(t, l))
BY AppendProperties, LenProperties DEF AllWhole

LEMMA LastTakenOff ==
  ASSUME NEW t \in Seq(Line), NEW l \in Line
  PROVE  LET u == Append(t, l) IN SubSeq(u, 1, Len(u) - 1) = t
<1> DEFINE u == Append(t, l)
<1>1. u \in Seq(Line) /\ Len(u) = Len(t) + 1 /\ Len(t) \in Nat
      /\ \A i \in 1..Len(t) : u[i] = t[i]
  BY AppendProperties, LenProperties
<1>2. u = Append(t, l)
  OBVIOUS
<1> HIDE DEF u
<1>3. SubSeq(u, 1, Len(t)) = t
  BY <1>1, SubSeqProperties, LenProperties, SeqEqual
<1>4. Len(u) - 1 = Len(t)
  BY <1>1
<1> QED BY <1>2, <1>3, <1>4

\* A process that ends leaves its file as it is.
LEMMA ExitKeepsFile ==
  ASSUME TypeInv, FileInv, Exit("exit0") \/ Exit("exit1") \/ Exit("signal"),
         UNCHANGED Given
  PROVE  FileInv'
<1>1. /\ pc' = "ended"
      /\ UNCHANGED <<job, next, line, files, opened, wrote, cuts>>
  BY DEF Exit, Given
<1>2. Lines' = Lines /\ (TornAfter(wrote, Lines))' = TornAfter(wrote, Lines)
      /\ AllWhole(Lines)' = AllWhole(Lines)
  BY <1>1 DEF Lines
<1> QED BY <1>1, <1>2 DEF FileInv

\* A process that is still running moves; what it leaves alone is in the first step.
LEMMA WorkKeepsFile ==
  ASSUME TypeInv, FileInv, Work, UNCHANGED Given
  PROVE  FileInv'
<1>0. /\ cuts' = cuts /\ Lines \in Seq(Line) /\ wrote \in Seq(Line) /\ line \in Line
      /\ assigned \in Seq(Cases) /\ cuts \in BOOLEAN
  BY RunIsTyped, LinesAreLines DEF TypeInv, TypeOK, Given
<1>1. CASE ReadCases
  <2>1. CASE Exit("exit1")
    BY <2>1, ExitKeepsFile
  <2>2. CASE Goto("opening")
    <3>1. pc' = "opening" /\ pc = "reading"
          /\ UNCHANGED <<job, next, line, files, opened, wrote, cuts>>
      BY <1>0, <1>1, <2>2 DEF Goto, ReadCases
    <3> QED BY <3>1 DEF FileInv
  <2> QED BY <1>1, <2>1, <2>2 DEF ReadCases
<1>2. CASE Open
  <2>1. CASE Exit("exit1")
    BY <2>1, ExitKeepsFile
  <2>2. CASE ~Exit("exit1")
    <3>1. /\ pc = "opening" /\ pc' = "header" /\ opened' /\ Put(<<>>)
          /\ UNCHANGED <<job, next, line, wrote, cuts>>
      BY <1>0, <1>2, <2>2 DEF Open
    <3>2. Lines' = <<>> /\ files'[job'.name].there
      BY <3>1, PutLines, EmptySeq
    <3>3. wrote' = <<>>
      BY <3>1 DEF FileInv
    <3>4. AllWhole(Lines')
      BY <3>2 DEF AllWhole
    <3> QED BY <3>1, <3>2, <3>3, <3>4 DEF FileInv
  <2> QED BY <2>1, <2>2
<1>3. ASSUME NEW l \in Line, Put(Append(Lines, l)), wrote' = Append(wrote, l),
             pc \in {"header", "case"}, pc' = "case", ~cuts => l.whole,
             UNCHANGED <<job, opened>>
      PROVE  FileInv'
  <2>1. Append(Lines, l) \in Seq(Line)
    BY <1>0, AppendProperties
  <2>2. Lines' = Append(Lines, l) /\ files'[job'.name].there
    BY <1>3, <2>1, PutLines
  <2>3. opened /\ Lines = wrote /\ (~cuts => AllWhole(Lines))
    BY <1>3 DEF FileInv
  <2>4. ~cuts => AllWhole(Lines')
    BY <1>0, <1>3, <2>2, <2>3, AppendWhole
  <2> QED BY <1>0, <1>3, <2>2, <2>3, <2>4 DEF FileInv
<1>4. CASE WriteHeader
  <2>1. Header \in Line /\ Header.whole
    BY TornIsLine DEF Header
  <2> QED BY <1>3, <1>4, <2>1 DEF WriteHeader
<1>5. CASE RunCase
  <2>1. PICK s \in Statuses, whole \in {TRUE, ~cuts} :
               line' = Result(assigned[next], s, whole)
    BY <1>5, Zenon DEF RunCase
  <2>2. ~cuts => line'.whole
    BY <2>1 DEF Result
  <2>3. /\ pc = "case" /\ pc' = "writing"
        /\ UNCHANGED <<job, files, opened, wrote, cuts>> /\ Lines' = Lines
    BY <1>0, <1>5 DEF RunCase, OnCase, Lines
  <2> QED BY <2>2, <2>3 DEF FileInv
<1>6. CASE Spill
  <2>1. PICK whole \in BOOLEAN : Put(Append(Lines, Torn(whole))) /\ (~cuts => whole)
    BY <1>0, <1>6 DEF Spill
  <2>2. Torn(whole) \in Line /\ Torn(whole).whole = whole
    BY TornIsLine DEF Torn
  <2>3. Append(Lines, Torn(whole)) \in Seq(Line)
    BY <1>0, <2>2, AppendProperties
  <2>4. /\ pc = "writing" /\ pc' = "spilled"
        /\ UNCHANGED <<job, line, opened, wrote, cuts>>
    BY <1>0, <1>6 DEF Spill
  <2>5. Lines' = Append(Lines, Torn(whole)) /\ files'[job'.name].there
    BY <2>1, <2>3, <2>4, PutLines
  <2>6. opened /\ Lines = wrote /\ (~cuts => AllWhole(Lines)) /\ (~cuts => line.whole)
    BY <2>4 DEF FileInv
  <2>7. ~cuts => AllWhole(Lines')
    BY <1>0, <2>1, <2>2, <2>5, <2>6, AppendWhole
  <2>8. TornAfter(wrote', Lines')
    BY <2>4, <2>5, <2>6 DEF TornAfter
  <2> QED BY <2>4, <2>5, <2>6, <2>7, <2>8 DEF FileInv
<1>7. CASE Flush
  <2> DEFINE kept == IF Spilled THEN SubSeq(Lines, 1, Len(Lines) - 1) ELSE Lines
  <2>1. kept = wrote
    <3>1. CASE pc = "spilled"
      <4>1. PICK whole \in BOOLEAN : Lines = Append(wrote, Torn(whole))
        BY <3>1 DEF FileInv, TornAfter
      <4> QED BY <1>0, <3>1, <4>1, TornIsLine, LastTakenOff DEF Spilled
    <3>2. CASE pc = "writing"
      BY <3>2 DEF FileInv, Spilled
    <3> QED BY <1>7, <3>1, <3>2 DEF Flush
  <2>2. ~cuts => AllWhole(wrote)
    <3>1. CASE pc = "spilled"
      <4>1. PICK whole \in BOOLEAN : Lines = Append(wrote, Torn(whole))
        BY <3>1 DEF FileInv, TornAfter
      <4>2. ~cuts => AllWhole(Lines)
        BY <3>1 DEF FileInv
      <4> QED BY <1>0, <4>1, <4>2, TornIsLine, AppendProperties, LenProperties
              DEF AllWhole
    <3>2. CASE pc = "writing"
      BY <3>2 DEF FileInv
    <3> QED BY <1>7, <3>1, <3>2 DEF Flush
  <2>3. /\ pc \in {"writing", "spilled"} /\ pc' = "case" /\ opened
        /\ wrote' = Append(wrote, line) /\ Put(Append(wrote, line))
        /\ UNCHANGED <<job, opened, cuts>> /\ (~cuts => line.whole)
    <3> HIDE DEF kept
    <3>1. Put(Append(kept, line))
      BY <1>7 DEF Flush, kept
    <3> QED BY <1>0, <1>7, <2>1, <3>1 DEF Flush, FileInv
  <2>4. Append(wrote, line) \in Seq(Line)
    BY <1>0, AppendProperties
  <2>5. Lines' = wrote' /\ files'[job'.name].there
    BY <2>3, <2>4, PutLines
  <2>6. ~cuts => AllWhole(Lines')
    BY <1>0, <2>2, <2>3, <2>5, AppendWhole
  <2> HIDE DEF kept
  <2> QED BY <2>3, <2>5, <2>6 DEF FileInv
<1>8. CASE Return \/ Quit \/ Die
  BY <1>8, ExitKeepsFile DEF Return, Quit, Die
<1>9. CASE Babble
  <2>1. PICK l \in AlienLines : /\ l.whole \/ cuts
                                /\ Put(Append(Lines, l)) /\ wrote' = Append(wrote, l)
    BY <1>9 DEF Babble
  <2> QED BY <1>3, <1>9, <2>1, LinesAssumption DEF Babble
<1> QED BY <1>1, <1>2, <1>4, <1>5, <1>6, <1>7, <1>8, <1>9 DEF Work

\* The next worker starts with nothing written, whatever its file holds.
LEMMA SpawnKeepsFile ==
  ASSUME TypeInv, FileInv, Spawn, UNCHANGED Given
  PROVE  FileInv'
<1>0. cuts' = cuts
  BY DEF Given
<1>1. CASE Abort
  <2>1. UNCHANGED <<job, pc, line, files, opened, wrote, cuts>> /\ Lines' = Lines
    BY <1>0, <1>1 DEF Abort, procVars, Lines
  <2> QED BY <2>1 DEF FileInv
<1>2. CASE Started("none") \/ Started("reading")
  BY <1>0, <1>2 DEF Started, FileInv
<1> QED BY <1>1, <1>2 DEF Spawn

LEMMA NextKeepsFile ==
  ASSUME TypeInv, FileInv, [Next]_vars
  PROVE  FileInv'
<1>1. CASE UNCHANGED <<procVars, Given>>
  <2>1. UNCHANGED <<job, pc, line, files, opened, wrote, cuts>> /\ Lines' = Lines
    BY <1>1 DEF procVars, Given, Lines
  <2> QED BY <2>1 DEF FileInv
<1>2. CASE (Spawn \/ Worker \/ KilledDies) /\ UNCHANGED Given
  BY <1>2, SpawnKeepsFile, WorkKeepsFile, ExitKeepsFile DEF Worker, KilledDies
<1>3. CASE Next
  BY <1>1, <1>2, <1>3 DEF Next, Supervisor, Prepare, Abort, Poll, Check, Wait,
     CollectResults, Publish, Clock, Stopped
<1>4. CASE UNCHANGED vars
  BY <1>1, <1>4 DEF vars, Given
<1> QED BY <1>3, <1>4

-----------------------------------------------------------------------------
(* Every report holds exactly what its worker completed *)

Faithful(r, t) ==
  /\ r.reported = Reported(t) /\ r.header = HasHeader(t)
  /\ \A s \in Statuses : r.count[s] = CountOf(t, s)

CountInv ==
  /\ Len(past) = Len(reports)
  /\ \A w \in DOMAIN reports :
       ~cuts /\ past[w].opened => Faithful(reports[w], past[w].wrote)

\* A file of whole characters is read as it is, and its torn line counts for nothing.
LEMMA CollectedIsFaithful ==
  ASSUME TypeInv, FileInv, ~cuts, opened
  PROVE  Faithful(Collect(assigned, files[job.name], term), wrote)
<1>1. Text(files[job.name]) = Lines
  BY DEF FileInv, Text, Readable, AllWhole, Lines
<1>2. wrote \in Seq(Line)
  BY DEF TypeInv, TypeOK
<1>3. /\ Reported(Lines) = Reported(wrote) /\ HasHeader(Lines) = HasHeader(wrote)
      /\ \A s \in Statuses : CountOf(Lines, s) = CountOf(wrote, s)
  <2>1. CASE Lines = wrote
    BY <2>1
  <2>2. CASE TornAfter(wrote, Lines)
    <3>1. PICK whole \in BOOLEAN : Lines = Append(wrote, Torn(whole))
      BY <2>2 DEF TornAfter
    <3> QED BY <1>2, <3>1, TornAddsNothing
  <2> QED BY <2>1, <2>2 DEF FileInv
<1> QED BY <1>1, <1>3 DEF Faithful, Collect

LEMMA NextKeepsCount ==
  ASSUME TypeInv, FileInv, CountInv, [Next]_vars
  PROVE  CountInv'
<1>1. CASE UNCHANGED <<reports, past, cuts>>
  BY <1>1 DEF CountInv
<1>2. CASE CollectResults /\ UNCHANGED Given
  <2> DEFINE record == [opened |-> opened, wrote |-> wrote, next |-> next]
             All == [opened : BOOLEAN, wrote : Seq(Line), next : Nat \ {0}]
  <2>1. past \in Seq(All) /\ record \in All /\ past' = Append(past, record)
        /\ cuts' = cuts
    BY <1>2 DEF TypeInv, TypeOK, CollectResults, Given
  <2>2. /\ Len(past') = Len(past) + 1 /\ past'[Len(past) + 1] = record
        /\ \A w \in 1..Len(past) : past'[w] = past[w]
    <3> HIDE DEF record, All
    <3> QED BY <2>1, AppendProperties, LenProperties
  <2>3. Len(past) = Len(reports)
    BY DEF CountInv
  <2>4. Len(past') = Len(reports')
    <3>1. reports \in Seq(Report) /\ Len(reports') = Len(reports) + 1
      BY <1>2, ReportAdded, AppendProperties DEF TypeInv, TypeOK, CollectResults
    <3> QED BY <2>2, <2>3, <3>1
  <2>5. ASSUME NEW w \in DOMAIN reports', ~cuts, past'[w].opened
        PROVE  Faithful(reports'[w], past'[w].wrote)
    <3>1. CASE w \in DOMAIN reports
      <4>1. past'[w] = past[w] /\ reports'[w] = reports[w]
        BY <1>2, <2>2, <2>3, <3>1, ReportAdded
      <4> QED BY <2>5, <3>1, <4>1 DEF CountInv
    <3>2. CASE w = Len(reports) + 1
      <4>1. /\ past'[w].opened = opened /\ past'[w].wrote = wrote
            /\ reports'[w] = Collect(assigned, files[job.name], term)
        BY <1>2, <2>2, <2>3, <3>2, ReportAdded
      <4> QED BY <2>5, <4>1, CollectedIsFaithful
    <3> QED BY <1>2, <2>5, <3>1, <3>2, ReportAdded
  <2> HIDE DEF record, All
  <2> QED BY <2>1, <2>4, <2>5 DEF CountInv
<1>3. UNCHANGED <<reports, past, cuts>> \/ (CollectResults /\ UNCHANGED Given)
  BY DEF Next, Supervisor, Given, vars, runVars, Prepare, Abort, Spawn, Started, Poll,
         Check, Wait, Publish, Worker, Clock, KilledDies, Stopped
<1> QED BY <1>1, <1>2, <1>3

\* Whenever a worker dies, and whatever was in its file before it opened it, its
\* report holds exactly the lines it completed, for every list, crew and input,
\* so long as no character is cut.
THEOREM ReportsAreExact == Spec => []CountedExactly
<1> DEFINE Inv == TypeInv /\ FileInv /\ CountInv
<1>1. Init => Inv
  <2> SUFFICES ASSUME Init PROVE FileInv /\ CountInv
    BY InitIsTyped
  <2>1. pc = "none" /\ ~opened /\ wrote = <<>> /\ reports = <<>> /\ past = <<>>
    BY DEF Init
  <2>2. FileInv
    BY <2>1 DEF FileInv
  <2>3. CountInv
    BY <2>1, EmptySeq DEF CountInv
  <2> QED BY <2>2, <2>3
<1>2. Inv /\ [Next]_vars => Inv'
  BY NextKeepsType, NextKeepsFile, NextKeepsCount
<1>3. Inv => CountedExactly
  BY DEF CountInv, Faithful, CountedExactly
<1> QED BY <1>1, <1>2, <1>3, PTL DEF Spec
=============================================================================
