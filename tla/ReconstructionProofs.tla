------------------------- MODULE ReconstructionProofs -------------------------
(***************************************************************************)
(* What each entry point of a reconstruction does to the type of its       *)
(* state, and above all to the log: every event written is one the judge   *)
(* can read, and the log stays within its capacity.  Then what the judge   *)
(* of Lifecycle.tla concludes from a log with one more event, so that an   *)
(* invariant can follow its verdict from step to step.                     *)
(***************************************************************************)
EXTENDS Reconstruction, TLAPS, SequenceTheorems, WellFoundedInduction, NaturalsInduction

LEMMA StructsAre ==
  /\ Array \in Structs /\ Stream \in Structs /\ Schema(1) \in Structs
  /\ Schema(1) \in Schemas /\ \A s \in Schemas : s \in Structs /\ s # Array /\ s # Stream
  /\ Array # Stream /\ \A k \in 1..MaxSchemas : Schema(k) \in Structs
  /\ \A s \in Structs : s.obj \in Objects
BY SchemasAssumption DEF Structs, Schemas, Array, Stream, Schema, Objects

LEMMA EvType ==
  ASSUME NEW kind \in Kinds, NEW s \in Structs, NEW node \in Nodes,
         NEW by \in BOOLEAN, NEW where \in Places
  PROVE  Ev(kind, s, node, by, where) \in Event
BY StructsAre DEF Ev, Event

LEMMA NoteType ==
  ASSUME NEW kind \in Kinds, NEW s \in Structs, NEW where \in Places
  PROVE  <<Note(kind, s, where)>> \in Seq(Event)
<1>1. Note(kind, s, where) \in Event
  BY EvType DEF Note, Nodes, BASE
<1> QED BY <1>1

\* obs_event() keeps the log a log, within its capacity.
LEMMA ObserveType ==
  ASSUME RecTypeOK, NEW evs \in Seq(Event), Observe(evs)
  PROVE  log' \in Seq(Event) /\ Len(log') <= MaxEvents /\ dropped' \in BOOLEAN
<1>1. /\ log \o evs \in Seq(Event)
      /\ Len(log \o evs) \in Nat
      /\ \A i \in 1..Len(log \o evs) : (log \o evs)[i] \in Event
  BY ConcatProperties, LenProperties, ElementOfSeq DEF RecTypeOK
<1>2. dropped' \in BOOLEAN
  BY DEF Observe
<1>3. CASE Len(log \o evs) <= MaxEvents
  BY <1>1, <1>2, <1>3 DEF Observe
<1>4. CASE ~(Len(log \o evs) <= MaxEvents)
  <2>1. log' = SubSeq(log \o evs, 1, MaxEvents)
    BY <1>4 DEF Observe
  <2>2. \A i \in 1..MaxEvents : (log \o evs)[i] \in Event
    BY <1>1, <1>4, EventsAssumption
  <2> DEFINE whole == log \o evs
             cut == SubSeq(whole, 1, MaxEvents)
  <2> HIDE DEF whole, cut
  <2>3. cut \in Seq(Event) /\ Len(cut) = MaxEvents
    <3>1. 1 \in Int /\ MaxEvents \in Int /\ MaxEvents >= 1
      BY EventsAssumption
    <3>2. \A i \in 1..MaxEvents : whole[i] \in Event
      BY <2>2 DEF whole
    <3> QED BY <3>1, <3>2, SubSeqProperties DEF cut
  <2>4. log' = cut
    BY <2>1 DEF whole, cut
  <2> QED BY <1>2, <2>3, <2>4, EventsAssumption
<1> QED BY <1>3, <1>4

LEMMA ByConsumerType ==
  ASSUME NEW depth, NEW harness
  PROVE  ByConsumer(depth, harness) \in BOOLEAN
BY DEF ByConsumer

LEMMA KidWalkType ==
  ASSUME RecTypeOK, NEW k \in Kids, NEW depth, NEW harness
  PROVE  KidWalk(k, depth, harness) \in Seq(Event)
<1> DEFINE ev(kind) == Ev(kind, Array, k, ByConsumer(depth, harness), place[Array])
<1>1. ev("violation") \in Event /\ ev("enter") \in Event /\ ev("exit") \in Event
  BY StructsAre, EvType, ByConsumerType DEF RecTypeOK, Kinds, Nodes, Kids
<1>2. <<ev("violation")>> \in Seq(Event) /\ <<>> \in Seq(Event)
      /\ <<ev("enter"), ev("exit")>> \in Seq(Event)
  BY <1>1
<1>3. KidWalk(k, depth, harness)
        = (IF ByConsumer(depth, harness) THEN <<ev("violation")>> ELSE <<>>)
          \o <<ev("enter"), ev("exit")>>
  BY DEF KidWalk
<1> HIDE DEF ev
<1> QED BY <1>2, <1>3, ConcatProperties

LEMMA IfLiveType ==
  ASSUME RecTypeOK, NEW k \in Kids, NEW depth, NEW harness
  PROVE  IfLive(k, depth, harness) \in Seq(Event)
BY KidWalkType DEF IfLive

LEMMA OneEventType ==
  ASSUME RecTypeOK, NEW kind \in Kinds, NEW s \in Structs, NEW depth, NEW harness
  PROVE  <<Ev(kind, s, BASE, ByConsumer(depth, harness), place[s])>> \in Seq(Event)
<1>1. Ev(kind, s, BASE, ByConsumer(depth, harness), place[s]) \in Event
  BY EvType, ByConsumerType DEF RecTypeOK, Nodes, BASE
<1> QED BY <1>1

LEMMA ArrayWalkType ==
  ASSUME RecTypeOK, NEW depth, NEW harness
  PROVE  ArrayWalk(depth, harness) \in Seq(Event)
<1> DEFINE enter == <<Ev("enter", Array, BASE, ByConsumer(depth, harness), place[Array])>>
           exit == <<Ev("exit", Array, BASE, ByConsumer(depth, harness), place[Array])>>
           a == IfLive(1, depth + 1, harness)
           b == IfLive(2, depth + 1, harness)
           c == IfLive(DICT, depth + 1, harness)
<1>1. enter \in Seq(Event) /\ exit \in Seq(Event)
  BY OneEventType, StructsAre DEF Kinds
<1>2. a \in Seq(Event) /\ b \in Seq(Event) /\ c \in Seq(Event)
  BY IfLiveType DEF Kids
<1>3. ArrayWalk(depth, harness) = enter \o a \o b \o c \o exit
  BY DEF ArrayWalk
<1> HIDE DEF enter, exit, a, b, c
<1>4. enter \o a \in Seq(Event)
  BY <1>1, <1>2, ConcatProperties
<1>5. enter \o a \o b \in Seq(Event)
  BY <1>2, <1>4, ConcatProperties
<1>6. enter \o a \o b \o c \in Seq(Event)
  BY <1>2, <1>5, ConcatProperties
<1> QED BY <1>1, <1>3, <1>6, ConcatProperties

LEMMA StreamWalkType ==
  ASSUME RecTypeOK, NEW harness
  PROVE  StreamWalk(harness) \in Seq(Event)
<1> DEFINE enter == <<Ev("enter", Stream, BASE, ByConsumer(0, harness), place[Stream])>>
           exit == <<Ev("exit", Stream, BASE, ByConsumer(0, harness), place[Stream])>>
           batch == IF Undelivered THEN ArrayWalk(1, harness) ELSE <<>>
<1>1. enter \in Seq(Event) /\ exit \in Seq(Event)
  BY OneEventType, StructsAre DEF Kinds
<1>2. batch \in Seq(Event)
  BY ArrayWalkType
<1>3. StreamWalk(harness) = enter \o batch \o exit
  BY DEF StreamWalk
<1> HIDE DEF enter, exit, batch
<1>4. enter \o batch \in Seq(Event)
  BY <1>1, <1>2, ConcatProperties
<1> QED BY <1>1, <1>3, <1>4, ConcatProperties

LEMMA SchemaWalkType ==
  ASSUME RecTypeOK, NEW s \in Structs, NEW harness
  PROVE  SchemaWalk(s, harness) \in Seq(Event)
<1>1. /\ Ev("enter", s, BASE, ByConsumer(0, harness), place[s]) \in Event
      /\ Ev("exit", s, BASE, ByConsumer(0, harness), place[s]) \in Event
  BY EvType, ByConsumerType DEF RecTypeOK, Nodes, BASE, Kinds
<1> QED BY <1>1 DEF SchemaWalk

LEMMA WalkType ==
  ASSUME RecTypeOK, NEW s \in Structs, NEW harness
  PROVE  Walk(s, harness) \in Seq(Event)
<1>1. CASE s = Array
  BY <1>1, ArrayWalkType DEF Walk
<1>2. CASE s = Stream
  BY <1>2, StreamWalkType, StructsAre DEF Walk
<1>3. CASE s # Array /\ s # Stream
  BY <1>3, SchemaWalkType DEF Walk
<1> QED BY <1>1, <1>2, <1>3

LEMMA SinType ==
  ASSUME NEW s \in Structs, NEW harness
  PROVE  SinOf(s, harness) \subseteq Rules \X Objects
BY StructsAre DEF SinOf, Rules

LEMMA ReleaseType ==
  ASSUME RecTypeOK, NEW s \in Structs, NEW harness, NEW before \in Seq(Event),
         Release(s, harness, before)
  PROVE  RecTypeOK'
<1>1. before \o Walk(s, harness) \in Seq(Event)
  BY WalkType, ConcatProperties
<1>2. log' \in Seq(Event) /\ Len(log') <= MaxEvents /\ dropped' \in BOOLEAN
  BY <1>1, ObserveType DEF Release
<1>3. sins' \subseteq Rules \X Objects
  BY SinType DEF Release, RecTypeOK
<1>4. place' \in [Structs -> Places] /\ kids' \subseteq Kids /\ buffers' \in BOOLEAN
  BY DEF Release, RecTypeOK, Places
<1> QED BY <1>2, <1>3, <1>4 DEF Release, RecTypeOK

LEMMA ReleaseKidType ==
  ASSUME RecTypeOK, NEW k \in Nodes, ReleaseKid(k)
  PROVE  RecTypeOK'
<1>1. CASE k \in kids
  <2>1. KidWalk(k, 0, FALSE) \in Seq(Event)
    BY <1>1, KidWalkType DEF RecTypeOK
  <2>2. log' \in Seq(Event) /\ Len(log') <= MaxEvents /\ dropped' \in BOOLEAN
    BY <1>1, <2>1, ObserveType DEF ReleaseKid
  <2>3. sins' \subseteq Rules \X Objects
    BY <1>1 DEF ReleaseKid, RecTypeOK, Rules, Objects
  <2> QED BY <2>2, <2>3 DEF ReleaseKid, RecTypeOK
<1>2. CASE k \notin kids
  BY <1>2 DEF ReleaseKid, RecTypeOK
<1> QED BY <1>1, <1>2

LEMMA HarnessReleaseType ==
  ASSUME RecTypeOK, NEW s \in Structs, NEW where \in Places, HarnessRelease(s, where)
  PROVE  RecTypeOK'
<1>1. <<Note("harness", s, where)>> \in Seq(Event)
  BY NoteType DEF Kinds
<1>2. CASE place[s] = where
  BY <1>1, <1>2, ReleaseType DEF HarnessRelease
<1>3. CASE place[s] # where
  BY <1>3 DEF HarnessRelease, recVars, RecTypeOK
<1> QED BY <1>2, <1>3

LEMMA NoteImportType ==
  ASSUME RecTypeOK, NEW s \in Structs, NoteImport(s)
  PROVE  RecTypeOK'
<1>1. <<Note("imported", s, place[s])>> \in Seq(Event)
  BY NoteType DEF Kinds, RecTypeOK
<1> QED BY <1>1, ObserveType DEF NoteImport, RecTypeOK

LEMMA NoteReturnedType ==
  ASSUME RecTypeOK, NEW s \in Structs, NEW where \in Places, NoteReturned(s, where)
  PROVE  RecTypeOK'
<1>1. <<Note("returned", s, where)>> \in Seq(Event)
  BY NoteType DEF Kinds
<1>2. CASE place[s] = where
  BY <1>1, <1>2, ObserveType DEF NoteReturned, RecTypeOK
<1>3. CASE place[s] # where
  BY <1>3 DEF NoteReturned, recVars, RecTypeOK
<1> QED BY <1>2, <1>3

LEMMA MoveType ==
  ASSUME RecTypeOK, NEW moved, NEW dst \in Places, Move(moved, dst)
  PROVE  RecTypeOK'
<1> DEFINE a == IF Schema(1) \in moved THEN <<Note("moved", Schema(1), dst)>> ELSE <<>>
           b == IF Array \in moved THEN <<Note("moved", Array, dst)>> ELSE <<>>
<1>1. a \in Seq(Event) /\ b \in Seq(Event)
  BY NoteType, StructsAre DEF Kinds
<1>2. Observe(a \o b)
  BY DEF Move
<1>3. place' \in [Structs -> Places]
  BY DEF Move, RecTypeOK
<1> HIDE DEF a, b
<1>4. a \o b \in Seq(Event)
  BY <1>1, ConcatProperties
<1> QED BY <1>2, <1>3, <1>4, ObserveType DEF Move, RecTypeOK

LEMMA TakeType ==
  ASSUME RecTypeOK, NEW s \in Structs, Take(s)
  PROVE  RecTypeOK'
BY DEF Take, RecTypeOK, Places, Locations

LEMMA GetSchemaType ==
  ASSUME RecTypeOK, NEW k \in 1..MaxSchemas, GetSchema(k) \/ GetSchemaRunsOut(k)
  PROVE  RecTypeOK'
<1>1. CASE GetSchema(k)
  <2>1. /\ Note("exported", Schema(k), "own") \in Event
        /\ Note("imported", Schema(k), "own") \in Event
    BY EvType, StructsAre DEF Note, Nodes, BASE, Kinds, Places, Locations
  <2>2. <<Note("exported", Schema(k), "own"), Note("imported", Schema(k), "own")>> \in Seq(Event)
    BY <2>1
  <2> QED BY <1>1, <2>2, ObserveType, StructsAre DEF GetSchema, RecTypeOK, Places, Locations
<1>2. CASE GetSchemaRunsOut(k)
  BY <1>2, StructsAre DEF GetSchemaRunsOut, RecTypeOK, Places, Locations
<1> QED BY <1>1, <1>2

LEMMA GetNextType ==
  ASSUME RecTypeOK, GetNext
  PROVE  RecTypeOK'
<1>1. /\ Note("moved", Array, "own") \in Event /\ Note("imported", Array, "own") \in Event
      /\ Note("eof", Array, "own") \in Event
  BY EvType, StructsAre DEF Note, Nodes, BASE, Kinds, Places, Locations
<1>2. /\ <<Note("moved", Array, "own"), Note("imported", Array, "own")>> \in Seq(Event)
      /\ <<Note("eof", Array, "own")>> \in Seq(Event)
  BY <1>1
<1>3. CASE Undelivered
  BY <1>2, <1>3, ObserveType, StructsAre DEF GetNext, RecTypeOK, Places, Locations
<1>4. CASE ~Undelivered
  BY <1>2, <1>4, ObserveType DEF GetNext, RecTypeOK
<1> QED BY <1>3, <1>4

LEMMA BuiltType ==
  ASSUME NEW st \in BOOLEAN, NEW ar \in BOOLEAN, NEW nodes \in SUBSET Kids,
         Built(st, ar, nodes)
  PROVE  RecTypeOK
<1> DEFINE a == IF st THEN <<>> ELSE <<Note("exported", Schema(1), "home")>>
           b == IF ar THEN <<Note("exported", Array, "home")>> ELSE <<>>
           c == IF st THEN <<Note("exported", Stream, "home")>> ELSE <<>>
<1>1. /\ a \in Seq(Event) /\ Len(a) = (IF st THEN 0 ELSE 1)
      /\ b \in Seq(Event) /\ Len(b) \in 0..1
      /\ c \in Seq(Event) /\ Len(c) = (IF st THEN 1 ELSE 0)
  BY NoteType, StructsAre DEF Kinds, Places, Locations
<1>2. log = a \o b \o c
  BY DEF Built
<1>3. place \in [Structs -> Places] /\ kids \subseteq Kids
  BY DEF Built, Places, Locations
<1> HIDE DEF a, b, c
<1>4. a \o b \in Seq(Event) /\ Len(a \o b) = Len(a) + Len(b)
  BY <1>1, ConcatProperties
<1>5. a \o b \o c \in Seq(Event) /\ Len(a \o b \o c) = Len(a) + Len(b) + Len(c)
  BY <1>1, <1>4, ConcatProperties
<1>6. Len(log) <= MaxEvents
  BY <1>1, <1>2, <1>5, EventsAssumption
<1> QED BY <1>2, <1>3, <1>5, <1>6 DEF Built, RecTypeOK

LEMMA FreeBackingType ==
  ASSUME RecTypeOK, FreeBacking
  PROVE  RecTypeOK'
BY DEF FreeBacking, RecTypeOK

-----------------------------------------------------------------------------
(* What the judge concludes from a log, and from a longer one. *)

\* A set of numbers that is not empty has a least one.
LEMMA Least ==
  ASSUME NEW S \in SUBSET Nat, S # {}
  PROVE  \E i \in S : \A j \in S : i <= j
<1> DEFINE Before == {p \in Nat \X Nat : p[1] < p[2]}
<1>1. IsWellFoundedOn(Before, Nat)
  BY NatLessThanWellFounded, Zenon DEF OpToRel
<1> HIDE DEF Before
<1>2. \E i \in S : \A j \in S : ~ (<<j, i>> \in Before)
  BY <1>1, WFMin, Zenon
<1>3. ASSUME NEW i \in Nat, NEW j \in Nat, j < i
      PROVE  <<j, i>> \in Before
  BY <1>3 DEF Before
<1>4. PICK i \in S : \A j \in S : ~ (<<j, i>> \in Before)
  BY <1>2
<1>5. \A j \in S : ~ (j < i)
  BY <1>3, <1>4
<1> QED BY <1>5

\* What one event does to the machine of a kind.
Step(mc, e, obj) == IF e.obj = obj THEN After(mc, e) ELSE mc

\* f is that machine after each of the first n events.
Runs(f, log1, obj, n) ==
  /\ DOMAIN f = 0..n
  /\ f[0] = Fresh
  /\ \A i \in 1..n : f[i] = Step(f[i-1], log1[i], obj)

LEMMA RunsExist ==
  ASSUME NEW log1, NEW obj, NEW n \in Nat
  PROVE  \E f : Runs(f, log1, obj, n)
<1> DEFINE Bad == {k \in Nat : ~\E f : Runs(f, log1, obj, k)}
<1>1. SUFFICES ASSUME Bad # {} PROVE FALSE
  OBVIOUS
<1>2. PICK k \in Bad : \A j \in Bad : k <= j
  BY <1>1, Least
<1>3. k \in Nat /\ ~\E f : Runs(f, log1, obj, k)
  BY <1>2
<1>4. CASE k = 0
  <2>1. Runs([i \in 0..0 |-> Fresh], log1, obj, 0)
    BY DEF Runs
  <2> QED BY <1>3, <1>4, <2>1
<1>5. CASE k # 0
  <2>1. k - 1 \in Nat /\ k - 1 \notin Bad
    BY <1>2, <1>3, <1>5
  <2>2. PICK f : Runs(f, log1, obj, k - 1)
    BY <2>1
  <2> DEFINE g == [i \in 0..k |-> IF i = k THEN Step(f[k-1], log1[k], obj) ELSE f[i]]
  <2>3. \A i \in 0..k : g[i] = IF i = k THEN Step(f[k-1], log1[k], obj) ELSE f[i]
    OBVIOUS
  <2>4. DOMAIN g = 0..k
    OBVIOUS
  <2> HIDE DEF g
  <2>5. g[0] = Fresh
    BY <1>3, <1>5, <2>2, <2>3 DEF Runs
  <2>6. ASSUME NEW i \in 1..k PROVE g[i] = Step(g[i-1], log1[i], obj)
    <3>1. g[i-1] = f[i-1]
      BY <1>3, <2>3, <2>6
    <3>2. CASE i = k
      BY <1>3, <2>3, <3>1, <3>2
    <3>3. CASE i # k
      <4>1. i \in 1..(k-1) /\ i \in 0..k
        BY <1>3, <3>3
      <4> QED BY <2>2, <2>3, <3>1, <3>3, <4>1 DEF Runs
    <3> QED BY <3>2, <3>3
  <2>7. Runs(g, log1, obj, k)
    BY <2>4, <2>5, <2>6 DEF Runs
  <2> QED BY <1>3, <2>7
<1> QED BY <1>4, <1>5

\* Two runs agree as far as their logs do.
LEMMA RunsAgree ==
  ASSUME NEW la, NEW lb, NEW o, NEW x, NEW y, NEW m \in Nat, NEW n \in Nat,
         Runs(x, la, o, m), Runs(y, lb, o, n), m <= n,
         \A i \in 1..m : la[i] = lb[i]
  PROVE  \A i \in 0..m : x[i] = y[i]
<1> DEFINE Bad == {i \in 0..m : x[i] # y[i]}
<1>1. SUFFICES ASSUME Bad # {} PROVE FALSE
  OBVIOUS
<1>2. PICK k \in Bad : \A j \in Bad : k <= j
  <2>1. Bad \in SUBSET Nat
    OBVIOUS
  <2> HIDE DEF Bad
  <2> QED BY <1>1, <2>1, Least
<1>3. k # 0
  <2>1. x[0] = y[0]
    BY DEF Runs
  <2> QED BY <1>2, <2>1
<1>4. k \in 1..m /\ k \in 1..n /\ k - 1 \in 0..m /\ ~(k <= k - 1)
  BY <1>2, <1>3
<1>5. x[k-1] = y[k-1]
  BY <1>2, <1>4
<1>6. x[k] = Step(x[k-1], la[k], o) /\ y[k] = Step(y[k-1], lb[k], o)
  BY <1>4 DEF Runs
<1> QED BY <1>2, <1>4, <1>5, <1>6

LEMMA MachineRuns ==
  ASSUME NEW log1 \in Seq(Event), NEW obj
  PROVE  Runs(MachineOf(log1, obj), log1, obj, Len(log1))
<1> DEFINE F(h) == [i \in 0..Len(log1) |->
                      IF i = 0 THEN Fresh
                      ELSE IF log1[i].obj = obj THEN After(h[i-1], log1[i]) ELSE h[i-1]]
<1>1. Len(log1) \in Nat
  OBVIOUS
<1>2. PICK f : Runs(f, log1, obj, Len(log1))
  BY <1>1, RunsExist
<1>3. f = F(f)
  <2>1. f = [i \in 0..Len(log1) |-> f[i]]
    BY <1>2 DEF Runs
  <2>2. \A i \in 0..Len(log1) : f[i] = F(f)[i]
    <3> SUFFICES ASSUME NEW i \in 0..Len(log1) PROVE f[i] = F(f)[i]
      OBVIOUS
    <3>1. CASE i = 0
      BY <1>2, <3>1 DEF Runs
    <3>2. CASE i # 0
      <4>1. i \in 1..Len(log1)
        BY <1>1, <3>2
      <4> QED BY <1>2, <3>2, <4>1 DEF Runs, Step
    <3> QED BY <3>1, <3>2
  <2> QED BY <2>1, <2>2
<1>4. MachineOf(log1, obj) = CHOOSE h : h = F(h)
  BY DEF MachineOf
<1>5. MachineOf(log1, obj) = F(MachineOf(log1, obj))
  BY <1>3, <1>4
<1> DEFINE m == MachineOf(log1, obj)
<1> HIDE DEF m
<1>6. m = F(m)
  BY <1>5 DEF m
<1>7. DOMAIN m = 0..Len(log1) /\ m[0] = Fresh
  BY <1>1, <1>6
<1>8. ASSUME NEW i \in 1..Len(log1) PROVE m[i] = Step(m[i-1], log1[i], obj)
  <2>1. i \in 0..Len(log1) /\ i # 0
    BY <1>1
  <2> QED BY <1>6, <2>1 DEF Step
<1> QED BY <1>7, <1>8 DEF Runs, m

\* What the judge has concluded from a log.
Mach(log1) == [obj \in Objects |-> MachineOf(log1, obj)[Len(log1)]]

Found(log1, strict) ==
  {p \in Rules \X Objects :
     \E i \in 1..Len(log1) :
       log1[i].obj = p[2] /\ Breaks(p[1], MachineOf(log1, p[2])[i-1], log1[i], strict)}

LEMMA VerdictIs ==
  ASSUME NEW log1 \in Seq(Event), NEW strict
  PROVE  {<<f.rule, f.obj>> : f \in Verify(log1, strict)}
           = Found(log1, strict)
             \cup {<<"never-released", obj>> :
                     obj \in {o \in Objects : Mach(log1)[o].state \in {"exported", "imported"}}}
<1> DEFINE broken(i) == {rule \in Rules :
                           Breaks(rule, MachineOf(log1, log1[i].obj)[i-1], log1[i], strict)}
           A == UNION {{[rule |-> rule, obj |-> log1[i].obj, node |-> log1[i].node, seq |-> i] :
                          rule \in broken(i)} : i \in 1..Len(log1)}
           B == {[rule |-> "never-released", obj |-> obj, node |-> BASE, seq |-> 0] :
                   obj \in LeftLive(log1)}
           live == {o \in Objects : Mach(log1)[o].state \in {"exported", "imported"}}
<1>1. Verify(log1, strict) = A \cup B
  BY DEF Verify
<1>2. {<<f.rule, f.obj>> : f \in A} = Found(log1, strict)
  <2>1. ASSUME NEW f \in A PROVE <<f.rule, f.obj>> \in Found(log1, strict)
    <3>0. PICK i \in 1..Len(log1) : \E rule \in broken(i) :
            f = [rule |-> rule, obj |-> log1[i].obj, node |-> log1[i].node, seq |-> i]
      BY <2>1
    <3>1. PICK rule \in broken(i) :
            f = [rule |-> rule, obj |-> log1[i].obj, node |-> log1[i].node, seq |-> i]
      BY <3>0
    <3>2. log1[i].obj \in Objects
      <4>1. log1[i] \in Event
        BY ElementOfSeq
      <4> QED BY <4>1 DEF Event
    <3>3. f.rule = rule /\ f.obj = log1[i].obj
      BY <3>1
    <3>4. rule \in Rules /\ Breaks(rule, MachineOf(log1, log1[i].obj)[i-1], log1[i], strict)
      OBVIOUS
    <3> QED BY <3>2, <3>3, <3>4 DEF Found
  <2>2. ASSUME NEW p \in Found(log1, strict) PROVE \E f \in A : p = <<f.rule, f.obj>>
    <3>1. p \in Rules \X Objects
      BY DEF Found
    <3>2. PICK i \in 1..Len(log1) :
            log1[i].obj = p[2] /\ Breaks(p[1], MachineOf(log1, p[2])[i-1], log1[i], strict)
      BY DEF Found
    <3> DEFINE f == [rule |-> p[1], obj |-> log1[i].obj, node |-> log1[i].node, seq |-> i]
    <3>3. p[1] \in broken(i)
      BY <3>1, <3>2
    <3>4. f \in A
      BY <3>3
    <3>5. p = <<f.rule, f.obj>>
      BY <3>1, <3>2
    <3> QED BY <3>4, <3>5
  <2> HIDE DEF A
  <2> QED BY <2>1, <2>2
<1>3. {<<f.rule, f.obj>> : f \in B} = {<<"never-released", obj>> : obj \in live}
  <2>1. LeftLive(log1) = live
    BY DEF LeftLive, Mach
  <2>2. ASSUME NEW obj \in live
        PROVE  \E f \in B : <<f.rule, f.obj>> = <<"never-released", obj>>
    <3> DEFINE f == [rule |-> "never-released", obj |-> obj, node |-> BASE, seq |-> 0]
    <3>1. f \in B
      BY <2>1
    <3>2. f.rule = "never-released" /\ f.obj = obj
      OBVIOUS
    <3> HIDE DEF f, B
    <3> QED BY <3>1, <3>2
  <2>3. ASSUME NEW f \in B PROVE f.rule = "never-released" /\ f.obj \in live
    BY <2>1
  <2> HIDE DEF B, live
  <2> QED BY <2>2, <2>3
<1> HIDE DEF A, B, live
<1>4. {<<f.rule, f.obj>> : f \in A \cup B}
        = {<<f.rule, f.obj>> : f \in A} \cup {<<f.rule, f.obj>> : f \in B}
  OBVIOUS
<1> QED BY <1>1, <1>2, <1>3, <1>4 DEF live

\* An event nothing is concluded from.
Inert(e) ==
  /\ ~BaseRelease(e)
  /\ e.kind \notin {"exported", "imported", "moved", "returned"}
  /\ ~ChildReleasedByConsumer(e)

Silent(evs) == \A i \in 1..Len(evs) : Inert(evs[i])

LEMMA InertBreaks ==
  ASSUME NEW e, Inert(e), NEW rule, NEW mc, NEW strict
  PROVE  ~Breaks(rule, mc, e, strict) /\ \A obj : Step(mc, e, obj) = mc
BY DEF Inert, Breaks, ReleasedTwice, ReleasedBeforeImport, ReleasedAtStaleLocation,
       NotReleasedByConsumer, ImportedOutOfOrder, Step, After

LEMMA InertStep ==
  ASSUME NEW e, Inert(e), NEW mc, NEW obj
  PROVE  Step(mc, e, obj) = mc
BY DEF Inert, Step, After

\* The machines after a log are not changed by what follows it.
LEMMA MachinePrefix ==
  ASSUME NEW log1 \in Seq(Event), NEW evs \in Seq(Event), NEW obj
  PROVE  /\ Runs(MachineOf(log1 \o evs, obj), log1 \o evs, obj, Len(log1) + Len(evs))
         /\ \A i \in 0..Len(log1) : MachineOf(log1 \o evs, obj)[i] = MachineOf(log1, obj)[i]
<1>1. /\ log1 \o evs \in Seq(Event) /\ Len(log1 \o evs) = Len(log1) + Len(evs)
      /\ \A i \in 1..Len(log1) : (log1 \o evs)[i] = log1[i]
      /\ Len(log1) \in Nat /\ Len(evs) \in Nat
  OBVIOUS
<1>2. Runs(MachineOf(log1, obj), log1, obj, Len(log1))
  BY MachineRuns
<1>3. Runs(MachineOf(log1 \o evs, obj), log1 \o evs, obj, Len(log1) + Len(evs))
  BY <1>1, MachineRuns
<1>4. Len(log1) + Len(evs) \in Nat /\ Len(log1) <= Len(log1) + Len(evs)
  BY <1>1
<1> DEFINE f == MachineOf(log1, obj)
           whole == log1 \o evs
           g == MachineOf(whole, obj)
           n == Len(log1)
           k == Len(log1) + Len(evs)
<1>5. \A i \in 1..n : log1[i] = whole[i]
  BY <1>1
<1>6. /\ Runs(f, log1, obj, n) /\ Runs(g, whole, obj, k)
      /\ n \in Nat /\ k \in Nat /\ n <= k
  BY <1>1, <1>2, <1>3, <1>4
<1> HIDE DEF f, g, whole, n, k
<1>7. \A i \in 0..n : f[i] = g[i]
  <2>1. ASSUME NEW la, NEW lb, NEW o, NEW x, NEW y, NEW i \in Nat, NEW j \in Nat,
               Runs(x, la, o, i), Runs(y, lb, o, j), i <= j,
               \A l \in 1..i : la[l] = lb[l]
        PROVE  \A l \in 0..i : x[l] = y[l]
    BY <2>1, RunsAgree
  <2> QED BY ONLY <1>5, <1>6, <2>1
<1> QED BY <1>3, <1>7 DEF f, g, whole, n

LEMMA FoundConcat ==
  ASSUME NEW log1 \in Seq(Event), NEW evs \in Seq(Event), NEW strict
  PROVE  Found(log1 \o evs, strict)
           = Found(log1, strict)
             \cup {p \in Rules \X Objects :
                     \E j \in 1..Len(evs) :
                       /\ evs[j].obj = p[2]
                       /\ Breaks(p[1], MachineOf(log1 \o evs, p[2])[Len(log1) + j - 1],
                                 evs[j], strict)}
<1> DEFINE whole == log1 \o evs
           n == Len(log1)
           k == Len(evs)
           New == {p \in Rules \X Objects :
                     \E j \in 1..k :
                       /\ evs[j].obj = p[2]
                       /\ Breaks(p[1], MachineOf(whole, p[2])[n + j - 1], evs[j], strict)}
<1>1. /\ n \in Nat /\ k \in Nat /\ Len(whole) = n + k
      /\ \A i \in 1..n : whole[i] = log1[i]
      /\ \A j \in 1..k : whole[n + j] = evs[j]
  OBVIOUS
<1>2. \A obj : \A i \in 1..n : MachineOf(whole, obj)[i-1] = MachineOf(log1, obj)[i-1]
  <2> SUFFICES ASSUME NEW obj, NEW i \in 1..n
               PROVE  MachineOf(whole, obj)[i-1] = MachineOf(log1, obj)[i-1]
    OBVIOUS
  <2>1. i - 1 \in 0..n
    BY <1>1
  <2> QED BY <2>1, MachinePrefix
<1> HIDE DEF whole, n, k, New
<1>3. ASSUME NEW p \in Rules \X Objects
      PROVE  p \in Found(whole, strict) <=> p \in Found(log1, strict) \/ p \in New
  <2>1. ASSUME NEW i \in 1..(n + k), whole[i].obj = p[2],
               Breaks(p[1], MachineOf(whole, p[2])[i-1], whole[i], strict)
        PROVE  p \in Found(log1, strict) \/ p \in New
    <3>1. CASE i \in 1..n
      <4>1. log1[i].obj = p[2] /\ Breaks(p[1], MachineOf(log1, p[2])[i-1], log1[i], strict)
        BY <1>1, <1>2, <2>1, <3>1
      <4> QED BY <3>1, <4>1 DEF Found, n
    <3>2. CASE i \notin 1..n
      <4>1. PICK j \in 1..k : i = n + j
        <5>1. i - n \in 1..k /\ i = n + (i - n)
          BY <1>1, <3>2
        <5> QED BY <5>1
      <4>2. whole[i] = evs[j] /\ i - 1 = n + j - 1
        BY <1>1, <4>1
      <4>3. /\ evs[j].obj = p[2]
            /\ Breaks(p[1], MachineOf(whole, p[2])[n + j - 1], evs[j], strict)
        BY <2>1, <4>2
      <4> QED BY <4>3 DEF New
    <3> QED BY <3>1, <3>2
  <2>2. ASSUME p \in Found(log1, strict) PROVE p \in Found(whole, strict)
    <3>1. PICK i \in 1..n :
            log1[i].obj = p[2] /\ Breaks(p[1], MachineOf(log1, p[2])[i-1], log1[i], strict)
      BY <2>2 DEF Found, n
    <3>2. i \in 1..Len(whole)
      BY <1>1
    <3>3. whole[i].obj = p[2] /\ Breaks(p[1], MachineOf(whole, p[2])[i-1], whole[i], strict)
      BY <1>1, <1>2, <3>1
    <3> QED BY <3>2, <3>3 DEF Found
  <2>3. ASSUME p \in New PROVE p \in Found(whole, strict)
    <3>1. PICK j \in 1..k :
            evs[j].obj = p[2] /\ Breaks(p[1], MachineOf(whole, p[2])[n + j - 1], evs[j], strict)
      BY <2>3 DEF New
    <3>2. PICK i \in 1..Len(whole) : i = n + j
      <4>1. n + j \in 1..Len(whole)
        BY <1>1
      <4> QED BY <4>1
    <3>3. i - 1 = n + j - 1 /\ whole[i] = evs[j]
      BY <1>1, <3>2
    <3>4. whole[i].obj = p[2] /\ Breaks(p[1], MachineOf(whole, p[2])[i-1], whole[i], strict)
      BY <3>1, <3>3
    <3> QED BY <3>4 DEF Found
  <2>4. p \in Found(whole, strict) => \E i \in 1..(n + k) :
          whole[i].obj = p[2] /\ Breaks(p[1], MachineOf(whole, p[2])[i-1], whole[i], strict)
    BY <1>1 DEF Found
  <2> QED BY <2>1, <2>2, <2>3, <2>4
<1>4. /\ Found(whole, strict) \subseteq Rules \X Objects
      /\ Found(log1, strict) \subseteq Rules \X Objects
      /\ New \subseteq Rules \X Objects
  BY DEF Found, New
<1>5. Found(whole, strict) = Found(log1, strict) \cup New
  BY <1>3, <1>4
<1> QED BY <1>5 DEF whole, n, k, New

LEMMA Regroup ==
  ASSUME NEW a \in Seq(Event), NEW b \in Seq(Event), NEW c \in Seq(Event)
  PROVE  a \o (b \o c) = (a \o b) \o c
BY ConcatAssociative

\* What is concluded from log2 is what was from log1, and what e adds to it.
Concludes(log1, log2, e) ==
  /\ Mach(log2) = [Mach(log1) EXCEPT ![e.obj] = After(@, e)]
  /\ \A strict :
       Found(log2, strict)
         = Found(log1, strict)
           \cup {p \in Rules \X {e.obj} : Breaks(p[1], Mach(log1)[e.obj], e, strict)}

\* The same, whichever of the two the judge is given.
Alike(log1, log2) ==
  /\ Mach(log2) = Mach(log1)
  /\ \A strict : Found(log2, strict) = Found(log1, strict)

\* One more event.
LEMMA HearOne ==
  ASSUME NEW log1 \in Seq(Event), NEW e \in Event
  PROVE  Concludes(log1, log1 \o <<e>>, e)
<1> DEFINE evs == <<e>>
           whole == log1 \o evs
           n == Len(log1)
<1>0. evs \in Seq(Event) /\ Len(evs) = 1 /\ evs[1] = e
  OBVIOUS
<1> HIDE DEF evs
<1>1. n \in Nat /\ whole \in Seq(Event) /\ Len(whole) = n + 1 /\ whole[n + 1] = e
  <2>1. /\ n \in Nat /\ whole \in Seq(Event) /\ Len(whole) = n + Len(evs)
        /\ \A i \in 1..Len(evs) : whole[n + i] = evs[i]
    BY <1>0, ConcatProperties
  <2>2. 1 \in 1..Len(evs)
    BY <1>0
  <2> QED BY <1>0, <2>1, <2>2
<1>2. e.obj \in Objects
  BY DEF Event
<1>3. \A obj \in Objects :
        /\ MachineOf(whole, obj)[n] = Mach(log1)[obj]
        /\ MachineOf(whole, obj)[n + 1] = Step(Mach(log1)[obj], e, obj)
  <2> SUFFICES ASSUME NEW obj \in Objects
               PROVE  /\ MachineOf(whole, obj)[n] = Mach(log1)[obj]
                      /\ MachineOf(whole, obj)[n + 1] = Step(Mach(log1)[obj], e, obj)
    OBVIOUS
  <2>1. n \in 0..n /\ n + 1 \in 1..(n + 1) /\ (n + 1) - 1 = n
    BY <1>1
  <2>2. MachineOf(whole, obj)[n] = MachineOf(log1, obj)[n]
    BY <1>0, <2>1, MachinePrefix
  <2>3. Runs(MachineOf(whole, obj), whole, obj, n + 1)
    BY <1>1, MachineRuns
  <2> HIDE DEF whole, n
  <2>4. MachineOf(whole, obj)[n + 1] = Step(MachineOf(whole, obj)[n], e, obj)
    BY <1>1, <2>1, <2>3 DEF Runs
  <2> QED BY <2>2, <2>4 DEF Mach, n
<1>4. Mach(whole) = [Mach(log1) EXCEPT ![e.obj] = After(@, e)]
  <2>1. \A obj \in Objects :
          Mach(whole)[obj] = IF obj = e.obj THEN After(Mach(log1)[obj], e) ELSE Mach(log1)[obj]
    BY <1>1, <1>3 DEF Mach, Step
  <2>2. DOMAIN Mach(whole) = Objects /\ DOMAIN Mach(log1) = Objects
    BY DEF Mach
  <2>3. Mach(whole) = [obj \in Objects |-> Mach(whole)[obj]]
    BY DEF Mach
  <2> HIDE DEF whole
  <2> QED BY <1>2, <2>1, <2>2, <2>3
<1>5. ASSUME NEW strict
      PROVE  Found(whole, strict)
        = Found(log1, strict)
          \cup {p \in Rules \X Objects :
                  e.obj = p[2] /\ Breaks(p[1], MachineOf(whole, p[2])[n], e, strict)}
  <2>1. \A j : j \in 1..Len(evs) <=> j = 1
    BY <1>0
  <2>2. n + 1 - 1 = n
    BY <1>1
  <2> DEFINE New(p) == \E j \in 1..Len(evs) :
                         /\ evs[j].obj = p[2]
                         /\ Breaks(p[1], MachineOf(whole, p[2])[n + j - 1], evs[j], strict)
  <2>3. Found(whole, strict) = Found(log1, strict) \cup {p \in Rules \X Objects : New(p)}
    BY <1>0, FoundConcat
  <2> HIDE DEF whole, n
  <2>4. \A p : New(p) <=> e.obj = p[2] /\ Breaks(p[1], MachineOf(whole, p[2])[n], e, strict)
    BY <1>0, <2>1, <2>2
  <2> HIDE DEF New
  <2> QED BY <2>3, <2>4
<1> HIDE DEF whole, evs, n
<1>6. ASSUME NEW strict PROVE
      {p \in Rules \X Objects : e.obj = p[2] /\ Breaks(p[1], MachineOf(whole, p[2])[n], e, strict)}
        = {p \in Rules \X {e.obj} : Breaks(p[1], Mach(log1)[e.obj], e, strict)}
  BY <1>2, <1>3
<1>7. Concludes(log1, whole, e)
  BY <1>4, <1>5, <1>6 DEF Concludes
<1> QED BY <1>7 DEF whole, evs

\* Events nothing is concluded from.
LEMMA HearQuiet ==
  ASSUME NEW log1 \in Seq(Event), NEW evs \in Seq(Event), Silent(evs)
  PROVE  Alike(log1, log1 \o evs)
<1> DEFINE whole == log1 \o evs
           n == Len(log1)
           k == Len(evs)
<1>1. /\ n \in Nat /\ k \in Nat /\ Len(whole) = n + k
      /\ \A j \in 1..k : whole[n + j] = evs[j]
      /\ \A j \in 1..k : Inert(evs[j])
  BY DEF Silent
<1>2. ASSUME NEW obj PROVE \A j \in 0..k : MachineOf(whole, obj)[n + j] = MachineOf(whole, obj)[n]
  <2> DEFINE m == MachineOf(whole, obj)
             Bad == {j \in 0..k : m[n + j] # m[n]}
  <2>1. Runs(m, whole, obj, n + k)
    BY MachinePrefix
  <2> HIDE DEF m, whole, n, k
  <2>2. SUFFICES ASSUME Bad # {} PROVE FALSE
    BY DEF m
  <2>3. Bad \in SUBSET Nat
    BY <1>1
  <2>4. PICK j \in Bad : \A i \in Bad : j <= i
    <3> HIDE DEF Bad
    <3> QED BY <2>2, <2>3, Least
  <2>5. j # 0
    BY <1>1, <2>4
  <2>6. j \in 1..k /\ n + j \in 1..(n + k) /\ j - 1 \in 0..k /\ ~(j <= j - 1) /\ (n + j) - 1 = n + (j - 1)
    BY <1>1, <2>4, <2>5
  <2>7. m[n + (j - 1)] = m[n]
    BY <2>4, <2>6
  <2>8. m[n + j] = Step(m[n + (j - 1)], evs[j], obj)
    BY <1>1, <2>1, <2>6 DEF Runs
  <2>9. m[n + j] = m[n + (j - 1)]
    BY <1>1, <2>6, <2>8, InertStep
  <2> QED BY <2>4, <2>7, <2>9
<1>3. Mach(whole) = Mach(log1)
  <2>1. ASSUME NEW obj PROVE MachineOf(whole, obj)[Len(whole)] = MachineOf(log1, obj)[n]
    <3>1. k \in 0..k /\ n \in 0..n
      BY <1>1
    <3>2. MachineOf(whole, obj)[n + k] = MachineOf(whole, obj)[n]
      BY <1>2, <3>1
    <3>3. MachineOf(whole, obj)[n] = MachineOf(log1, obj)[n]
      BY <3>1, MachinePrefix
    <3> QED BY <1>1, <3>2, <3>3
  <2> QED BY <2>1 DEF Mach
<1>4. ASSUME NEW strict PROVE Found(whole, strict) = Found(log1, strict)
  <2> DEFINE New(p) == \E j \in 1..k :
                         /\ evs[j].obj = p[2]
                         /\ Breaks(p[1], MachineOf(whole, p[2])[n + j - 1], evs[j], strict)
  <2>1. Found(whole, strict) = Found(log1, strict) \cup {p \in Rules \X Objects : New(p)}
    BY FoundConcat
  <2> HIDE DEF whole, n, k
  <2>2. \A p : ~New(p)
    BY <1>1, InertBreaks
  <2> HIDE DEF New
  <2> QED BY <2>1, <2>2
<1> QED BY <1>3, <1>4 DEF Alike


\* One event that matters, among any that do not.
LEMMA HearLoud ==
  ASSUME NEW log1 \in Seq(Event), NEW e \in Event,
         NEW pre \in Seq(Event), Silent(pre), NEW post \in Seq(Event), Silent(post)
  PROVE  Concludes(log1, log1 \o (pre \o (<<e>> \o post)), e)
<1> DEFINE log2 == log1 \o pre
           one == <<e>>
           log3 == log2 \o one
           log4 == log3 \o post
<1>1. one \in Seq(Event)
  OBVIOUS
<1>2. log2 \in Seq(Event) /\ Alike(log1, log2)
  BY HearQuiet
<1> HIDE DEF log2
<1>3. Concludes(log2, log3, e)
  BY <1>2, HearOne
<1> HIDE DEF one
<1>4. log3 \in Seq(Event)
  BY <1>1, <1>2, ConcatProperties
<1> HIDE DEF log3
<1>5. Alike(log3, log4)
  BY <1>4, HearQuiet
<1>6. log4 = log1 \o (pre \o (one \o post))
  <2>1. one \o post \in Seq(Event)
    BY <1>1, ConcatProperties
  <2>2. log1 \o (pre \o (one \o post)) = (log1 \o pre) \o (one \o post)
    BY <2>1, Regroup
  <2>3. log2 \o (one \o post) = (log2 \o one) \o post
    BY <1>1, <1>2, Regroup
  <2> QED BY <2>2, <2>3 DEF log2, log3
<1> HIDE DEF log4
<1>7. Concludes(log1, log4, e)
  BY <1>2, <1>3, <1>5 DEF Alike, Concludes
<1> QED BY <1>6, <1>7 DEF one

LEMMA QuietConcat ==
  ASSUME NEW a \in Seq(Event), Silent(a), NEW b \in Seq(Event), Silent(b)
  PROVE  a \o b \in Seq(Event) /\ Silent(a \o b)
<1>1. Len(a) \in Nat /\ Len(b) \in Nat /\ a \o b \in Seq(Event)
  OBVIOUS
<1>2. ASSUME NEW i \in 1..Len(a \o b) PROVE Inert((a \o b)[i])
  <2>1. CASE i <= Len(a)
    <3>1. (a \o b)[i] = a[i] /\ i \in 1..Len(a)
      BY <2>1
    <3> QED BY <3>1 DEF Silent
  <2>2. CASE ~(i <= Len(a))
    <3>1. PICK j \in 1..Len(b) : (a \o b)[i] = b[j]
      <4>1. (a \o b)[i] = b[i - Len(a)] /\ i - Len(a) \in 1..Len(b)
        BY <1>1, <2>2
      <4> QED BY <4>1
    <3> QED BY <3>1 DEF Silent
  <2> QED BY <2>1, <2>2
<1> QED BY <1>1, <1>2 DEF Silent

LEMMA QuietOne ==
  ASSUME NEW e \in Event, Inert(e)
  PROVE  <<e>> \in Seq(Event) /\ Silent(<<e>>)
<1>1. Len(<<e>>) = 1 /\ <<e>>[1] = e
  OBVIOUS
<1>2. \A i \in 1..Len(<<e>>) : i = 1
  BY <1>1
<1> QED BY <1>1, <1>2 DEF Silent

LEMMA QuietNone == <<>> \in Seq(Event) /\ Silent(<<>>)
BY DEF Silent

\* A log that lost nothing is all that was observed.
LEMMA LogIsWhole ==
  ASSUME RecTypeOK, NEW evs \in Seq(Event), Observe(evs), ~dropped'
  PROVE  log' = log \o evs /\ ~dropped
<1>1. ~dropped /\ ~(Len(log \o evs) > MaxEvents)
  BY Zenon DEF Observe
<1>2. Len(log \o evs) \in Nat
  BY DEF RecTypeOK
<1>3. Len(log \o evs) <= MaxEvents
  BY <1>1, <1>2, EventsAssumption
<1> QED BY <1>1, <1>3 DEF Observe

-----------------------------------------------------------------------------
(* What each release tells the judge. *)

\* A release callback entered: the event the judge goes by.
Enters(s, by) == Ev("enter", s, BASE, by, place[s])

LEMMA EntersType ==
  ASSUME RecTypeOK, NEW s \in Structs, NEW by \in BOOLEAN
  PROVE  Enters(s, by) \in Event
BY EvType DEF Enters, RecTypeOK, Kinds, Nodes, BASE

\* Nothing is concluded from the end of a release or from the harness's mark.
LEMMA QuietNotes ==
  ASSUME NEW kind \in {"exit", "harness", "eof", "violation"}, NEW s \in Structs,
         NEW node \in Nodes, NEW by \in BOOLEAN, NEW where \in Places
  PROVE  <<Ev(kind, s, node, by, where)>> \in Seq(Event) /\ Silent(<<Ev(kind, s, node, by, where)>>)
<1>1. Ev(kind, s, node, by, where) \in Event
  BY EvType DEF Kinds
<1>2. Inert(Ev(kind, s, node, by, where))
  BY DEF Ev, Inert, BaseRelease, ChildReleasedByConsumer
<1> QED BY <1>1, <1>2, QuietOne

LEMMA OneEvent ==
  ASSUME NEW a \in Event
  PROVE  <<a>> \in Seq(Event) /\ Len(<<a>>) = 1 /\ <<a>>[1] = a
OBVIOUS

\* Two elements, put together or at once.
LEMMA TwoOf ==
  ASSUME NEW S, NEW a \in S, NEW b \in S
  PROVE  /\ <<a, b>> \in Seq(S)
         /\ <<a, b>> = <<a>> \o <<b>> /\ <<>> \o <<a, b>> = <<a, b>>
<1> DEFINE x == <<a, b>>
           y == <<a>> \o <<b>>
<1>1. x \in Seq(S) /\ Len(x) = 2 /\ x[1] = a /\ x[2] = b
  OBVIOUS
<1>2. y \in Seq(S) /\ Len(y) = 2 /\ y[1] = a /\ y[2] = b
  <2> DEFINE l == <<a>>
             r == <<b>>
  <2>1. /\ l \in Seq(S) /\ Len(l) = 1 /\ l[1] = a
        /\ r \in Seq(S) /\ Len(r) = 1 /\ r[1] = b
    OBVIOUS
  <2> HIDE DEF l, r
  <2>2. l \o r \in Seq(S) /\ Len(l \o r) = 2 /\ (l \o r)[1] = a /\ (l \o r)[2] = b
    BY <2>1, ConcatProperties
  <2> QED BY <2>2 DEF l, r
<1>3. <<>> \o x = x
  BY <1>1, ConcatEmptySeq
<1> HIDE DEF x, y
<1>4. x = y
  <2>1. \A i \in 1..Len(x) : x[i] = y[i]
    <3>1. \A i \in 1..2 : i = 1 \/ i = 2
      OBVIOUS
    <3> QED BY <1>1, <1>2, <3>1
  <2> QED BY <1>1, <1>2, <2>1, SeqEqual
<1> QED BY <1>1, <1>3, <1>4 DEF x, y

LEMMA TwoEvents ==
  ASSUME NEW a \in Event, NEW b \in Event
  PROVE  /\ <<a, b>> \in Seq(Event)
         /\ <<a, b>> = <<a>> \o <<b>> /\ <<>> \o <<a, b>> = <<a, b>>
BY TwoOf

\* A node released inside another release says nothing.
LEMMA NestedKidQuiet ==
  ASSUME RecTypeOK, NEW k \in Kids, NEW depth, depth # 0, NEW harness
  PROVE  IfLive(k, depth, harness) \in Seq(Event) /\ Silent(IfLive(k, depth, harness))
<1> DEFINE a == Ev("enter", Array, k, FALSE, place[Array])
           b == Ev("exit", Array, k, FALSE, place[Array])
<1>1. ByConsumer(depth, harness) = FALSE
  BY DEF ByConsumer
<1>2. KidWalk(k, depth, harness) = <<>> \o <<a, b>>
  BY <1>1 DEF KidWalk
<1>3. a \in Event /\ b \in Event
  BY EvType, StructsAre DEF RecTypeOK, Kinds, Nodes, Kids
<1>4. k # BASE
  BY DEF Kids, BASE, DICT
<1>5. Inert(a) /\ Inert(b)
  BY <1>4 DEF Ev, Inert, BaseRelease, ChildReleasedByConsumer
<1> HIDE DEF a, b
<1>6. <<a, b>> = <<a>> \o <<b>> /\ <<>> \o <<a, b>> = <<a, b>>
  BY <1>3, TwoEvents
<1>7. <<a>> \o <<b>> \in Seq(Event) /\ Silent(<<a>> \o <<b>>)
  BY <1>3, <1>5, QuietOne, QuietConcat
<1>8. KidWalk(k, depth, harness) \in Seq(Event) /\ Silent(KidWalk(k, depth, harness))
  BY <1>2, <1>6, <1>7
<1> QED BY <1>8, QuietNone DEF IfLive

\* The array's release: its own entry, then what says nothing.
LEMMA ArrayWalkShape ==
  ASSUME RecTypeOK, NEW depth \in Nat, NEW harness \in BOOLEAN
  PROVE  \E rest \in Seq(Event) :
           /\ Silent(rest)
           /\ ArrayWalk(depth, harness) = <<Enters(Array, ByConsumer(depth, harness))>> \o rest
<1> DEFINE by == ByConsumer(depth, harness)
           one == <<Enters(Array, by)>>
           x == <<Ev("exit", Array, BASE, by, place[Array])>>
           a == IfLive(1, depth + 1, harness)
           b == IfLive(2, depth + 1, harness)
           c == IfLive(DICT, depth + 1, harness)
<1>0. by \in BOOLEAN /\ BASE \in Nodes /\ place[Array] \in Places /\ depth + 1 # 0
  BY ByConsumerType, StructsAre DEF Nodes, RecTypeOK
<1>1. one \in Seq(Event)
  BY <1>0, EntersType, StructsAre
<1>2. x \in Seq(Event) /\ Silent(x)
  BY <1>0, QuietNotes, StructsAre
<1>3. /\ a \in Seq(Event) /\ Silent(a) /\ b \in Seq(Event) /\ Silent(b)
      /\ c \in Seq(Event) /\ Silent(c)
  BY <1>0, NestedKidQuiet DEF Kids
<1>4. ArrayWalk(depth, harness) = one \o a \o b \o c \o x
  BY DEF ArrayWalk, Enters
<1> HIDE DEF one, x, a, b, c, by
<1> DEFINE r1 == c \o x
           r2 == b \o r1
           r3 == a \o r2
<1>5. r1 \in Seq(Event) /\ Silent(r1)
  BY <1>2, <1>3, QuietConcat
<1> HIDE DEF r1
<1>6. r2 \in Seq(Event) /\ Silent(r2)
  BY <1>3, <1>5, QuietConcat
<1> HIDE DEF r2
<1>7. r3 \in Seq(Event) /\ Silent(r3)
  BY <1>3, <1>6, QuietConcat
<1> HIDE DEF r3
<1>8. one \o a \o b \o c \o x = one \o r3
  <2>1. one \o a \in Seq(Event)
    BY <1>1, <1>3, ConcatProperties
  <2>2. (one \o a) \o b \in Seq(Event)
    BY <1>3, <2>1, ConcatProperties
  <2>3. ((one \o a) \o b) \o r1 = (((one \o a) \o b) \o c) \o x
    BY <1>2, <1>3, <2>2, Regroup DEF r1
  <2>4. (one \o a) \o r2 = ((one \o a) \o b) \o r1
    BY <1>3, <1>5, <2>1, Regroup DEF r2
  <2>5. one \o r3 = (one \o a) \o r2
    BY <1>1, <1>3, <1>6, Regroup DEF r3
  <2> QED BY <2>3, <2>4, <2>5
<1> QED BY <1>4, <1>7, <1>8 DEF one, by

\* What a release tells the judge: that it was entered and by whom, and for a
\* stream's that the batch it never delivered went inside it.
LEMMA WalkTells ==
  ASSUME RecTypeOK, NEW s \in Structs, NEW harness \in BOOLEAN,
         NEW before \in Seq(Event), Silent(before)
  PROVE  \E log2 \in Seq(Event) :
           /\ Concludes(log, log2, Enters(s, ~harness))
           /\ IF s = Stream /\ Undelivered
              THEN Concludes(log2, log \o (before \o Walk(s, harness)), Enters(Array, FALSE))
              ELSE Alike(log2, log \o (before \o Walk(s, harness)))
<1> DEFINE one == <<Enters(s, ~harness)>>
           x == <<Ev("exit", s, BASE, ~harness, place[s])>>
<1>0. /\ log \in Seq(Event) /\ (~harness) \in BOOLEAN /\ BASE \in Nodes
      /\ place[s] \in Places /\ ByConsumer(0, harness) = (~harness)
      /\ ByConsumer(1, harness) = FALSE
  BY DEF RecTypeOK, Nodes, ByConsumer
<1>1. Enters(s, ~harness) \in Event /\ Enters(Array, FALSE) \in Event
  BY <1>0, EntersType, StructsAre
<1>2. x \in Seq(Event) /\ Silent(x)
  BY <1>0, QuietNotes
<1>3. one \in Seq(Event) /\ <<Enters(Array, FALSE)>> \in Seq(Event)
  BY <1>1, OneEvent
<1>4. ASSUME NEW rest \in Seq(Event), Silent(rest), Walk(s, harness) = one \o rest,
             ~(s = Stream /\ Undelivered)
      PROVE  \E log2 \in Seq(Event) :
               /\ Concludes(log, log2, Enters(s, ~harness))
               /\ Alike(log2, log \o (before \o Walk(s, harness)))
  <2> DEFINE log2 == log \o (before \o Walk(s, harness))
  <2>1. log2 \in Seq(Event)
    BY <1>0, WalkType, ConcatProperties
  <2>2. Concludes(log, log2, Enters(s, ~harness))
    BY <1>0, <1>1, <1>4, HearLoud
  <2>3. Alike(log2, log2)
    BY DEF Alike
  <2> HIDE DEF log2
  <2>4. \E l \in Seq(Event) : Concludes(log, l, Enters(s, ~harness)) /\ Alike(l, log2)
    BY <2>1, <2>2, <2>3
  <2> QED BY <2>4 DEF log2
<1>5. CASE s = Array
  <2>1. PICK rest \in Seq(Event) :
          Silent(rest) /\ ArrayWalk(0, harness) = <<Enters(Array, ByConsumer(0, harness))>> \o rest
    BY ArrayWalkShape
  <2>2. Walk(s, harness) = one \o rest
    BY <1>0, <1>5, <2>1 DEF Walk
  <2> QED BY <1>4, <1>5, <2>1, <2>2, StructsAre
<1>6. CASE s \notin {Array, Stream}
  <2>1. Walk(s, harness) = one \o x
    BY <1>0, <1>6 DEF Walk, SchemaWalk, Enters
  <2> QED BY <1>2, <1>4, <1>6, <2>1
<1>7. CASE s = Stream /\ ~Undelivered
  <2>1. Walk(s, harness) = one \o <<>> \o x
    BY <1>0, <1>7, StructsAre DEF Walk, StreamWalk, Enters
  <2>2. one \o <<>> = one
    BY <1>3
  <2> QED BY <1>2, <1>4, <1>7, <2>1, <2>2
<1>8. CASE s = Stream /\ Undelivered
  <2>1. PICK rest \in Seq(Event) :
          Silent(rest) /\ ArrayWalk(1, harness) = <<Enters(Array, ByConsumer(1, harness))>> \o rest
    BY ArrayWalkShape
  <2> DEFINE two == <<Enters(Array, FALSE)>>
             r == rest \o x
             log2 == log \o (before \o (one \o <<>>))
             tail == two \o r
  <2>2. Walk(s, harness) = one \o (two \o rest) \o x
    <3>1. Walk(s, harness) = one \o ArrayWalk(1, harness) \o x
      BY <1>0, <1>8, StructsAre DEF Walk, StreamWalk, Enters
    <3>2. ArrayWalk(1, harness) = two \o rest
      BY <1>0, <2>1
    <3> QED BY <3>1, <3>2
  <2>3. two \in Seq(Event)
    BY <1>3
  <2>4. r \in Seq(Event) /\ Silent(r)
    BY <1>2, <2>1, QuietConcat
  <2> HIDE DEF r
  <2>5. Concludes(log, log2, Enters(s, ~harness))
    BY <1>0, <1>1, QuietNone, HearLoud
  <2>6. log2 = log \o (before \o one)
    BY <1>3
  <2>7. before \o one \in Seq(Event) /\ log2 \in Seq(Event)
    BY <1>0, <1>3, <2>6, ConcatProperties
  <2> HIDE DEF log2
  <2>8. Concludes(log2, log2 \o (<<>> \o tail), Enters(Array, FALSE))
    BY <1>1, <2>4, <2>7, QuietNone, HearLoud
  <2> HIDE DEF two, one, x
  <2>9. tail \in Seq(Event) /\ two \o rest \in Seq(Event)
    BY <2>1, <2>3, <2>4, ConcatProperties
  <2>10. log2 \o (<<>> \o tail) = log \o (before \o Walk(s, harness))
    <3>1. one \o (two \o rest) \o x = one \o ((two \o rest) \o x)
      <4> DEFINE mid == two \o rest
      <4>1. mid \in Seq(Event)
        BY <2>9
      <4> HIDE DEF mid
      <4>2. one \o (mid \o x) = (one \o mid) \o x
        BY <1>2, <1>3, <4>1, Regroup
      <4> QED BY <4>2 DEF mid
    <3>2. (two \o rest) \o x = tail
      BY <1>2, <2>1, <2>3, Regroup DEF r
    <3>3. <<>> \o tail = tail
      BY <2>9
    <3> HIDE DEF tail
    <3>4. before \o (one \o tail) = (before \o one) \o tail
      BY <1>3, <2>9, Regroup
    <3> DEFINE pre == before \o one
    <3>5. pre \in Seq(Event)
      BY <2>7
    <3> HIDE DEF pre
    <3>6. log \o (pre \o tail) = (log \o pre) \o tail
      <4>1. log \in Seq(Event) /\ tail \in Seq(Event)
        BY <1>0, <2>9
      <4> QED BY <3>5, <4>1, Regroup, Zenon
    <3> QED BY <2>2, <2>6, <3>1, <3>2, <3>3, <3>4, <3>6 DEF pre
  <2> QED BY <1>8, <2>5, <2>7, <2>8, <2>10
<1> QED BY <1>5, <1>6, <1>7, <1>8, StructsAre

\* What is wrong by an address is wrong for a judge who can tell addresses.
Told(found, strict) == {sin \in found : sin[1] = "released-at-stale-location" => strict}

LEMMA AfterType ==
  ASSUME NEW mc \in Machine, NEW e \in Event
  PROVE  /\ After(mc, e) \in Machine
         /\ BaseRelease(e) => After(mc, e).state = "released"
<1>1. e.kind \in Kinds /\ e.at \in Places
  BY DEF Event
<1> QED BY <1>1 DEF After, Machine, BaseRelease

LEMMA AfterKinds ==
  ASSUME NEW mc \in Machine, NEW e \in Event
  PROVE  /\ e.kind \in {"exported", "imported"} =>
              After(mc, e).state = e.kind /\ After(mc, e).loc = e.at
         /\ e.kind = "moved" => After(mc, e).state = mc.state /\ After(mc, e).loc = e.at
         /\ e.kind = "returned" /\ mc.state = "imported" => After(mc, e).state = "exported"
         /\ e.kind = "returned" /\ mc.state # "imported" => After(mc, e) = mc
BY DEF After, Machine, BaseRelease

\* The rules the release of a structure breaks are those its owner can name.
LEMMA ReleaseBreaks ==
  ASSUME RecTypeOK, NEW s \in Structs, NEW harness \in BOOLEAN, NEW mc \in Machine,
         NEW strict \in BOOLEAN,
         owner[s] = "consumer" => mc.state = "imported" /\ mc.loc = givenAt[s],
         owner[s] = "harness" => mc.state \in {"absent", "exported"}
  PROVE  {p \in Rules \X {s.obj} : Breaks(p[1], mc, Enters(s, ~harness), strict)}
           = Told(SinOf(s, harness), strict)
<1> DEFINE e == Enters(s, ~harness)
<1>1. e.kind = "enter" /\ e.node = BASE /\ e.by = (~harness) /\ e.at = place[s]
  BY DEF Enters, Ev
<1> HIDE DEF e
<1>2. BaseRelease(e) /\ ~ChildReleasedByConsumer(e) /\ e.kind # "imported"
  BY <1>1 DEF BaseRelease, ChildReleasedByConsumer
<1>3. owner[s] \in {"harness", "consumer"}
  BY DEF RecTypeOK
<1>4. ASSUME NEW rule \in Rules
      PROVE  Breaks(rule, mc, e, strict) <=>
               \/ rule = "not-released-by-consumer" /\ harness /\ owner[s] = "consumer"
               \/ rule = "released-before-import" /\ ~harness /\ owner[s] = "harness"
               \/ /\ rule = "released-at-stale-location" /\ strict
                  /\ ~harness /\ owner[s] = "consumer" /\ place[s] # givenAt[s]
  BY <1>1, <1>2, <1>3 DEF Breaks, Rules, ReleasedTwice, ReleasedBeforeImport,
     ReleasedAtStaleLocation, NotReleasedByConsumer, ImportedOutOfOrder
<1>5. ASSUME NEW p \in Rules \X {s.obj}
      PROVE  Breaks(p[1], mc, e, strict) <=> p \in Told(SinOf(s, harness), strict)
  BY <1>4 DEF Told, SinOf
<1>6. Told(SinOf(s, harness), strict) \subseteq Rules \X {s.obj}
  BY DEF Told, SinOf, Rules
<1> QED BY <1>5, <1>6 DEF e

LEMMA ToldBoth ==
  ASSUME NEW a, NEW b, NEW strict
  PROVE  Told(a \cup b, strict) = Told(a, strict) \cup Told(b, strict)
BY DEF Told

\* What tells the judge nothing bad.
LEMMA NoneBroken ==
  ASSUME NEW log1, NEW log2, NEW e \in Event, Concludes(log1, log2, e),
         \/ e.kind \in {"exported", "moved", "returned"}
         \/ e.kind = "imported" /\ Mach(log1)[e.obj].state = "exported"
  PROVE  \A strict : Found(log2, strict) = Found(log1, strict)
<1>1. ASSUME NEW rule, NEW strict PROVE ~Breaks(rule, Mach(log1)[e.obj], e, strict)
  BY DEF Breaks, ReleasedTwice, ReleasedBeforeImport, ReleasedAtStaleLocation,
     NotReleasedByConsumer, ChildReleasedByConsumer, ImportedOutOfOrder, BaseRelease
<1>2. ASSUME NEW strict PROVE Found(log2, strict) = Found(log1, strict)
  <2>1. Found(log2, strict)
          = Found(log1, strict)
            \cup {p \in Rules \X {e.obj} : Breaks(p[1], Mach(log1)[e.obj], e, strict)}
    BY DEF Concludes
  <2>2. {p \in Rules \X {e.obj} : Breaks(p[1], Mach(log1)[e.obj], e, strict)} = {}
    BY <1>1
  <2> QED BY <2>1, <2>2
<1> QED BY <1>2

LEMMA HearTwo ==
  ASSUME NEW log1 \in Seq(Event), NEW a \in Event, NEW b \in Event
  PROVE  \E log2 \in Seq(Event) :
           Concludes(log1, log2, a) /\ Concludes(log2, log1 \o <<a, b>>, b)
<1> DEFINE one == <<a>>
           two == <<b>>
           log2 == log1 \o one
<1>1. one \in Seq(Event) /\ two \in Seq(Event) /\ <<a, b>> = one \o two
  BY OneEvent, TwoEvents
<1>2. Concludes(log1, log2, a)
  BY HearOne
<1> HIDE DEF one
<1>3. log2 \in Seq(Event)
  BY <1>1, ConcatProperties
<1>4. log1 \o <<a, b>> = log2 \o two
  <2> HIDE DEF two
  <2>1. log1 \o (one \o two) = (log1 \o one) \o two
    BY <1>1, Regroup
  <2> QED BY <1>1, <2>1
<1> HIDE DEF log2
<1>5. Concludes(log2, log2 \o <<b>>, b)
  BY <1>3, HearOne
<1> QED BY <1>2, <1>3, <1>4, <1>5

LEMMA NoteIs ==
  ASSUME RecTypeOK, NEW kind \in Kinds, NEW s \in Structs, NEW where \in Places
  PROVE  /\ Note(kind, s, where) \in Event
         /\ Note(kind, s, where).kind = kind /\ Note(kind, s, where).obj = s.obj
         /\ Note(kind, s, where).at = where
<1>1. BASE \in Nodes /\ FALSE \in BOOLEAN
  BY DEF Nodes
<1>2. Ev(kind, s, BASE, FALSE, where) \in Event
  BY <1>1, EvType
<1>3. /\ Ev(kind, s, BASE, FALSE, where).kind = kind /\ Ev(kind, s, BASE, FALSE, where).obj = s.obj
      /\ Ev(kind, s, BASE, FALSE, where).at = where
  BY DEF Ev
<1> QED BY <1>2, <1>3 DEF Note

\* Nothing is concluded from nothing.
LEMMA Unheard ==
  /\ Mach(<<>>) \in [Objects -> Machine]
  /\ \A obj \in Objects : Mach(<<>>)[obj].state = "absent"
  /\ \A strict : Found(<<>>, strict) = {}
<1> DEFINE none == <<>>
<1>1. none \in Seq(Event) /\ Len(none) = 0
  OBVIOUS
<1> HIDE DEF none
<1>2. ASSUME NEW obj PROVE MachineOf(none, obj)[0] = Fresh
  BY <1>1, MachineRuns DEF Runs
<1>3. Fresh \in Machine /\ Fresh.state = "absent"
  BY DEF Fresh, Machine
<1>4. Mach(none) \in [Objects -> Machine] /\ \A obj \in Objects : Mach(none)[obj].state = "absent"
  BY <1>1, <1>2, <1>3 DEF Mach
<1>5. \A strict : Found(none, strict) = {}
  BY <1>1 DEF Found
<1> QED BY <1>4, <1>5 DEF none

\* An export starts its machine.
LEMMA HearExport ==
  ASSUME NEW l1, NEW l2, NEW e \in Event, e.kind = "exported", e.obj \in Objects,
         Concludes(l1, l2, e), Mach(l1) \in [Objects -> Machine]
  PROVE  /\ Mach(l2) \in [Objects -> Machine]
         /\ Mach(l2)[e.obj].state = "exported"
         /\ \A obj \in Objects : obj # e.obj => Mach(l2)[obj] = Mach(l1)[obj]
         /\ \A strict : Found(l2, strict) = Found(l1, strict)
<1> DEFINE mc == Mach(l1)[e.obj]
<1>1. mc \in Machine
  OBVIOUS
<1>2. After(mc, e) \in Machine /\ After(mc, e).state = "exported"
  BY <1>1, AfterType, AfterKinds
<1>3. Mach(l2) = [Mach(l1) EXCEPT ![e.obj] = After(mc, e)]
  BY DEF Concludes
<1>4. \A strict : Found(l2, strict) = Found(l1, strict)
  BY NoneBroken
<1> HIDE DEF mc
<1> QED BY <1>2, <1>3, <1>4

LEMMA HearOneExport ==
  ASSUME NEW e \in Event, e.kind = "exported", e.obj \in Objects
  PROVE  /\ Mach(<<e>>) \in [Objects -> Machine]
         /\ \A obj \in Objects : Mach(<<e>>)[obj].state = IF obj = e.obj THEN "exported" ELSE "absent"
         /\ \A strict : Found(<<e>>, strict) = {}
<1> DEFINE none == <<>>
           l == none \o <<e>>
<1>1. none \in Seq(Event) /\ l = <<e>>
  OBVIOUS
<1>2. /\ Mach(none) \in [Objects -> Machine]
      /\ \A obj \in Objects : Mach(none)[obj].state = "absent"
      /\ \A strict : Found(none, strict) = {}
  BY Unheard
<1> HIDE DEF none
<1>3. Concludes(none, l, e)
  BY <1>1, HearOne
<1> HIDE DEF l
<1>4. /\ Mach(l) \in [Objects -> Machine]
      /\ \A obj \in Objects : Mach(l)[obj].state = IF obj = e.obj THEN "exported" ELSE "absent"
      /\ \A strict : Found(l, strict) = {}
  BY <1>2, <1>3, HearExport
<1> QED BY <1>1, <1>4

LEMMA HearTwoExports ==
  ASSUME NEW a \in Event, a.kind = "exported", a.obj \in Objects,
         NEW b \in Event, b.kind = "exported", b.obj \in Objects
  PROVE  /\ Mach(<<a, b>>) \in [Objects -> Machine]
         /\ \A obj \in Objects :
              Mach(<<a, b>>)[obj].state = IF obj \in {a.obj, b.obj} THEN "exported" ELSE "absent"
         /\ \A strict : Found(<<a, b>>, strict) = {}
<1> DEFINE none == <<>>
           l == none \o <<a, b>>
<1>1. none \in Seq(Event) /\ l = <<a, b>>
  BY TwoEvents
<1>2. /\ Mach(none) \in [Objects -> Machine]
      /\ \A obj \in Objects : Mach(none)[obj].state = "absent"
      /\ \A strict : Found(none, strict) = {}
  BY Unheard
<1> HIDE DEF none
<1>3. PICK log2 \in Seq(Event) : Concludes(none, log2, a) /\ Concludes(log2, l, b)
  BY <1>1, HearTwo
<1> HIDE DEF l
<1>4. /\ Mach(log2) \in [Objects -> Machine]
      /\ \A obj \in Objects : Mach(log2)[obj].state = IF obj = a.obj THEN "exported" ELSE "absent"
      /\ \A strict : Found(log2, strict) = {}
  BY <1>2, <1>3, HearExport
<1>5. /\ Mach(l) \in [Objects -> Machine]
      /\ \A obj \in Objects :
           Mach(l)[obj].state = IF obj \in {a.obj, b.obj} THEN "exported" ELSE "absent"
      /\ \A strict : Found(l, strict) = {}
  BY <1>3, <1>4, HearExport
<1> QED BY <1>1, <1>5

-----------------------------------------------------------------------------
(* What the judge is told by what happens to a structure. *)

\* A release, and the release inside it of the batch a stream never delivered.
LEMMA ReleaseTold ==
  ASSUME RecTypeOK, Mach(log) \in [Objects -> Machine], ~dropped',
         NEW s \in Structs, NEW harness \in BOOLEAN,
         NEW before \in Seq(Event), Silent(before), Release(s, harness, before),
         s = Stream /\ Undelivered =>
           owner[Array] = "harness" /\ Mach(log)["array"].state = "exported"
  PROVE  /\ Mach(log') \in [Objects -> Machine]
         /\ Mach(log')[s.obj].state = "released"
         /\ s = Stream /\ Undelivered => Mach(log')["array"].state = "released"
         /\ \A obj \in Objects : obj # s.obj /\ ~(s = Stream /\ Undelivered /\ obj = "array") =>
              Mach(log')[obj] = Mach(log)[obj]
         /\ (/\ owner[s] = "consumer" =>
                  Mach(log)[s.obj].state = "imported" /\ Mach(log)[s.obj].loc = givenAt[s]
             /\ owner[s] = "harness" => Mach(log)[s.obj].state \in {"absent", "exported"})
            => \A st \in BOOLEAN :
                 Found(log', st) = Found(log, st) \cup Told(SinOf(s, harness), st)
<1> DEFINE e == Enters(s, ~harness)
           k == s.obj
           inner == s = Stream /\ Undelivered
<1>0. log \in Seq(Event) /\ (~harness) \in BOOLEAN /\ s.obj \in Objects
  BY StructsAre DEF RecTypeOK
<1>1. log' = log \o (before \o Walk(s, harness))
  BY WalkType, LogIsWhole, ConcatProperties DEF Release
<1>2. PICK log2 \in Seq(Event) :
        /\ Concludes(log, log2, e)
        /\ IF inner THEN Concludes(log2, log', Enters(Array, FALSE)) ELSE Alike(log2, log')
  BY <1>1, WalkTells
<1>3. /\ e \in Event /\ e.obj = k /\ BaseRelease(e) /\ Enters(Array, FALSE) \in Event
      /\ Enters(Array, FALSE).obj = "array" /\ BaseRelease(Enters(Array, FALSE))
      /\ Stream.obj = "stream" /\ Array.obj = "array" /\ "array" \in Objects
  BY <1>0, EntersType, StructsAre DEF Enters, Ev, BaseRelease, Array, Stream, Objects
<1> DEFINE a == Enters(Array, FALSE)
<1> HIDE DEF e, a
<1>5. /\ Mach(log2) \in [Objects -> Machine]
      /\ Mach(log2)[k].state = "released"
      /\ \A obj \in Objects : obj # k => Mach(log2)[obj] = Mach(log)[obj]
  BY <1>0, <1>2, <1>3, AfterType DEF Concludes
<1>6. /\ Mach(log') \in [Objects -> Machine]
      /\ Mach(log')[k].state = "released"
      /\ inner => Mach(log')["array"].state = "released"
      /\ \A obj \in Objects : obj # k /\ ~(inner /\ obj = "array") => Mach(log')[obj] = Mach(log)[obj]
  <2>1. CASE inner
    <3>1. Concludes(log2, log', a)
      BY <1>2, <2>1 DEF a
    <3>2. a \in Event /\ a.obj = "array" /\ BaseRelease(a) /\ k = "stream" /\ "array" \in Objects
      BY <1>3, <2>1 DEF a
    <3> QED BY <1>5, <2>1, <3>1, <3>2, AfterType DEF Concludes
  <2>2. CASE ~inner
    BY <1>2, <1>5, <2>2 DEF Alike
  <2> QED BY <2>1, <2>2
<1>7. ASSUME owner[s] = "consumer" =>
               Mach(log)[k].state = "imported" /\ Mach(log)[k].loc = givenAt[s],
             owner[s] = "harness" => Mach(log)[k].state \in {"absent", "exported"},
             NEW st \in BOOLEAN
      PROVE  Found(log', st) = Found(log, st) \cup Told(SinOf(s, harness), st)
  <2>1. {p \in Rules \X {k} : Breaks(p[1], Mach(log)[k], e, st)} = Told(SinOf(s, harness), st)
    BY <1>0, <1>7, ReleaseBreaks DEF e
  <2>2. Found(log2, st) = Found(log, st) \cup Told(SinOf(s, harness), st)
    BY <1>2, <1>3, <2>1 DEF Concludes
  <2>3. Found(log', st) = Found(log2, st)
    <3>1. CASE inner
      <4>1. Concludes(log2, log', a)
        BY <1>2, <3>1 DEF a
      <4>2. Mach(log2)["array"] = Mach(log)["array"]
        BY <1>3, <1>5, <3>1
      <4>3. SinOf(Array, TRUE) = {}
        BY <3>1 DEF SinOf
      <4>4. {p \in Rules \X {"array"} : Breaks(p[1], Mach(log2)["array"], a, st)}
              = Told(SinOf(Array, TRUE), st)
        <5> DEFINE mc == Mach(log2)["array"]
                   h == TRUE
                   x == Array
        <5>1. /\ h \in BOOLEAN /\ mc \in Machine /\ mc.state = "exported"
              /\ x \in Structs /\ x.obj = "array" /\ owner[x] = "harness"
          BY <1>3, <1>5, <3>1, <4>2, StructsAre
        <5> HIDE DEF mc, h, x
        <5>2. {p \in Rules \X {x.obj} : Breaks(p[1], mc, Enters(x, ~h), st)}
                = Told(SinOf(x, h), st)
          BY <5>1, ReleaseBreaks
        <5>3. (~h) = FALSE
          BY DEF h
        <5> QED BY <5>1, <5>2, <5>3 DEF mc, a, h, x
      <4> QED BY <1>3, <4>1, <4>3, <4>4 DEF Concludes, Told, a
    <3>2. CASE ~inner
      BY <1>2, <3>2 DEF Alike
    <3> QED BY <3>1, <3>2
  <2> QED BY <2>2, <2>3
<1> QED BY <1>6, <1>7

\* A node under the array, released from outside.
LEMMA KidTold ==
  ASSUME RecTypeOK, Mach(log) \in [Objects -> Machine], ~dropped',
         NEW k \in Kids, k \in kids, ReleaseKid(k)
  PROVE  /\ Mach(log') = Mach(log)
         /\ \A st : Found(log', st) = Found(log, st) \cup {<<"child-released-by-consumer", "array">>}
<1> DEFINE at0 == place[Array]
           v == Ev("violation", Array, k, TRUE, at0)
           e == Ev("enter", Array, k, TRUE, at0)
           x == Ev("exit", Array, k, TRUE, at0)
           broken == {<<"child-released-by-consumer", "array">>}
<1>1. k \in Nodes /\ at0 \in Places /\ k # BASE /\ Array.obj = "array" /\ "array" \in Objects
  BY StructsAre DEF RecTypeOK, Kids, Nodes, BASE, DICT, Objects, Array
<1>2. v \in Event /\ e \in Event /\ x \in Event
  BY <1>1, EvType, StructsAre DEF Kinds
<1>3. <<v>> \in Seq(Event) /\ Silent(<<v>>) /\ <<x>> \in Seq(Event) /\ Silent(<<x>>)
  BY <1>1, QuietNotes, StructsAre
<1>4. KidWalk(k, 0, FALSE) = <<v>> \o <<e, x>>
  BY DEF KidWalk, ByConsumer
<1>5. e.kind = "enter" /\ e.node = k /\ e.by = TRUE /\ e.obj = "array"
  BY <1>1 DEF Ev
<1> HIDE DEF v, e, x
<1>6. KidWalk(k, 0, FALSE) = <<v>> \o (<<e>> \o <<x>>)
  BY <1>2, <1>4, TwoEvents
<1>7. log' = log \o (<<v>> \o (<<e>> \o <<x>>))
  <2> DEFINE evs == <<v>> \o (<<e>> \o <<x>>)
             l == <<v>>
             m == <<e>>
             r == <<x>>
  <2>1. l \in Seq(Event) /\ m \in Seq(Event) /\ r \in Seq(Event)
    BY <1>2
  <2>2. evs \in Seq(Event)
    <3> HIDE DEF l, m, r
    <3>1. l \o (m \o r) \in Seq(Event)
      BY <2>1, ConcatProperties
    <3> QED BY <3>1 DEF l, m, r
  <2>3. Observe(evs)
    BY <1>6 DEF ReleaseKid
  <2> HIDE DEF evs
  <2>4. log' = log \o evs
    BY <2>2, <2>3, LogIsWhole
  <2> QED BY <2>4 DEF evs
<1>8. Concludes(log, log', e)
  <2>1. log \in Seq(Event)
    BY DEF RecTypeOK
  <2> DEFINE pre == <<v>>
             post == <<x>>
  <2>2. pre \in Seq(Event) /\ Silent(pre) /\ post \in Seq(Event) /\ Silent(post)
    BY <1>3
  <2> HIDE DEF pre, post
  <2>3. Concludes(log, log \o (pre \o (<<e>> \o post)), e)
    BY <1>2, <2>1, <2>2, HearLoud
  <2> QED BY <1>7, <2>3 DEF pre, post
<1>9. \A mc : After(mc, e) = mc
  BY <1>1, <1>5 DEF After, BaseRelease
<1>11. Mach(log') = Mach(log)
  BY <1>1, <1>5, <1>8, <1>9 DEF Concludes
<1>12. ASSUME NEW strict
       PROVE  Found(log', strict) = Found(log, strict) \cup broken
  <2>1. Found(log', strict)
          = Found(log, strict)
            \cup {p \in Rules \X {e.obj} : Breaks(p[1], Mach(log)[e.obj], e, strict)}
    BY <1>8 DEF Concludes
  <2>2. ASSUME NEW rule \in Rules, NEW mc
        PROVE  Breaks(rule, mc, e, strict) <=> rule = "child-released-by-consumer"
    BY <1>1, <1>5 DEF Breaks, Rules, ReleasedTwice, ReleasedBeforeImport, ReleasedAtStaleLocation,
       NotReleasedByConsumer, ChildReleasedByConsumer, ImportedOutOfOrder, BaseRelease
  <2>3. {p \in Rules \X {e.obj} : Breaks(p[1], Mach(log)[e.obj], e, strict)} = broken
    BY <1>5, <2>2 DEF Rules
  <2> QED BY <2>1, <2>3
<1> QED BY <1>11, <1>12

\* A hand-over, of what the log shows exported.
LEMMA ImportTold ==
  ASSUME RecTypeOK, Mach(log) \in [Objects -> Machine], ~dropped', NEW s \in Structs,
         NoteImport(s), Mach(log)[s.obj].state = "exported"
  PROVE  /\ Mach(log') \in [Objects -> Machine]
         /\ \A obj \in Objects : obj # s.obj => Mach(log')[obj] = Mach(log)[obj]
         /\ Mach(log')[s.obj].state = "imported" /\ Mach(log')[s.obj].loc = place[s]
         /\ \A strict : Found(log', strict) = Found(log, strict)
<1> DEFINE k == s.obj
           e == Note("imported", s, place[s])
<1>1. k \in Objects /\ place[s] \in Places
  BY StructsAre DEF RecTypeOK
<1>2. /\ e \in Event /\ e.kind = "imported" /\ e.obj = k /\ e.at = place[s]
  BY <1>1, NoteIs DEF Kinds
<1> HIDE DEF e
<1>3. log' = log \o <<e>>
  <2>1. <<e>> \in Seq(Event)
    BY <1>2
  <2>2. Observe(<<e>>)
    BY DEF NoteImport, e
  <2> QED BY <2>1, <2>2, LogIsWhole
<1>4. Concludes(log, log', e)
  BY <1>2, <1>3, HearOne DEF RecTypeOK
<1> DEFINE mc == Mach(log)[k]
<1>5. mc \in Machine
  BY <1>1
<1>6. After(mc, e).state = "imported" /\ After(mc, e).loc = place[s] /\ After(mc, e) \in Machine
  BY <1>2, <1>5, AfterKinds, AfterType
<1>7. Mach(log') = [Mach(log) EXCEPT ![k] = After(mc, e)]
  BY <1>2, <1>4 DEF Concludes
<1>8. \A strict : Found(log', strict) = Found(log, strict)
  BY <1>2, <1>4, NoneBroken
<1> HIDE DEF mc
<1> QED BY <1>1, <1>6, <1>7, <1>8

\* A structure handed back.
LEMMA ReturnedTold ==
  ASSUME RecTypeOK, Mach(log) \in [Objects -> Machine], ~dropped', NEW s \in Structs,
         NEW where \in Places, place[s] = where, NoteReturned(s, where),
         Mach(log)[s.obj].state \in {"imported", "exported"}
  PROVE  /\ Mach(log') \in [Objects -> Machine]
         /\ \A obj \in Objects : obj # s.obj => Mach(log')[obj] = Mach(log)[obj]
         /\ Mach(log')[s.obj].state = "exported"
         /\ \A strict : Found(log', strict) = Found(log, strict)
<1> DEFINE k == s.obj
           e == Note("returned", s, where)
<1>1. k \in Objects
  BY StructsAre
<1>2. /\ e \in Event /\ e.kind = "returned" /\ e.obj = k
  BY NoteIs DEF Kinds
<1> HIDE DEF e
<1>3. log' = log \o <<e>>
  <2>1. <<e>> \in Seq(Event)
    BY <1>2
  <2>2. Observe(<<e>>)
    BY DEF NoteReturned, e
  <2> QED BY <2>1, <2>2, LogIsWhole
<1>4. Concludes(log, log', e)
  BY <1>2, <1>3, HearOne DEF RecTypeOK
<1> DEFINE mc == Mach(log)[k]
<1>5. mc \in Machine
  BY <1>1
<1>6. After(mc, e).state = "exported"
  BY <1>2, <1>5, AfterKinds
<1>7. Mach(log') = [Mach(log) EXCEPT ![k] = After(mc, e)] /\ After(mc, e) \in Machine
  BY <1>2, <1>4, <1>5, AfterType DEF Concludes
<1>8. \A strict : Found(log', strict) = Found(log, strict)
  BY <1>2, <1>4, NoneBroken
<1> HIDE DEF mc
<1> QED BY <1>1, <1>6, <1>7, <1>8

\* A move says where, and nothing else.
LEMMA MoveIsHeard ==
  ASSUME NEW l1, NEW l2, NEW e \in Event, e.kind = "moved", Concludes(l1, l2, e),
         e.obj \in Objects, Mach(l1) \in [Objects -> Machine]
  PROVE  /\ Mach(l2) \in [Objects -> Machine]
         /\ \A kind \in Objects : Mach(l2)[kind].state = Mach(l1)[kind].state
         /\ \A strict : Found(l2, strict) = Found(l1, strict)
<1> DEFINE mc == Mach(l1)[e.obj]
<1>1. mc \in Machine
  OBVIOUS
<1>2. After(mc, e) \in Machine /\ After(mc, e).state = mc.state
  BY <1>1, AfterType, AfterKinds
<1>3. Mach(l2) = [Mach(l1) EXCEPT ![e.obj] = After(mc, e)]
  BY DEF Concludes
<1>4. \A strict : Found(l2, strict) = Found(l1, strict)
  BY NoneBroken
<1>5. \A kind \in Objects : Mach(l2)[kind].state = Mach(l1)[kind].state
  BY <1>2, <1>3
<1> QED BY <1>2, <1>3, <1>4, <1>5

\* The executor's move of the schema, and of the array the case has.
LEMMA MoveTold ==
  ASSUME RecTypeOK, Mach(log) \in [Objects -> Machine], ~dropped', NEW withArray,
         Move({Schema(1)} \cup (IF withArray THEN {Array} ELSE {}), "exec")
  PROVE  /\ Mach(log') \in [Objects -> Machine]
         /\ \A kind \in Objects : Mach(log')[kind].state = Mach(log)[kind].state
         /\ \A strict : Found(log', strict) = Found(log, strict)
<1> DEFINE a == Note("moved", Schema(1), "exec")
           b == Note("moved", Array, "exec")
<1>1. /\ a \in Event /\ a.kind = "moved" /\ a.obj \in Objects
      /\ b \in Event /\ b.kind = "moved" /\ b.obj \in Objects
  <2>1. Schema(1) \in Structs /\ Array \in Structs /\ "exec" \in Places /\ "moved" \in Kinds
    BY StructsAre DEF Places, Locations, Kinds
  <2> QED BY <2>1, NoteIs, StructsAre
<1> HIDE DEF a, b
<1>2. log \in Seq(Event)
  BY DEF RecTypeOK
<1>3. CASE withArray
  <2>1. Observe(<<a>> \o <<b>>)
    BY <1>3, StructsAre DEF Move, a, b
  <2> DEFINE evs == <<a, b>>
  <2>2. evs \in Seq(Event) /\ Observe(evs)
    BY <1>1, <2>1, TwoEvents
  <2> HIDE DEF evs
  <2>3. log' = log \o evs
    BY <2>2, LogIsWhole
  <2>4. PICK log2 \in Seq(Event) : Concludes(log, log2, a) /\ Concludes(log2, log', b)
    BY <1>1, <1>2, <2>3, HearTwo DEF evs
  <2>5. /\ Mach(log2) \in [Objects -> Machine]
        /\ \A kind \in Objects : Mach(log2)[kind].state = Mach(log)[kind].state
        /\ \A strict : Found(log2, strict) = Found(log, strict)
    BY <1>1, <2>4, MoveIsHeard
  <2>6. /\ Mach(log') \in [Objects -> Machine]
        /\ \A kind \in Objects : Mach(log')[kind].state = Mach(log2)[kind].state
        /\ \A strict : Found(log', strict) = Found(log2, strict)
    BY <1>1, <2>4, <2>5, MoveIsHeard
  <2> QED BY <2>5, <2>6
<1>4. CASE ~withArray
  <2>1. Observe(<<a>> \o <<>>)
    BY <1>4, StructsAre DEF Move, a
  <2> DEFINE evs == <<a>>
  <2>2. evs \in Seq(Event) /\ Observe(evs)
    <3>1. <<a>> \o <<>> = <<a>>
      BY <1>1
    <3> QED BY <1>1, <2>1, <3>1
  <2> HIDE DEF evs
  <2>3. log' = log \o evs
    BY <2>2, LogIsWhole
  <2>4. Concludes(log, log', a)
    BY <1>1, <1>2, <2>3, HearOne DEF evs
  <2> QED BY <1>1, <2>4, MoveIsHeard
<1> QED BY <1>3, <1>4

\* A schema the stream hands over, whatever became of the one before.
LEMMA GetSchemaTold ==
  ASSUME RecTypeOK, Mach(log) \in [Objects -> Machine], ~dropped',
         NEW k \in 1..MaxSchemas, GetSchema(k)
  PROVE  /\ Mach(log') \in [Objects -> Machine]
         /\ \A obj \in Objects : obj # "schema" => Mach(log')[obj] = Mach(log)[obj]
         /\ Mach(log')["schema"].state = "imported" /\ Mach(log')["schema"].loc = "own"
         /\ \A strict : Found(log', strict) = Found(log, strict)
<1> DEFINE s == Schema(k)
           a == Note("exported", s, "own")
           b == Note("imported", s, "own")
<1>0. s \in Structs /\ s.obj = "schema" /\ "own" \in Places /\ "schema" \in Objects
  BY StructsAre DEF Places, Locations, Objects, Schema
<1>1. /\ a \in Event /\ a.kind = "exported" /\ a.obj = "schema" /\ a.at = "own"
      /\ b \in Event /\ b.kind = "imported" /\ b.obj = "schema" /\ b.at = "own"
  BY <1>0, NoteIs DEF Kinds
<1>2. Observe(<<a, b>>)
  BY DEF GetSchema
<1> HIDE DEF a, b
<1>3. log \in Seq(Event)
  BY DEF RecTypeOK
<1>4. log' = log \o <<a, b>>
  <2> DEFINE evs == <<a, b>>
  <2>1. evs \in Seq(Event) /\ Observe(evs)
    BY <1>1, <1>2, TwoEvents
  <2> HIDE DEF evs
  <2>2. log' = log \o evs
    BY <2>1, LogIsWhole
  <2> QED BY <2>2 DEF evs
<1>5. PICK log2 \in Seq(Event) : Concludes(log, log2, a) /\ Concludes(log2, log', b)
  BY <1>1, <1>3, <1>4, HearTwo
<1>6. PICK m1 \in Machine : /\ m1.state = "exported"
                            /\ Mach(log2) = [Mach(log) EXCEPT !["schema"] = m1]
  <2> DEFINE mc == Mach(log)["schema"]
  <2>1. mc \in Machine
    BY <1>0, <1>3
  <2>2. After(mc, a) \in Machine /\ After(mc, a).state = "exported"
    BY <1>1, <2>1, AfterType, AfterKinds
  <2>3. Mach(log2) = [Mach(log) EXCEPT !["schema"] = After(mc, a)]
    BY <1>1, <1>5 DEF Concludes
  <2> QED BY <2>2, <2>3
<1>7. PICK m2 \in Machine : /\ m2.state = "imported" /\ m2.loc = "own"
                            /\ Mach(log') = [Mach(log2) EXCEPT !["schema"] = m2]
  BY <1>0, <1>1, <1>3, <1>5, <1>6, AfterType, AfterKinds DEF Concludes
<1>8. \A strict : Found(log', strict) = Found(log, strict)
  <2>1. \A strict : Found(log2, strict) = Found(log, strict)
    BY <1>1, <1>5, NoneBroken
  <2>2. Mach(log2)[b.obj].state = "exported"
    BY <1>0, <1>1, <1>3, <1>6
  <2>3. \A strict : Found(log', strict) = Found(log2, strict)
    BY <1>1, <1>5, <2>2, NoneBroken
  <2> QED BY <2>1, <2>3
<1> QED BY <1>0, <1>6, <1>7, <1>8

\* The batch a stream hands over; its end tells the judge nothing.
LEMMA GetNextTold ==
  ASSUME RecTypeOK, Mach(log) \in [Objects -> Machine], ~dropped', GetNext,
         Undelivered => Mach(log)["array"].state = "exported"
  PROVE  /\ Mach(log') \in [Objects -> Machine]
         /\ \A obj \in Objects : obj # "array" => Mach(log')[obj] = Mach(log)[obj]
         /\ Undelivered => Mach(log')["array"].state = "imported" /\ Mach(log')["array"].loc = "own"
         /\ ~Undelivered => Mach(log')["array"] = Mach(log)["array"]
         /\ \A strict : Found(log', strict) = Found(log, strict)
<1>0. /\ Array \in Structs /\ Array.obj = "array" /\ "own" \in Places /\ "array" \in Objects
  BY StructsAre DEF Places, Locations, Objects, Array
<1>3. log \in Seq(Event)
  BY DEF RecTypeOK
<1>4. CASE Undelivered
  <2> DEFINE a == Note("moved", Array, "own")
             b == Note("imported", Array, "own")
  <2>1. /\ a \in Event /\ a.kind = "moved" /\ a.obj = "array"
        /\ b \in Event /\ b.kind = "imported" /\ b.obj = "array" /\ b.at = "own"
    BY <1>0, NoteIs DEF Kinds
  <2>2. Observe(<<a, b>>)
    BY <1>4 DEF GetNext
  <2> HIDE DEF a, b
  <2>4. log' = log \o <<a, b>>
    <3> DEFINE evs == <<a, b>>
    <3>1. evs \in Seq(Event) /\ Observe(evs)
      BY <2>1, <2>2, TwoEvents
    <3> HIDE DEF evs
    <3>2. log' = log \o evs
      BY <3>1, LogIsWhole
    <3> QED BY <3>2 DEF evs
  <2>5. PICK log2 \in Seq(Event) : Concludes(log, log2, a) /\ Concludes(log2, log', b)
    BY <1>3, <2>1, <2>4, HearTwo
  <2>6. PICK m1 \in Machine : /\ m1.state = "exported"
                              /\ Mach(log2) = [Mach(log) EXCEPT !["array"] = m1]
    <3> DEFINE mc == Mach(log)["array"]
    <3>1. mc \in Machine /\ mc.state = "exported"
      BY <1>0, <1>4
    <3>2. After(mc, a) \in Machine /\ After(mc, a).state = "exported"
      BY <2>1, <3>1, AfterType, AfterKinds
    <3>3. Mach(log2) = [Mach(log) EXCEPT !["array"] = After(mc, a)]
      BY <2>1, <2>5 DEF Concludes
    <3> QED BY <3>2, <3>3
  <2>7. PICK m2 \in Machine : /\ m2.state = "imported" /\ m2.loc = "own"
                              /\ Mach(log') = [Mach(log2) EXCEPT !["array"] = m2]
    BY <1>0, <2>1, <2>5, <2>6, AfterType, AfterKinds DEF Concludes
  <2>8. \A strict : Found(log', strict) = Found(log, strict)
    <3>1. \A strict : Found(log2, strict) = Found(log, strict)
      BY <2>1, <2>5, NoneBroken
    <3>2. Mach(log2)[b.obj].state = "exported"
      BY <1>0, <2>1, <2>6
    <3>3. \A strict : Found(log', strict) = Found(log2, strict)
      BY <2>1, <2>5, <3>2, NoneBroken
    <3> QED BY <3>1, <3>3
  <2> QED BY <1>0, <1>4, <2>6, <2>7, <2>8
<1>5. CASE ~Undelivered
  <2> DEFINE evs == <<Note("eof", Array, "own")>>
  <2>1. evs \in Seq(Event) /\ Silent(evs)
    <3>1. BASE \in Nodes
      BY DEF Nodes
    <3> QED BY <1>0, <3>1, QuietNotes DEF Note
  <2>2. Observe(evs)
    BY <1>5 DEF GetNext
  <2> HIDE DEF evs
  <2>3. log' = log \o evs
    BY <2>1, <2>2, LogIsWhole
  <2>4. Alike(log, log')
    BY <1>3, <2>1, <2>3, HearQuiet
  <2> QED BY <1>0, <1>5, <2>4 DEF Alike
<1> QED BY <1>4, <1>5
=============================================================================
