---------------------------- MODULE PyWorkerProofs ----------------------------
(***************************************************************************)
(* Why a capsule can always release what it holds, and why the worker's    *)
(* line says what the consumer did.  Four arguments: the references to     *)
(* the case object are counted right, whatever the consumer does with its  *)
(* capsules and whichever of them it hides; every structure's owner and    *)
(* the machine the log leaves its kind in agree with where it is; what a   *)
(* session has done follows the names it was given; and a case's blocks    *)
(* come in an order in which a release from the root reaches all of them.  *)
(***************************************************************************)
EXTENDS PyWorker, ReconstructionProofs, FiniteSetTheorems, SequenceTheorems, TLAPS

\* Before anything is handed over, and once run_case() has let go of the case.
Before == {"load", "names", "release first", "reload"}
Over == {"reported", "dead"}

\* run_case() holds one reference, each capsule another.  A capsule's structure is
\* never at the reconstruction's own address, so no structure is wrapped twice.
CapsuleInv ==
  /\ place \in [Structs -> Places]
  /\ call.todo \in Seq(Structs)
  /\ IsFiniteSet(capsules) /\ \A s \in capsules : s \in Structs /\ place[s] # "home"
  /\ counted = Cardinality(capsules)
  /\ phase \in Before => capsules = {}
  /\ phase = "load" => refs = 0
  /\ phase \notin Over \cup {"load"} => refs = Cardinality(capsules) + 1
  /\ phase = "reported" => refs = Cardinality(capsules)
  /\ phase \notin Over => ~freed
  /\ freed => capsules = {}

\* Nothing comes back to the reconstruction's own address.
Leaves ==
  /\ place' \in [Structs -> Places]
  /\ \A s \in Structs : place'[s] = "home" => place[s] = "home"

LEMMA StructsAreThere ==
  Schema(1) \in Structs /\ Array \in Structs /\ Stream \in Structs
BY SchemasAssumption DEF Structs, Schemas

LEMMA ReleaseLeaves ==
  ASSUME place \in [Structs -> Places], NEW s, NEW h, NEW b, Release(s, h, b)
  PROVE  Leaves
BY DEF Release, Leaves, Places

LEMMA HarnessLeaves ==
  ASSUME place \in [Structs -> Places], NEW s, NEW where, HarnessRelease(s, where)
  PROVE  Leaves
BY ReleaseLeaves DEF HarnessRelease, Leaves, recVars

LEMMA OthersLeave ==
  ASSUME place \in [Structs -> Places],
         \/ UNCHANGED recVars \/ FreeBacking \/ GetNext
         \/ GetSchema(1) \/ GetSchemaRunsOut(1)
         \/ \E s \in Structs : Take(s) \/ Export(s) \/ MoveOut(s)
         \/ \E moved : Move(moved, "exec")
         \/ \E k \in kids : ReleaseKid(k)
  PROVE  Leaves
<1>1. CASE UNCHANGED recVars \/ FreeBacking
  BY <1>1 DEF recVars, FreeBacking, Leaves
<1>2. CASE GetNext \/ GetSchema(1) \/ GetSchemaRunsOut(1)
  BY <1>2 DEF GetNext, GetSchema, GetSchemaRunsOut, Leaves, Places, Locations
<1>3. ASSUME NEW s \in Structs, Take(s) \/ Export(s) \/ MoveOut(s)
      PROVE  Leaves
  BY <1>3 DEF Take, Export, MoveOut, Leaves, Places, Locations
<1>4. ASSUME NEW moved, Move(moved, "exec")
      PROVE  Leaves
  BY <1>4 DEF Move, Leaves, Places, Locations
<1>5. ASSUME NEW k \in kids, ReleaseKid(k)
      PROVE  Leaves
  BY <1>5 DEF ReleaseKid, Leaves
<1> QED BY <1>1, <1>2, <1>3, <1>4, <1>5

\* Steps that leave capsules and references as they are, and stay on their side of
\* the two borders.
LEMMA QuietKeeps ==
  ASSUME CapsuleInv, Leaves, UNCHANGED <<capsules, counted, refs, freed>>,
         call'.todo \in Seq(Structs),
         phase' = "dead" \/ (phase \notin Over \cup {"load"} /\ phase' \notin Over \cup {"load"}
                               /\ (phase' \in Before => phase \in Before))
  PROVE  CapsuleInv'
<1>1. CASE phase' = "dead"
  BY <1>1 DEF CapsuleInv, Leaves, Over, Before
<1>2. CASE phase' # "dead"
  BY <1>2 DEF CapsuleInv, Leaves, Over, Before
<1> QED BY <1>1, <1>2

LEMMA DestroyKeeps ==
  ASSUME CapsuleInv, NEW s \in capsules, Leaves, counted' = counted - 1,
         capsules' = capsules \ {s}, refs' = refs - 1, call'.todo \in Seq(Structs),
         phase' = phase, phase \notin Over, freed' = freed
  PROVE  CapsuleInv'
<1>0. IsFiniteSet(capsules)
  BY DEF CapsuleInv
<1>1. /\ IsFiniteSet(capsules') /\ Cardinality(capsules') = Cardinality(capsules) - 1
      /\ Cardinality(capsules) \in Nat
  BY <1>0, FS_RemoveElement, FS_CardinalityType
<1>2. phase \notin Before
  BY DEF CapsuleInv
<1>3. /\ place' \in [Structs -> Places]
      /\ \A x \in capsules' : x \in Structs /\ place'[x] # "home"
  BY DEF CapsuleInv, Leaves
<1>4. counted = Cardinality(capsules) /\ refs = Cardinality(capsules) + 1 /\ ~freed
  BY <1>2 DEF CapsuleInv, Before, Over
<1>5. counted' = Cardinality(capsules') /\ refs' = Cardinality(capsules') + 1
  BY <1>1, <1>4
<1> QED BY <1>1, <1>2, <1>3, <1>4, <1>5 DEF CapsuleInv, Before, Over

LEMMA InitIsKept == Init => CapsuleInv
<1> SUFFICES ASSUME Init PROVE CapsuleInv
  OBVIOUS
<1>1. place \in [Structs -> Places]
  BY DEF Init, ConstructInit, NotBuilt, Places
<1>2. IsFiniteSet({}) /\ Cardinality({}) = 0
  BY FS_EmptySet
<1>3. call.todo \in Seq(Structs)
  BY EmptySeq DEF Init, Idle
<1> QED BY <1>1, <1>2, <1>3 DEF Init, CapsuleInv, Over

\* An exception ends the sequence.
LEMMA RaiseIsQuiet ==
  ASSUME NEW panicked, Raise(panicked)
  PROVE  phase' = "end" /\ call'.todo \in Seq(Structs)
BY EmptySeq DEF Raise, Go, Idle

LEMMA LoadKeeps ==
  ASSUME CapsuleInv, Load
  PROVE  CapsuleInv'
<1>1. /\ phase \in {"load", "reload"} /\ capsules = {}
      /\ UNCHANGED <<capsules, counted, refs, freed, call>>
  BY DEF Load, CapsuleInv, Before
<1>2. place' \in [Structs -> Places]
  BY DEF Load, BuildStep, Request, RunsOut, Undo, Complete, recVars, CapsuleInv, Places,
     Locations
<1>3. \/ phase' = phase
      \/ phase' = "dead"
      \/ phase = "load" /\ phase' = "reported"
  BY DEF Load, Go
<1>4. Cardinality({}) = 0
  BY FS_EmptySet
<1> QED BY <1>1, <1>2, <1>3, <1>4 DEF CapsuleInv, Before, Over

LEMMA BuildingKeeps ==
  ASSUME CapsuleInv, DigestSent \/ ReadScript \/ ReleaseFirst \/ Reloaded
  PROVE  CapsuleInv'
<1>1. CASE DigestSent
  <2>1. /\ phase = "load" /\ capsules = {} /\ refs' = 1
        /\ phase' \in {"names", "dead"}
        /\ UNCHANGED <<place, capsules, counted, freed, call>>
    BY <1>1 DEF DigestSent, Go, Unmoved, recVars, CapsuleInv, Before
  <2>2. Cardinality(capsules) = 0 /\ Cardinality(capsules') = 0
    BY <2>1, FS_EmptySet
  <2>3. /\ place' \in [Structs -> Places] /\ call'.todo \in Seq(Structs)
        /\ IsFiniteSet(capsules') /\ capsules' = {} /\ ~freed'
        /\ counted' = Cardinality(capsules')
    BY <2>1 DEF CapsuleInv, Over
  <2> QED BY <2>1, <2>2, <2>3 DEF CapsuleInv, Before, Over
<1>2. CASE ReadScript \/ Reloaded
  <2>1. /\ UNCHANGED <<place, capsules, counted, refs, freed, call>>
        /\ phase \in {"names", "reload"}
        /\ phase' \in {"release first", "end", "ops"}
    BY <1>2 DEF ReadScript, Reloaded, Go, Quiet, Unmoved, recVars
  <2>2. call'.todo \in Seq(Structs) /\ Leaves
    BY <2>1 DEF CapsuleInv, Leaves
  <2> QED BY <2>1, <2>2, QuietKeeps DEF Before, Over
<1>3. CASE ReleaseFirst
  <2>1. /\ UNCHANGED <<capsules, counted, refs, freed, call>>
        /\ phase = "release first" /\ phase' \in {"release first", "reload"}
    BY <1>3 DEF ReleaseFirst, Go, Quiet
  <2>2. place \in [Structs -> Places] /\ call'.todo \in Seq(Structs)
    BY <2>1 DEF CapsuleInv
  <2>3. Leaves
    BY <1>3, <2>2, HarnessLeaves, OthersLeave DEF ReleaseFirst, CleanOne
  <2> QED BY <2>1, <2>2, <2>3, QuietKeeps DEF Before, Over
<1> QED BY <1>1, <1>2, <1>3

\* The steps of the sequence, up to a call into the consumer.
LEMMA OpsKeep ==
  ASSUME CapsuleInv,
         \/ Nothing \/ MoveStruct \/ ImportArray \/ OpenStream \/ StreamOpened
         \/ NextBatch \/ ExpectEof \/ ReleaseBase \/ Ran
  PROVE  CapsuleInv'
<1>0. place \in [Structs -> Places] /\ call.todo \in Seq(Structs)
  BY DEF CapsuleInv
<1>1. CASE Nothing \/ StreamOpened \/ ExpectEof \/ ReleaseBase \/ Ran
  <2>1. /\ UNCHANGED <<place, capsules, counted, refs, freed, call>>
        /\ phase = "ops" /\ phase' \in {"ops", "end", "drop"}
    BY <1>1 DEF Nothing, StreamOpened, ExpectEof, ReleaseBase, Ran, AtOp, Go, Quiet,
       Unmoved, recVars
  <2>2. Leaves
    BY <1>0, <2>1 DEF Leaves
  <2> QED BY <1>0, <2>1, <2>2, QuietKeeps DEF Before, Over
<1>2. CASE ImportArray \/ OpenStream
  <2>1. /\ UNCHANGED <<place, capsules, counted, refs, freed>>
        /\ phase = "ops" /\ phase' = "call"
        /\ call'.todo \in {<<Schema(1), Array>>, <<Stream>>}
    BY <1>2 DEF ImportArray, OpenStream, Enter, AtOp, Go, Quiet, Unmoved, recVars, Idle
  <2>2. call'.todo \in Seq(Structs)
    <3>1. <<Schema(1), Array>> \in Seq(Structs) /\ <<Stream>> \in Seq(Structs)
      BY StructsAreThere
    <3> QED BY <2>1, <3>1
  <2>3. Leaves
    BY <1>0, <2>1 DEF Leaves
  <2> QED BY <2>1, <2>2, <2>3, QuietKeeps DEF Before, Over
<1>3. CASE MoveStruct
  <2>1. /\ UNCHANGED <<capsules, counted, refs, freed>> /\ phase = "ops"
    BY <1>3 DEF MoveStruct, AtOp, Quiet, Unmoved
  <2>2. phase' \in {"ops", "end"} /\ call'.todo \in Seq(Structs)
    BY <1>0, <1>3, <2>1, RaiseIsQuiet DEF MoveStruct
  <2>3. Leaves
    BY <1>0, <1>3, OthersLeave DEF MoveStruct
  <2> QED BY <2>1, <2>2, <2>3, QuietKeeps DEF Before, Over
<1>4. CASE NextBatch
  <2>1. /\ UNCHANGED <<capsules, counted, refs, freed>> /\ phase = "ops"
        /\ phase' \in {"ops", "call"}
    BY <1>4 DEF NextBatch, Enter, AtOp, Go, Quiet, Unmoved
  <2>2. call'.todo \in Seq(Structs)
    BY <1>0, <1>4, EmptySeq DEF NextBatch, Enter, Idle
  <2>3. Leaves
    BY <1>0, <1>4, ReleaseLeaves, OthersLeave DEF NextBatch, Enter
  <2> QED BY <2>1, <2>2, <2>3, QuietKeeps DEF Before, Over
<1> QED BY <1>1, <1>2, <1>3, <1>4

\* One capsule more, and one reference more with it.
LEMMA WrapKeeps ==
  ASSUME CapsuleInv, Wrap \/ Unwrap
  PROVE  CapsuleInv'
<1>0. /\ place \in [Structs -> Places] /\ call.todo \in Seq(Structs)
      /\ IsFiniteSet(capsules) /\ phase = "call" /\ freed' = freed
  BY DEF CapsuleInv, Wrap, Unwrap, InCall, Unmoved
<1>1. CASE Unwrap
  <2>1. phase' = "end" /\ call'.todo \in Seq(Structs)
    BY <1>1, RaiseIsQuiet DEF Unwrap
  <2>2. Leaves
    BY <1>0, <1>1, HarnessLeaves DEF Unwrap
  <2> QED BY <1>0, <1>1, <2>1, <2>2, QuietKeeps DEF Unwrap, Quiet, Before, Over
<1>2. CASE Wrap
  <2> DEFINE s == Head(call.todo)
  <2>1. s \in Structs /\ Tail(call.todo) \in Seq(Structs)
    BY <1>0, <1>2, HeadTailProperties DEF Wrap
  <2> HIDE DEF s
  <2>2. CASE AtHarness(s) /\ Export(s) /\ call' = [call EXCEPT !.todo = Tail(@)]
             /\ phase' = phase
    <3>1. s \notin capsules
      BY <2>2 DEF AtHarness, CapsuleInv
    <3>2. /\ capsules' = capsules \cup {s} /\ counted' = counted + 1 /\ refs' = refs + 1
          /\ place' = [place EXCEPT ![s] = "exec"]
      BY <2>2 DEF Export, Owners
    <3>3. /\ IsFiniteSet(capsules') /\ Cardinality(capsules') = Cardinality(capsules) + 1
          /\ Cardinality(capsules) \in Nat
      BY <1>0, <3>1, <3>2, FS_AddElement, FS_CardinalityType
    <3>4. place' \in [Structs -> Places]
      BY <1>0, <3>2 DEF Places, Locations
    <3>5. \A x \in capsules' : x \in Structs /\ place'[x] # "home"
      BY <1>0, <2>1, <3>2 DEF CapsuleInv
    <3>6. call'.todo \in Seq(Structs)
      BY <2>1, <2>2
    <3> QED BY <1>0, <2>2, <3>2, <3>3, <3>4, <3>5, <3>6 DEF CapsuleInv, Before, Over
  <2>3. CASE UNCHANGED <<capsules, counted, refs>> /\ MoveOut(s) /\ phase' = phase
             /\ call' = [call EXCEPT !.lost = {s}]
    <3>1. call'.todo \in Seq(Structs)
      BY <1>0, <2>3
    <3>2. Leaves
      BY <1>0, <2>1, <2>3, OthersLeave
    <3> QED BY <1>0, <2>3, <3>1, <3>2, QuietKeeps DEF Before, Over
  <2>4. CASE UNCHANGED <<capsules, counted, refs>> /\ Raise(FALSE) /\ UNCHANGED recVars
    <3>1. phase' = "end" /\ call'.todo \in Seq(Structs)
      BY <2>4, RaiseIsQuiet
    <3>2. Leaves
      BY <1>0, <2>4, OthersLeave
    <3> QED BY <1>0, <2>4, <3>1, <3>2, QuietKeeps DEF Before, Over
  <2> QED BY <1>2, <2>2, <2>3, <2>4 DEF Wrap, Quiet, s
<1> QED BY <1>1, <1>2

\* What the consumer does inside a call.
LEMMA ConsumerKeeps ==
  ASSUME CapsuleInv,
         \/ Import \/ LetGo \/ LetChildGo \/ Discard \/ AskSchema \/ AskNext
         \/ Return \/ Throw \/ Crash
  PROVE  CapsuleInv'
<1>0. /\ place \in [Structs -> Places] /\ call.todo \in Seq(Structs)
      /\ phase = "call" /\ freed' = freed
  BY DEF CapsuleInv, Import, LetGo, LetChildGo, Discard, AskSchema, AskNext, Return, Throw,
     Crash, Busy, InCall, Unmoved
<1>1. CASE Import \/ LetGo \/ LetChildGo \/ AskSchema \/ AskNext
  <2>1. /\ UNCHANGED <<capsules, counted, refs>> /\ phase' = phase
    BY <1>1 DEF Import, LetGo, LetChildGo, AskSchema, AskNext, Quiet
  <2>2. call'.todo \in Seq(Structs)
    <3>1. CASE Import \/ LetGo \/ LetChildGo \/ AskSchema
      BY <1>0, <3>1 DEF Import, LetGo, LetChildGo, AskSchema
    <3>2. CASE AskNext
      <4>1. PICK a : call' = [call EXCEPT !.answered = a]
        BY <3>2 DEF AskNext
      <4> QED BY <1>0, <4>1
    <3> QED BY <1>1, <3>1, <3>2
  <2>3. CASE Import
    <3>1. PICK s \in capsules : Take(s)
      BY <2>3 DEF Import
    <3>2. s \in Structs
      BY DEF CapsuleInv
    <3> QED BY <1>0, <2>1, <2>2, <3>1, <3>2, OthersLeave, QuietKeeps DEF Before, Over
  <2>4. CASE LetGo
    <3>1. Leaves
      BY <1>0, <2>4, ReleaseLeaves DEF LetGo
    <3> QED BY <1>0, <2>1, <2>2, <3>1, QuietKeeps DEF Before, Over
  <2>5. CASE LetChildGo \/ AskSchema \/ AskNext
    <3>1. Leaves
      BY <1>0, <2>5, OthersLeave DEF LetChildGo, AskSchema, AskNext
    <3> QED BY <1>0, <2>1, <2>2, <3>1, QuietKeeps DEF Before, Over
  <2> QED BY <1>1, <2>3, <2>4, <2>5
<1>2. CASE Discard
  <2>1. PICK s \in capsules : Destroy(s)
    BY <1>2 DEF Discard
  <2>2. Leaves
    BY <1>0, <2>1, ReleaseLeaves, OthersLeave DEF Destroy
  <2> QED BY <1>0, <1>2, <2>1, <2>2, DestroyKeeps DEF Discard, Destroy, CountAfter, Over
<1>3. CASE Return \/ Throw \/ Crash
  <2>1. /\ UNCHANGED <<place, capsules, counted, refs>> /\ phase' \in {"ops", "end", "dead"}
    BY <1>3 DEF Return, Throw, Crash, Raise, Go, Quiet, recVars
  <2>2. call'.todo \in Seq(Structs)
    <3>1. CASE Return
      BY <3>1, EmptySeq DEF Return, Idle
    <3>2. CASE Throw
      BY <3>2, RaiseIsQuiet DEF Throw
    <3>3. CASE Crash
      BY <1>0, <3>3 DEF Crash
    <3> QED BY <1>3, <3>1, <3>2, <3>3
  <2>3. Leaves
    BY <1>0, <2>1 DEF Leaves
  <2> QED BY <1>0, <2>1, <2>2, <2>3, QuietKeeps DEF Before, Over
<1> QED BY <1>1, <1>2, <1>3

\* Letting go, cleaning up, judging.
LEMMA EndKeeps ==
  ASSUME CapsuleInv, Drop \/ Dropped \/ Clean \/ Judge
  PROVE  CapsuleInv'
<1>0. /\ place \in [Structs -> Places] /\ call.todo \in Seq(Structs) /\ UNCHANGED <<call, freed>>
      \/ Dropped
  BY DEF CapsuleInv, Drop, Clean, Judge, Unmoved
<1>9. /\ place \in [Structs -> Places] /\ call'.todo \in Seq(Structs) /\ freed' = freed
  BY <1>0 DEF CapsuleInv, Dropped, Unmoved
<1>1. CASE Drop
  <2>1. phase \notin Before \cup Over /\ phase' = phase
    BY <1>1 DEF Drop, Before, Over
  <2>2. PICK s : IF s \in capsules THEN Destroy(s)
                 ELSE Release(s, FALSE, <<>>) /\ UNCHANGED <<capsules, counted, refs>>
    BY <1>1 DEF Drop
  <2>3. Leaves
    BY <1>9, <2>2, ReleaseLeaves, OthersLeave DEF Destroy
  <2>4. CASE s \in capsules
    BY <1>9, <2>1, <2>2, <2>3, <2>4, DestroyKeeps DEF Destroy, CountAfter
  <2>5. CASE s \notin capsules
    BY <1>9, <2>1, <2>2, <2>3, <2>5, QuietKeeps DEF Before
  <2> QED BY <2>4, <2>5
<1>2. CASE Dropped \/ Clean \/ Judge
  <2>1. /\ UNCHANGED <<capsules, counted, refs>>
        /\ phase \in {"drop", "end", "clean", "judge"}
        /\ phase' \in {"ops", "clean", "judge", "judged"}
    BY <1>2 DEF Dropped, Clean, Judge, Go, Quiet
  <2>2. Leaves
    BY <1>9, <1>2, HarnessLeaves, OthersLeave DEF Dropped, Clean, CleanOne, Judge
  <2> QED BY <1>9, <2>1, <2>2, QuietKeeps DEF Before, Over
<1> QED BY <1>1, <1>2

\* run_case() lets go of the case; then what the consumer hid comes out.
LEMMA AfterwardsKeeps ==
  ASSUME CapsuleInv, Delete \/ Late
  PROVE  CapsuleInv'
<1>0. /\ place \in [Structs -> Places] /\ call'.todo \in Seq(Structs)
      /\ IsFiniteSet(capsules) /\ Cardinality(capsules) \in Nat
      /\ (Cardinality(capsules) = 0 <=> capsules = {})
  BY FS_CardinalityType, FS_EmptySet DEF CapsuleInv, Delete, Late
<1>1. CASE Delete
  <2>1. /\ phase = "judged" /\ phase' = "reported"
        /\ refs' = refs - 1 /\ (freed' => refs - 1 = 0)
        /\ UNCHANGED <<place, capsules, counted>>
    BY <1>1 DEF Delete, Unref, Go, recVars
  <2>2. refs = Cardinality(capsules) + 1
    BY <2>1 DEF CapsuleInv, Over
  <2>3. freed' => capsules = {}
    BY <1>0, <2>1, <2>2
  <2> QED BY <1>0, <2>1, <2>2, <2>3 DEF CapsuleInv, Before, Over
<1>2. CASE Late
  <2>1. phase = "reported" /\ refs = Cardinality(capsules)
    BY <1>2 DEF Late, CapsuleInv
  <2>2. ASSUME NEW s \in capsules, Leaves, capsules' = capsules \ {s}, counted' = counted - 1,
               Unref(refs - 1), phase' = phase
        PROVE  CapsuleInv'
    <3>1. /\ IsFiniteSet(capsules') /\ Cardinality(capsules') = Cardinality(capsules) - 1
          /\ Cardinality(capsules') \in Nat
          /\ (Cardinality(capsules') = 0 <=> capsules' = {})
      BY <1>0, <2>2, FS_RemoveElement, FS_CardinalityType, FS_EmptySet
    <3>2. refs' = Cardinality(capsules') /\ (freed' => capsules' = {})
      BY <2>1, <2>2, <3>1 DEF Unref
    <3> QED BY <1>0, <2>1, <2>2, <3>1, <3>2 DEF CapsuleInv, Leaves, Before, Over
  <2>3. ASSUME Leaves, UNCHANGED <<capsules, counted, refs, freed>>, phase' \in {"dead", phase}
        PROVE  CapsuleInv'
    BY <1>0, <2>1, <2>3 DEF CapsuleInv, Leaves, Before, Over
  <2>4. PICK s \in hidden :
          \/ /\ s \in capsules
             /\ IF InCapsule(s) THEN Release(s, FALSE, <<>>) ELSE UNCHANGED recVars
             /\ capsules' = capsules \ {s} /\ counted' = CountAfter(s)
             /\ Unref(refs - 1) /\ UNCHANGED phase
          \/ /\ place[s] = "own"
             /\ IF freed THEN Go("dead") /\ UNCHANGED recVars
                ELSE Release(s, FALSE, <<>>) /\ UNCHANGED phase
             /\ UNCHANGED <<capsules, counted, refs, freed>>
    BY <1>2 DEF Late
  <2>5. Leaves
    BY <1>0, <2>4, ReleaseLeaves, OthersLeave
  <2> QED BY <2>2, <2>3, <2>4, <2>5 DEF CountAfter, Go
<1> QED BY <1>1, <1>2

LEMMA NextKeepsCapsules ==
  ASSUME CapsuleInv, [Next]_vars
  PROVE  CapsuleInv'
<1>1. CASE UNCHANGED vars
  BY <1>1 DEF vars, recVars, pyVars, CapsuleInv
<1>2. CASE Next
  BY <1>2, LoadKeeps, BuildingKeeps, OpsKeep, WrapKeeps, ConsumerKeeps, EndKeeps,
     AfterwardsKeeps DEF Next
<1> QED BY <1>1, <1>2

-----------------------------------------------------------------------------
(* What a step of the worker does to the reconstruction. *)

\* The structures a case comes with; a stream is asked for one schema.
Bases == {Schema(1), Array, Stream}

\* Who owns what is where.
Standing ==
  /\ \A s \in Structs \ Bases : place[s] = "unborn"
  /\ \A s \in Bases : place[s] = "unborn" => owner[s] = "harness"
  /\ \A s \in Bases : AtHarness(s) => owner[s] = "harness"
  /\ \A s \in Bases : InCapsule(s) => owner[s] = "consumer"
  /\ \A s \in Bases : place[s] = "own" => owner[s] = "consumer" \/ (s = Schema(1) /\ stream)
  /\ ~stream => place[Stream] = "unborn"
  /\ stream => place[Schema(1)] \in {"unborn", "own", "dead"}

\* Nothing has left the harness before the first operation; what is to be undone
\* after a capsule failed is the harness's still.
Calls == [op : {"none", "import", "open", "next"}, todo : Seq(Structs),
          lost : SUBSET Structs, answered : {"nothing", "batch", "eof"}]

Control ==
  /\ hidden \subseteq Structs /\ call \in Calls
  /\ phase \in Before => hidden = {} /\ \A s \in Bases : place[s] \in {"unborn", "home", "dead"}
  /\ phase \notin {"call", "dead"} => call = Idle
  /\ \A s \in call.lost : s \in Bases /\ AtHarness(s)
  /\ call.lost # {} => call.todo # <<>>

Steady == capsules' = capsules /\ stream' = stream

Freed ==
  /\ FreeBacking
  /\ stream' = stream \/ (stream' /\ phase = "release first" /\ ToClean = {})

\* What case.move() moves.
Movable == {s \in {Schema(1), Array} : AtHarness(s)}

Effect ==
  \/ Steady /\ UNCHANGED recVars
  \/ /\ stream' = stream /\ UNCHANGED recVars
     /\ \E s \in capsules : ~InCapsule(s) /\ capsules' = capsules \ {s}
  \/ capsules' = capsules /\ Freed
  \/ \E s \in Bases :
       \/ Steady /\ InCapsule(s) /\ Take(s)
       \/ /\ stream' = stream /\ capsules' \in {capsules, capsules \ {s}}
          /\ InCapsule(s) \/ place[s] = "own"
          /\ Release(s, FALSE, <<>>)
       \/ Steady /\ AtHarness(s) /\ Release(s, TRUE, <<Note("harness", s, place[s])>>)
       \/ stream' = stream /\ AtHarness(s) /\ Export(s)
       \/ Steady /\ AtHarness(s) /\ MoveOut(s)
  \/ Steady /\ \E k \in kids : ReleaseKid(k)
  \/ Steady /\ Move(Movable, "exec")
  \/ Steady /\ stream /\ Unborn(1) /\ (GetSchema(1) \/ GetSchemaRunsOut(1))
  \/ Steady /\ stream /\ GetNext
  \/ Steady /\ phase \in {"load", "reload"} /\ Complete

LEMMA BasesAre ==
  /\ Bases \subseteq Structs /\ Schema(1) # Array /\ Schema(1) # Stream /\ Array # Stream
  /\ Schema(1).obj = "schema" /\ Array.obj = "array" /\ Stream.obj = "stream"
  /\ \A s \in Bases : s.obj \in Objects
BY StructsAre, SchemasAssumption DEF Bases, Schema, Array, Stream, Objects

\* A structure that is anywhere is one of the three.
LEMMA Somewhere ==
  ASSUME Standing, NEW s \in Structs, place[s] # "unborn"
  PROVE  s \in Bases
BY DEF Standing

LEMMA HarnessReleaseEffect ==
  ASSUME Standing, CapsuleInv, NEW s \in Bases, AtHarness(s), HarnessRelease(s, place[s]), Steady
  PROVE  Effect
BY DEF HarnessRelease, Effect

LEMMA CleanOneEffect ==
  ASSUME Standing, CapsuleInv, CleanOne, Steady
  PROVE  Effect
<1> DEFINE lowest(s) == \A y \in ToClean : Turn(s) <= Turn(y)
<1>1. /\ ToClean # {} /\ HarnessRelease(CHOOSE x \in ToClean : lowest(x),
                                        place[CHOOSE x \in ToClean : lowest(x)])
  BY DEF CleanOne, Cleaned
<1>2. \A x \in ToClean : Turn(x) \in Nat
  BY DEF Turn
<1>3. \E x \in ToClean : lowest(x)
  <2> DEFINE turns == {Turn(x) : x \in ToClean}
  <2>1. turns \in SUBSET Nat /\ turns # {}
    BY <1>1, <1>2
  <2>2. PICK t \in turns : \A u \in turns : t <= u
    <3> HIDE DEF turns
    <3> QED BY <2>1, Least
  <2>3. PICK x \in ToClean : t = Turn(x)
    OBVIOUS
  <2> QED BY <2>2, <2>3
<1> DEFINE s == CHOOSE x \in ToClean : lowest(x)
<1>4. s \in ToClean
  BY <1>3
<1>5. s \in Bases /\ AtHarness(s) /\ HarnessRelease(s, place[s])
  BY <1>1, <1>4 DEF ToClean, Bases
<1> HIDE DEF s
<1> QED BY <1>5, HarnessReleaseEffect

LEMMA EveryEffect ==
  ASSUME CapsuleInv, Standing, Control, [Next]_vars
  PROVE  Effect
<1>0. /\ capsules \subseteq Structs /\ call.todo \in Seq(Structs)
      /\ \A s \in capsules : place[s] # "home"
  BY DEF CapsuleInv
<1>1. CASE UNCHANGED vars
  BY <1>1 DEF vars, recVars, conVars, pyVars, Effect, Steady
<1>2. CASE Load
  <2>1. CASE BuildStep
    BY <1>2, <2>1 DEF Load, BuildStep, Request, RunsOut, Undo, recVars, Effect, Steady, Complete
  <2>2. CASE UNCHANGED <<recVars, conVars>>
    BY <1>2, <2>2 DEF Load, recVars, conVars, Effect, Steady
  <2> QED BY <1>2, <2>1, <2>2 DEF Load
<1>3. CASE DigestSent \/ ReadScript \/ Reloaded \/ Nothing \/ ImportArray \/ OpenStream
           \/ StreamOpened \/ ExpectEof \/ ReleaseBase \/ Ran \/ Return \/ Throw \/ Crash
           \/ Dropped \/ Judge \/ Delete
  BY <1>3 DEF DigestSent, ReadScript, Reloaded, Nothing, ImportArray, OpenStream, StreamOpened,
     ExpectEof, ReleaseBase, Ran, Return, Throw, Crash, Dropped, Judge, Delete, Enter, Quiet,
     Unmoved, conVars, Effect, Steady
<1>4. CASE ReleaseFirst
  <2>1. CASE Cleaned
    BY <1>4, <2>1 DEF ReleaseFirst, BuildStream, Quiet, Effect, Freed, Cleaned
  <2>2. CASE ~Cleaned
    <3>1. CleanOne /\ Steady
      BY <1>4, <2>2 DEF ReleaseFirst, Quiet, conVars, Steady
    <3> QED BY <3>1, CleanOneEffect
  <2> QED BY <2>1, <2>2
<1>5. CASE MoveStruct
  <2>1. Steady
    BY <1>5 DEF MoveStruct, Quiet, Unmoved, conVars, Steady
  <2>2. Move(Movable, "exec") \/ UNCHANGED recVars
    BY <1>5, Zenon DEF MoveStruct, Movable
  <2> QED BY <2>1, <2>2 DEF Effect
<1>6. CASE NextBatch
  <2>1. CASE place[Array] = "own" /\ Release(Array, FALSE, <<>>)
    <3>1. Array \in Bases
      BY DEF Bases
    <3>2. Steady
      BY <1>6 DEF NextBatch, Enter, Quiet, Unmoved, conVars, Steady
    <3> DEFINE s == Array
    <3>3. s \in Bases /\ place[s] = "own" /\ Release(s, FALSE, <<>>)
      BY <2>1, <3>1
    <3> HIDE DEF s
    <3> QED BY <3>2, <3>3 DEF Steady, Effect
  <2>2. CASE Enter("next", <<>>)
    BY <2>2 DEF Enter, Quiet, Unmoved, conVars, Effect, Steady
  <2> QED BY <1>6, <2>1, <2>2 DEF NextBatch
<1>7. CASE Wrap
  <2> DEFINE s == Head(call.todo)
  <2>1. s \in Structs /\ stream' = stream
    BY <1>0, <1>7, HeadTailProperties DEF Wrap, Unmoved, conVars
  <2>2. CASE AtHarness(s)
    <3>1. s \in Bases
      BY <2>1, <2>2, Somewhere DEF AtHarness
    <3> HIDE DEF s
    <3>2. Export(s) \/ (MoveOut(s) /\ capsules' = capsules) \/ (UNCHANGED recVars /\ capsules' = capsules)
      BY <1>7 DEF Wrap, Quiet, s
    <3> QED BY <2>1, <2>2, <3>1, <3>2 DEF Effect, Steady
  <2>3. CASE ~AtHarness(s)
    BY <1>7, <2>1, <2>3 DEF Wrap, Quiet, Effect, Steady
  <2> QED BY <2>2, <2>3
<1>8. CASE Unwrap
  <2>1. PICK s \in call.lost : HarnessRelease(s, place[s])
    BY <1>8 DEF Unwrap
  <2>2. s \in Bases /\ AtHarness(s) /\ Steady
    BY <1>8 DEF Control, Unwrap, Quiet, Unmoved, conVars, Steady
  <2> QED BY <2>1, <2>2, HarnessReleaseEffect
<1>9. CASE Import
  <2>1. PICK s \in capsules : InCapsule(s) /\ Take(s)
    BY <1>9 DEF Import
  <2>2. s \in Bases
    BY <1>0, <2>1, Somewhere DEF InCapsule
  <2> QED BY <1>9, <2>1, <2>2 DEF Import, Quiet, Unmoved, conVars, Effect, Steady
<1>10. CASE LetGo
  <2>1. PICK s \in Structs : place[s] = "own" /\ Release(s, FALSE, <<>>)
    BY <1>10 DEF LetGo
  <2>2. s \in Bases
    BY <2>1, Somewhere
  <2> QED BY <1>10, <2>1, <2>2 DEF LetGo, Quiet, Unmoved, conVars, Effect
<1>11. CASE LetChildGo
  BY <1>11 DEF LetChildGo, Quiet, Unmoved, conVars, Effect, Steady
<1>12. ASSUME NEW s \in capsules, Destroy(s), stream' = stream PROVE Effect
  <2>1. CASE InCapsule(s)
    <3>1. s \in Bases
      BY <1>0, <2>1, Somewhere DEF InCapsule
    <3> QED BY <1>12, <2>1, <3>1 DEF Destroy, Effect
  <2>2. CASE ~InCapsule(s)
    BY <1>12, <2>2 DEF Destroy, Effect
  <2> QED BY <2>1, <2>2
<1>13. CASE Discard
  BY <1>12, <1>13 DEF Discard, Unmoved, conVars
<1>14. CASE AskSchema \/ AskNext
  <2>1. stream
    BY <1>14 DEF AskSchema, AskNext, Through, InCapsule, Standing
  <2> QED BY <1>14, <2>1 DEF AskSchema, AskNext, Quiet, Unmoved, conVars, Effect, Steady
<1>15. CASE Drop
  <2>1. PICK s \in Held : IF s \in capsules THEN Destroy(s)
                         ELSE Release(s, FALSE, <<>>) /\ UNCHANGED <<capsules, counted, refs>>
    BY <1>15 DEF Drop
  <2>2. stream' = stream
    BY <1>15 DEF Drop, Unmoved, conVars
  <2>3. CASE s \in capsules
    BY <1>12, <2>1, <2>2, <2>3
  <2>4. CASE s \notin capsules
    <3>1. s \in Structs /\ place[s] = "own"
      BY <2>4 DEF Held
    <3>2. s \in Bases
      BY <3>1, Somewhere
    <3> QED BY <2>1, <2>2, <2>4, <3>1, <3>2 DEF Effect
  <2> QED BY <2>3, <2>4
<1>16. CASE Clean
  <2>1. CASE Cleaned
    BY <1>16, <2>1 DEF Clean, Quiet, Unmoved, conVars, Effect, Freed
  <2>2. CASE ~Cleaned
    <3>1. CleanOne /\ Steady
      BY <1>16, <2>2 DEF Clean, Quiet, Unmoved, conVars, Steady
    <3> QED BY <3>1, CleanOneEffect
  <2> QED BY <2>1, <2>2
<1>17. CASE Late
  <2>0. stream' = stream
    BY <1>17 DEF Late, conVars
  <2>1. PICK s \in hidden :
          \/ /\ s \in capsules
             /\ IF InCapsule(s) THEN Release(s, FALSE, <<>>) ELSE UNCHANGED recVars
             /\ capsules' = capsules \ {s} /\ counted' = CountAfter(s)
             /\ Unref(refs - 1) /\ UNCHANGED phase
          \/ /\ place[s] = "own"
             /\ IF freed THEN Go("dead") /\ UNCHANGED recVars
                ELSE Release(s, FALSE, <<>>) /\ UNCHANGED phase
             /\ UNCHANGED <<capsules, counted, refs, freed>>
    BY <1>17 DEF Late
  <2>2. CASE s \in capsules /\ InCapsule(s) /\ Release(s, FALSE, <<>>) /\ capsules' = capsules \ {s}
    <3>1. s \in Bases
      BY <1>0, <2>2, Somewhere DEF InCapsule
    <3> QED BY <2>0, <2>2, <3>1 DEF Effect
  <2>3. CASE s \in capsules /\ ~InCapsule(s) /\ UNCHANGED recVars /\ capsules' = capsules \ {s}
    BY <2>0, <2>3 DEF Effect
  <2>4. CASE UNCHANGED recVars /\ capsules' = capsules
    BY <2>0, <2>4 DEF Effect, Steady
  <2>5. CASE place[s] = "own" /\ Release(s, FALSE, <<>>) /\ capsules' = capsules
    <3>1. s \in Structs
      BY DEF Control
    <3>2. s \in Bases
      BY <2>5, <3>1, Somewhere
    <3> QED BY <2>0, <2>5, <3>2 DEF Effect
  <2> QED BY <2>1, <2>2, <2>3, <2>4, <2>5
<1> QED BY <1>1, <1>2, <1>3, <1>4, <1>5, <1>6, <1>7, <1>8, <1>9, <1>10, <1>11, <1>13, <1>14,
        <1>15, <1>16, <1>17 DEF Next
-----------------------------------------------------------------------------
(* The type of the reconstruction. *)

\* Sequences of one and two, put together.
LEMMA Chained ==
  \A a, b \in Structs :
    /\ (<<>> \o <<a>>) \o <<b>> = <<a, b>> /\ (<<a>> \o <<b>>) \o <<>> = <<a, b>>
    /\ (<<>> \o <<>>) \o <<a>> = <<a>> /\ (<<a>> \o <<>>) \o <<>> = <<a>>
<1> SUFFICES ASSUME NEW a \in Structs, NEW b \in Structs
             PROVE  /\ (<<>> \o <<a>>) \o <<b>> = <<a, b>> /\ (<<a>> \o <<b>>) \o <<>> = <<a, b>>
                    /\ (<<>> \o <<>>) \o <<a>> = <<a>> /\ (<<a>> \o <<>>) \o <<>> = <<a>>
  OBVIOUS
<1>1. <<a>> \in Seq(Structs) /\ <<a, b>> \in Seq(Structs) /\ <<>> \in Seq(Structs)
  OBVIOUS
<1>2. <<>> \o <<a>> = <<a>> /\ <<a>> \o <<>> = <<a>> /\ <<>> \o <<>> = <<>>
  BY <1>1, ConcatEmptySeq
<1>3. <<a, b>> \o <<>> = <<a, b>>
  BY <1>1, ConcatEmptySeq
<1>4. <<a>> \o <<b>> = <<a, b>>
  BY TwoOf
<1> QED BY <1>2, <1>3, <1>4

\* What Complete exports, one structure or two.
LEMMA ExportsAre ==
  \/ stream /\ HasArray /\ Exports = <<Array, Stream>>
  \/ stream /\ ~HasArray /\ Exports = <<Stream>>
  \/ ~stream /\ HasArray /\ Exports = <<Schema(1), Array>>
  \/ ~stream /\ ~HasArray /\ Exports = <<Schema(1)>>
<1>1. Exports = (IF stream THEN <<>> ELSE <<Schema(1)>>) \o (IF HasArray THEN <<Array>> ELSE <<>>)
                \o (IF stream THEN <<Stream>> ELSE <<>>)
  BY DEF Exports
<1>2. CASE stream /\ HasArray
  <2>1. Exports = (<<>> \o <<Array>>) \o <<Stream>>
    BY <1>1, <1>2
  <2> QED BY <1>2, <2>1, StructsAre, Chained
<1>3. CASE stream /\ ~HasArray
  <2>1. Exports = (<<>> \o <<>>) \o <<Stream>>
    BY <1>1, <1>3
  <2> QED BY <1>3, <2>1, StructsAre, Chained
<1>4. CASE ~stream /\ HasArray
  <2>1. Exports = (<<Schema(1)>> \o <<Array>>) \o <<>>
    BY <1>1, <1>4
  <2> QED BY <1>4, <2>1, StructsAre, Chained
<1>5. CASE ~stream /\ ~HasArray
  <2>1. Exports = (<<Schema(1)>> \o <<>>) \o <<>>
    BY <1>1, <1>5
  <2> QED BY <1>5, <2>1, StructsAre, Chained
<1> QED BY <1>2, <1>3, <1>4, <1>5

LEMMA OneOrTwo ==
  ASSUME NEW S, NEW a \in S, NEW b \in S
  PROVE  /\ <<a>> \in Seq(S) /\ Len(<<a>>) = 1 /\ Range(<<a>>) = {a}
         /\ <<a, b>> \in Seq(S) /\ Len(<<a, b>>) = 2 /\ Range(<<a, b>>) = {a, b}
<1>1. <<a>> \in Seq(S) /\ Len(<<a>>) = 1 /\ DOMAIN <<a>> = {1} /\ <<a>>[1] = a
  OBVIOUS
<1>2. /\ <<a, b>> \in Seq(S) /\ Len(<<a, b>>) = 2 /\ DOMAIN <<a, b>> = {1, 2}
      /\ <<a, b>>[1] = a /\ <<a, b>>[2] = b
  OBVIOUS
<1>3. Range(<<a>>) = {a} /\ Range(<<a, b>>) = {a, b}
  BY <1>1, <1>2 DEF Range
<1> QED BY <1>1, <1>2, <1>3

LEMMA ExportsType ==
  /\ Exports \in Seq(Structs) /\ Len(Exports) \in 1..2
  /\ Range(Exports) = (IF stream THEN {Stream} ELSE {Schema(1)}) \cup (IF HasArray THEN {Array} ELSE {})
<1>1. Array \in Structs /\ Stream \in Structs /\ Schema(1) \in Structs
  BY StructsAre
<1>2. CASE stream /\ HasArray
  <2>1. /\ <<Array, Stream>> \in Seq(Structs) /\ Len(<<Array, Stream>>) = 2
        /\ Range(<<Array, Stream>>) = {Array, Stream}
    BY <1>1, OneOrTwo
  <2>2. Exports = <<Array, Stream>>
    BY <1>2, ExportsAre, Zenon
  <2>3. Exports \in Seq(Structs) /\ Len(Exports) = 2 /\ Range(Exports) = Range(<<Array, Stream>>)
    BY <2>1, <2>2, Zenon
  <2> QED BY <1>2, <2>1, <2>3
<1>3. CASE stream /\ ~HasArray
  <2>1. <<Stream>> \in Seq(Structs) /\ Len(<<Stream>>) = 1 /\ Range(<<Stream>>) = {Stream}
    BY <1>1, OneOrTwo
  <2>2. Exports = <<Stream>>
    BY <1>3, ExportsAre, Zenon
  <2>3. Exports \in Seq(Structs) /\ Len(Exports) = 1 /\ Range(Exports) = Range(<<Stream>>)
    BY <2>1, <2>2, Zenon
  <2> QED BY <1>3, <2>1, <2>3
<1>4. CASE ~stream /\ HasArray
  <2>1. /\ <<Schema(1), Array>> \in Seq(Structs) /\ Len(<<Schema(1), Array>>) = 2
        /\ Range(<<Schema(1), Array>>) = {Schema(1), Array}
    BY <1>1, OneOrTwo
  <2>2. Exports = <<Schema(1), Array>>
    BY <1>4, ExportsAre, Zenon
  <2>3. Exports \in Seq(Structs) /\ Len(Exports) = 2 /\ Range(Exports) = Range(<<Schema(1), Array>>)
    BY <2>1, <2>2, Zenon
  <2> QED BY <1>4, <2>1, <2>3
<1>5. CASE ~stream /\ ~HasArray
  <2>1. /\ <<Schema(1)>> \in Seq(Structs) /\ Len(<<Schema(1)>>) = 1
        /\ Range(<<Schema(1)>>) = {Schema(1)}
    BY <1>1, OneOrTwo
  <2>2. Exports = <<Schema(1)>>
    BY <1>5, ExportsAre, Zenon
  <2>3. Exports \in Seq(Structs) /\ Len(Exports) = 1 /\ Range(Exports) = Range(<<Schema(1)>>)
    BY <2>1, <2>2, Zenon
  <2> QED BY <1>5, <2>1, <2>3
<1> QED BY <1>2, <1>3, <1>4, <1>5

LEMMA CompleteType ==
  ASSUME shape \in Shapes, Complete
  PROVE  RecTypeOK'
<1> DEFINE e(s) == Note("exported", s, "home")
<1>1. \A s \in Structs : e(s) \in Event
  <2>1. BASE \in Nodes /\ "home" \in Places /\ "exported" \in Kinds
    BY DEF Nodes, Places, Locations, Kinds
  <2> QED BY <2>1, EvType DEF Note
<1>2. Array \in Structs /\ Stream \in Structs /\ Schema(1) \in Structs
  BY StructsAre
<1>3. log' = [i \in DOMAIN Exports |-> e(Exports[i])]
  BY DEF Complete
<1>4. Exports \in Seq(Structs) /\ Len(Exports) <= 2 /\ DOMAIN Exports = 1..Len(Exports)
  <2>1. Exports \in Seq(Structs) /\ Len(Exports) <= 2
    <3> DEFINE n == Len(Exports)
    <3>1. Exports \in Seq(Structs) /\ n \in 1..2
      BY ExportsType
    <3> HIDE DEF n
    <3>2. n <= 2
      BY <3>1
    <3> QED BY <3>1, <3>2 DEF n
  <2> QED BY <2>1
<1> HIDE DEF e
<1>5. log' \in Seq(Event) /\ Len(log') <= MaxEvents
  <2> DEFINE n == Len(Exports)
             l == [i \in 1..n |-> e(Exports[i])]
  <2>1. n \in Nat /\ n <= 2 /\ \A i \in 1..n : e(Exports[i]) \in Event
    BY <1>1, <1>4
  <2>2. log' = l
    BY <1>3, <1>4
  <2> HIDE DEF n
  <2>3. l \in Seq(Event) /\ Len(l) = n
    BY <2>1
  <2> QED BY <2>1, <2>2, <2>3, EventsAssumption
<1>6. kids' \subseteq Kids
  <2>1. Len(shape.array) <= 4 /\ shape.array \in Seq(TreeNode)
    BY ShapesAssumption
  <2>2. Len(shape.array) \in Nat
    BY <2>1
  <2>3. kids' = {i - 1 : i \in 2..Len(shape.array)}
    BY DEF Complete
  <2> QED BY <2>1, <2>2, <2>3 DEF Kids, DICT
<1>7. place' \in [Structs -> Places]
  BY DEF Complete, Places, Locations
<1> QED BY <1>5, <1>6, <1>7 DEF Complete, RecTypeOK

LEMMA TwoNotes ==
  ASSUME NEW s \in Structs, NEW a \in Kinds, NEW b \in Kinds, NEW where \in Places
  PROVE  <<Note(a, s, where), Note(b, s, where)>> \in Seq(Event)
<1>1. Note(a, s, where) \in Event /\ Note(b, s, where) \in Event
  BY EvType DEF Note, Nodes, BASE
<1> QED BY <1>1

LEMMA EffectType ==
  ASSUME RecTypeOK, shape \in Shapes, Effect
  PROVE  RecTypeOK'
<1>1. CASE UNCHANGED recVars \/ FreeBacking
  BY <1>1, FreeBackingType DEF recVars, RecTypeOK
<1>2. ASSUME NEW s \in Bases, Take(s) \/ Release(s, FALSE, <<>>)
                             \/ Release(s, TRUE, <<Note("harness", s, place[s])>>)
      PROVE  RecTypeOK'
  <2>1. s \in Structs /\ place[s] \in Places
    BY BasesAre DEF RecTypeOK
  <2>2. <<Note("harness", s, place[s])>> \in Seq(Event)
    BY <2>1, NoteType DEF Kinds
  <2>3. <<>> \in Seq(Event)
    OBVIOUS
  <2>4. ASSUME NEW before \in Seq(Event), NEW harness, Release(s, harness, before) PROVE RecTypeOK'
    BY <2>1, <2>4, ReleaseType
  <2>5. CASE Take(s)
    BY <2>1, <2>5, TakeType
  <2>6. CASE Release(s, FALSE, <<>>)
    BY <2>3, <2>4, <2>6
  <2>7. CASE Release(s, TRUE, <<Note("harness", s, place[s])>>)
    BY <2>2, <2>4, <2>7
  <2> QED BY <1>2, <2>5, <2>6, <2>7
<1>3. ASSUME NEW s \in Bases, Export(s) \/ MoveOut(s) PROVE RecTypeOK'
  <2>1. s \in Structs /\ "exec" \in Places
    BY BasesAre DEF Places, Locations
  <2>2. CASE Export(s)
    <3>1. <<Note("moved", s, "exec"), Note("imported", s, "exec")>> \in Seq(Event)
      BY <2>1, TwoNotes DEF Kinds
    <3> QED BY <2>1, <2>2, <3>1, ObserveType DEF Export, RecTypeOK
  <2>3. CASE MoveOut(s)
    <3>1. <<Note("moved", s, "exec")>> \in Seq(Event)
      BY <2>1, NoteType DEF Kinds
    <3> QED BY <2>1, <2>3, <3>1, ObserveType DEF MoveOut, RecTypeOK
  <2> QED BY <1>3, <2>2, <2>3
<1>4. ASSUME NEW k \in kids, ReleaseKid(k) PROVE RecTypeOK'
  <2>1. k \in Nodes
    BY DEF RecTypeOK, Kids, Nodes
  <2> QED BY <1>4, <2>1, ReleaseKidType
<1>5. ASSUME NEW m, Move(m, "exec") PROVE RecTypeOK'
  BY <1>5, MoveType DEF Places, Locations
<1>6. CASE GetSchema(1) \/ GetSchemaRunsOut(1)
  <2>1. 1 \in 1..MaxSchemas
    BY SchemasAssumption
  <2>2. ASSUME NEW k \in 1..MaxSchemas, GetSchema(k) \/ GetSchemaRunsOut(k) PROVE RecTypeOK'
    BY <2>2, GetSchemaType
  <2> QED BY <1>6, <2>1, <2>2
<1>7. CASE GetNext
  BY <1>7, GetNextType
<1>8. CASE Complete
  BY <1>8, CompleteType
<1> QED BY <1>1, <1>2, <1>3, <1>4, <1>5, <1>6, <1>7, <1>8 DEF Effect, Freed

-----------------------------------------------------------------------------
(* Who owns what, after every step. *)

LEMMA StandingRelease ==
  ASSUME RecTypeOK, CapsuleInv, Standing, stream' = stream, NEW s \in Bases, NEW h, NEW b,
         place[s] # "unborn", Release(s, h, b), capsules' \in {capsules, capsules \ {s}}
  PROVE  Standing'
<1>1. \A x \in Structs : /\ place'[x] = IF x \in Ended(s) THEN "dead" ELSE place[x]
                         /\ owner'[x] = owner[x]
  BY DEF Release
<1>2. s \in Ended(s) /\ Ended(s) \subseteq Bases
  BY DEF Ended, Bases
<1>3. \A x \in Bases : x \in Structs /\ (x # s => (x \in capsules' <=> x \in capsules))
  BY BasesAre
<1>4. \A x \in Bases : /\ place'[x] = "dead" \/ (x # s /\ place'[x] = place[x])
                       /\ owner'[x] = owner[x]
  BY <1>1, <1>2, <1>3
<1>5. \A x \in Bases : (AtHarness(x)' => AtHarness(x)) /\ (InCapsule(x)' => InCapsule(x))
  BY <1>3, <1>4 DEF AtHarness, InCapsule
<1>6. Schema(1) \in Bases /\ Stream \in Bases
  BY DEF Bases
<1>7. \A x \in Structs \ Bases : place'[x] = "unborn"
  BY <1>1, <1>2 DEF Standing
<1>8. ~stream => place'[Stream] = "unborn"
  BY <1>1, <1>2, <1>6, BasesAre DEF Standing, Ended
<1> QED BY <1>4, <1>5, <1>6, <1>7, <1>8 DEF Standing

LEMMA StandingEffect ==
  ASSUME RecTypeOK, CapsuleInv, Standing, Control, Effect, shape \in Shapes
  PROVE  Standing'
<1>0. /\ Bases \subseteq Structs
      /\ \A s \in capsules : s \in Structs /\ place[s] # "home"
  BY BasesAre DEF CapsuleInv
<1>1. CASE Steady /\ UNCHANGED recVars
  BY <1>1 DEF Standing, Steady, recVars, AtHarness, InCapsule
<1>2. ASSUME stream' = stream, UNCHANGED recVars, NEW s \in capsules, ~InCapsule(s), capsules' = capsules \ {s}
      PROVE  Standing'
  BY <1>0, <1>2 DEF Standing, recVars, AtHarness, InCapsule
<1>3. CASE capsules' = capsules /\ Freed
  <2>1. UNCHANGED <<place, owner, capsules>>
    BY <1>3 DEF Freed, FreeBacking
  <2>2. CASE stream' = stream
    BY <2>1, <2>2 DEF Standing, AtHarness, InCapsule
  <2>3. CASE stream' /\ phase = "release first" /\ ToClean = {}
    <3>1. \A x \in Bases : ~AtHarness(x) /\ place[x] \in {"unborn", "home", "dead"}
      BY <2>3 DEF ToClean, Bases, Control, Before
    <3>2. \A x \in Bases : place[x] \in {"unborn", "dead"}
      BY <3>1 DEF AtHarness
    <3>3. Stream \in Bases /\ Schema(1) \in Bases
      BY DEF Bases
    <3>4. /\ \A x \in Bases : ~AtHarness(x)' /\ ~InCapsule(x)' /\ place'[x] \in {"unborn", "dead"}
          /\ place'[Stream] = "unborn" \/ stream'
      BY <2>1, <2>3, <3>2, <3>3 DEF AtHarness, InCapsule, Standing
    <3> QED BY <2>1, <3>3, <3>4 DEF Standing
  <2> QED BY <1>3, <2>2, <2>3 DEF Freed
<1>4. ASSUME NEW s \in Bases, Steady, InCapsule(s), Take(s) PROVE Standing'
  <2>1. \A x \in Structs : place'[x] = IF x = s THEN "own" ELSE place[x]
    BY <1>0, <1>4 DEF Take, RecTypeOK, IsLive, InCapsule, Locations
  <2>2. UNCHANGED <<owner, capsules, stream>>
    BY <1>4 DEF Take, Steady
  <2>3. s = Stream => stream
    BY <1>4 DEF Standing, InCapsule
  <2>4. stream => s # Schema(1)
    BY <1>4 DEF Standing, InCapsule
  <2> QED BY <1>0, <1>4, <2>1, <2>2, <2>3, <2>4 DEF Standing, AtHarness, InCapsule, Bases
<1>5. ASSUME NEW s \in Bases, stream' = stream, capsules' \in {capsules, capsules \ {s}},
             InCapsule(s) \/ place[s] = "own", Release(s, FALSE, <<>>)
      PROVE  Standing'
  BY <1>5, StandingRelease DEF InCapsule
<1>6. ASSUME NEW s \in Bases, Steady, AtHarness(s),
             Release(s, TRUE, <<Note("harness", s, place[s])>>)
      PROVE  Standing'
  BY <1>6, StandingRelease DEF Steady, AtHarness
<1>7. ASSUME NEW s \in Bases, AtHarness(s), stream' = stream, Export(s) PROVE Standing'
  <2>1. \A x \in Structs : /\ place'[x] = IF x = s THEN "exec" ELSE place[x]
                           /\ owner'[x] = IF x = s THEN "consumer" ELSE owner[x]
    BY <1>0, <1>7 DEF Export, RecTypeOK
  <2>2. capsules' = capsules \cup {s}
    BY <1>7 DEF Export
  <2>3. (s = Stream => stream) /\ (stream => s # Schema(1))
    BY <1>7 DEF Standing, AtHarness
  <2> QED BY <1>0, <1>7, <2>1, <2>2, <2>3 DEF Standing, AtHarness, InCapsule, Bases
<1>8. ASSUME NEW s \in Bases, AtHarness(s), Steady, MoveOut(s) PROVE Standing'
  <2>1. \A x \in Structs : place'[x] = IF x = s THEN "exec" ELSE place[x]
    BY <1>0, <1>8 DEF MoveOut, RecTypeOK
  <2>2. UNCHANGED <<owner, capsules, stream>>
    BY <1>8 DEF MoveOut, Steady
  <2>3. (s = Stream => stream) /\ (stream => s # Schema(1)) /\ s \notin capsules
    BY <1>0, <1>8 DEF Standing, AtHarness
  <2> QED BY <1>0, <1>8, <2>1, <2>2, <2>3 DEF Standing, AtHarness, InCapsule, Bases
<1>9. ASSUME NEW k \in kids, Steady, ReleaseKid(k) PROVE Standing'
  BY <1>9 DEF ReleaseKid, Standing, Steady, AtHarness, InCapsule
<1>10. CASE Steady /\ Move(Movable, "exec")
  <2>1. \A x \in Structs : /\ place'[x] = IF x \in Movable /\ IsLive(x) THEN "exec" ELSE place[x]
                           /\ owner'[x] = owner[x]
    BY <1>10 DEF Move
  <2>2. \A x \in Movable : x \in Bases /\ AtHarness(x) /\ x \notin capsules
    BY <1>0 DEF AtHarness, Bases, Movable
  <2>3. UNCHANGED <<capsules, stream>>
    BY <1>10 DEF Steady
  <2>4. Stream \notin Movable /\ (stream => Schema(1) \notin Movable)
    BY BasesAre DEF Standing, AtHarness, Movable
  <2> QED BY <1>0, <2>1, <2>2, <2>3, <2>4 DEF Standing, AtHarness, InCapsule, Bases
<1>11. CASE Steady /\ stream /\ Unborn(1) /\ (GetSchema(1) \/ GetSchemaRunsOut(1))
  <2>1. /\ \A x \in Structs : x # Schema(1) => place'[x] = place[x] /\ owner'[x] = owner[x]
        /\ place'[Schema(1)] \in {"unborn", "own"}
        /\ place'[Schema(1)] = "unborn" => owner'[Schema(1)] = "harness"
        /\ UNCHANGED <<capsules, stream>>
    BY <1>0, <1>11 DEF GetSchema, GetSchemaRunsOut, RecTypeOK, Steady, Unborn, Standing, Bases
  <2> QED BY <1>0, <1>11, <2>1, BasesAre DEF Standing, AtHarness, InCapsule, Bases
<1>12. CASE Steady /\ stream /\ GetNext
  <2>1. CASE Undelivered
    <3>1. \A x \in Structs : /\ place'[x] = IF x = Array THEN "own" ELSE place[x]
                             /\ owner'[x] = IF x = Array THEN "consumer" ELSE owner[x]
      BY <1>12, <2>1 DEF GetNext, RecTypeOK
    <3>2. UNCHANGED <<capsules, stream>>
      BY <1>12 DEF Steady
    <3> QED BY <1>0, <1>12, <3>1, <3>2, BasesAre DEF Standing, AtHarness, InCapsule, Bases
  <2>2. CASE ~Undelivered
    BY <1>12, <2>2 DEF GetNext, Standing, Steady, AtHarness, InCapsule
  <2> QED BY <2>1, <2>2
<1>13. CASE Steady /\ phase \in {"load", "reload"} /\ Complete
  <2>1. \A x \in Structs : /\ owner'[x] = "harness"
                           /\ place'[x] = IF x \in Range(Exports) THEN "home" ELSE "unborn"
    BY <1>13 DEF Complete
  <2>2. /\ Range(Exports) \subseteq Bases
        /\ stream => Schema(1) \notin Range(Exports)
        /\ ~stream => Stream \notin Range(Exports)
    BY ExportsType, BasesAre DEF Bases
  <2>3. stream' = stream /\ capsules' = {}
    BY <1>13 DEF Steady, CapsuleInv, Before
  <2> QED BY <1>0, <2>1, <2>2, <2>3 DEF Standing, AtHarness, InCapsule, Bases
<1> QED BY <1>1, <1>2, <1>3, <1>4, <1>5, <1>6, <1>7, <1>8, <1>9, <1>10, <1>11, <1>12, <1>13
        DEF Effect
-----------------------------------------------------------------------------
(* Where run_case() is, and what it is calling. *)

LEMMA IdleIs == Idle \in Calls /\ Idle.lost = {} /\ Idle.op = "none" /\ Idle.todo = <<>>
BY EmptySeq DEF Idle, Calls

\* Past the first operations, with nothing half handed over.
LEMMA ControlOn ==
  ASSUME hidden' \subseteq Structs, phase' \notin Before, call' \in Calls, call'.lost = {},
         phase' \notin {"call", "dead"} => call' = Idle
  PROVE  Control'
BY DEF Control

\* The sequence broken off, or between two calls.
LEMMA ControlIdle ==
  ASSUME hidden' \subseteq Structs, phase' \notin Before, call' = Idle
  PROVE  Control'
BY IdleIs, ControlOn

LEMMA ControlBefore ==
  ASSUME Control, Load \/ DigestSent \/ ReadScript \/ ReleaseFirst \/ Reloaded
  PROVE  Control'
<1>1. /\ phase \in Before /\ call' = call /\ call = Idle /\ hidden' = hidden /\ hidden = {}
      /\ \A s \in Bases : place[s] \in {"unborn", "home", "dead"}
  BY DEF Load, DigestSent, ReadScript, ReleaseFirst, Reloaded, Quiet, Control, Before
<1>2. ASSUME \A s \in Bases : place'[s] \in {"unborn", "home", "dead"} PROVE Control'
  BY <1>1, <1>2, IdleIs DEF Control
<1>3. CASE Load
  <2>1. Bases \subseteq Structs
    BY BasesAre
  <2>2. UNCHANGED place \/ Complete
    BY <1>3 DEF Load, BuildStep, Request, RunsOut, Undo, recVars
  <2>3. \A s \in Bases : place'[s] \in {"unborn", "home", "dead"}
    BY <1>1, <2>1, <2>2 DEF Complete
  <2> QED BY <1>2, <2>3
<1>4. CASE DigestSent \/ ReadScript \/ Reloaded
  BY <1>1, <1>2, <1>4 DEF DigestSent, ReadScript, Reloaded, recVars
<1>5. CASE ReleaseFirst
  <2>1. \/ UNCHANGED place
        \/ \E s : Release(s, TRUE, <<Note("harness", s, place[s])>>)
    BY <1>5, Zenon DEF ReleaseFirst, FreeBacking, CleanOne, HarnessRelease, recVars
  <2>2. ASSUME NEW s, Release(s, TRUE, <<Note("harness", s, place[s])>>)
        PROVE  \A x \in Bases : place'[x] \in {place[x], "dead"}
    BY <2>2, BasesAre DEF Release
  <2>3. \A x \in Bases : place'[x] \in {"unborn", "home", "dead"}
    BY <1>1, <2>1, <2>2
  <2> QED BY <1>2, <2>3
<1> QED BY <1>3, <1>4, <1>5

LEMMA RaiseControl ==
  ASSUME NEW panicked, Raise(panicked), hidden' \subseteq Structs
  PROVE  Control'
BY ControlIdle DEF Raise, Go, Before

LEMMA EnterControl ==
  ASSUME Control, NEW op \in {"import", "open", "next"}, NEW todo \in Seq(Structs), Enter(op, todo)
  PROVE  Control'
<1>1. call' \in Calls /\ call'.lost = {} /\ phase' = "call" /\ hidden' = hidden
  BY DEF Enter, Idle, Calls, Go, Quiet
<1> QED BY <1>1, ControlOn DEF Control, Before

LEMMA ControlOps ==
  ASSUME Control,
         \/ Nothing \/ MoveStruct \/ ImportArray \/ OpenStream \/ StreamOpened
         \/ NextBatch \/ ExpectEof \/ ReleaseBase \/ Ran
  PROVE  Control'
<1>0. hidden' = hidden /\ phase = "ops" /\ call = Idle /\ hidden' \subseteq Structs
  BY DEF Control, Nothing, MoveStruct, ImportArray, OpenStream, StreamOpened, NextBatch, ExpectEof,
     ReleaseBase, Ran, Enter, Quiet, AtOp
<1>1. CASE Nothing \/ StreamOpened \/ ExpectEof \/ ReleaseBase \/ Ran
  <2>1. phase' \notin Before /\ call' = Idle
    BY <1>0, <1>1 DEF Nothing, StreamOpened, ExpectEof, ReleaseBase, Ran, Go, Before
  <2> QED BY <1>0, <2>1, ControlIdle
<1>2. CASE MoveStruct
  <2>1. phase' \in {"ops", "end"} /\ call' = Idle
    BY <1>0, <1>2 DEF MoveStruct, Raise, Go
  <2> QED BY <1>0, <2>1, ControlIdle DEF Before
<1>3. CASE ImportArray
  <2> DEFINE todo == <<Schema(1), Array>>
  <2>1. todo \in Seq(Structs) /\ Enter("import", todo)
    BY <1>3, StructsAre, TwoOf DEF ImportArray
  <2> HIDE DEF todo
  <2> QED BY <2>1, EnterControl
<1>4. CASE OpenStream
  <2> DEFINE todo == <<Stream>>
  <2>1. todo \in Seq(Structs) /\ Enter("open", todo)
    BY <1>4, StructsAre DEF OpenStream
  <2> HIDE DEF todo
  <2> QED BY <2>1, EnterControl
<1>5. CASE NextBatch
  <2>1. CASE Enter("next", <<>>)
    <3> DEFINE todo == <<>>
    <3>1. todo \in Seq(Structs) /\ Enter("next", todo)
      BY <2>1
    <3> HIDE DEF todo
    <3> QED BY <3>1, EnterControl
  <2>2. CASE UNCHANGED <<phase, ses, call>>
    BY <1>0, <2>2, ControlIdle DEF Before
  <2> QED BY <1>5, <2>1, <2>2, Zenon DEF NextBatch
<1> QED BY <1>1, <1>2, <1>3, <1>4, <1>5

LEMMA ControlCall ==
  ASSUME Control, CapsuleInv, Standing, RecTypeOK,
         \/ Wrap \/ Unwrap \/ Import \/ LetGo \/ LetChildGo \/ Discard \/ AskSchema
         \/ AskNext \/ Return \/ Throw \/ Crash
  PROVE  Control'
<1>0. phase = "call" /\ call \in Calls /\ hidden \subseteq Structs
  BY DEF Control, Wrap, Unwrap, Import, LetGo, LetChildGo, Discard, AskSchema, AskNext, Return,
     Throw, Crash, Busy, InCall
<1>1. CASE Wrap
  <2>0. PICK s : s = Head(call.todo)
    OBVIOUS
  <2>1. /\ call.todo \in Seq(Structs) /\ call.todo # <<>> /\ call.lost = {}
    BY <1>0, <1>1 DEF Wrap, Calls
  <2>2. s \in Structs /\ Tail(call.todo) \in Seq(Structs)
    BY <2>0, <2>1, HeadTailProperties
  <2>3. \/ AtHarness(s) /\ Export(s) /\ call' = [call EXCEPT !.todo = Tail(@)] /\ UNCHANGED <<phase, ses>>
        \/ /\ AtHarness(s) /\ MayRunOut /\ MoveOut(s) /\ call' = [call EXCEPT !.lost = {s}]
           /\ UNCHANGED <<phase, ses>> /\ Quiet
        \/ Raise(FALSE) /\ Quiet
    BY <1>1, <2>0 DEF Wrap
  <2>4. CASE Export(s) /\ call' = [call EXCEPT !.todo = Tail(@)] /\ UNCHANGED <<phase, ses>>
    <3>1. call' \in Calls /\ call'.lost = {} /\ hidden' = hidden /\ phase' = "call"
      BY <1>0, <2>1, <2>2, <2>4 DEF Calls, Export
    <3> QED BY <1>0, <3>1, ControlOn DEF Before
  <2>5. CASE /\ AtHarness(s) /\ MoveOut(s) /\ call' = [call EXCEPT !.lost = {s}]
             /\ UNCHANGED <<phase, ses>> /\ Quiet
    <3>1. call' \in Calls /\ call'.lost = {s} /\ call'.todo # <<>>
      BY <1>0, <2>1, <2>2, <2>5 DEF Calls
    <3>2. s \in Bases
      BY <2>2, <2>5, Somewhere DEF AtHarness
    <3>3. AtHarness(s)'
      <4>1. s \notin capsules /\ capsules' = capsules
        BY <2>5 DEF AtHarness, Quiet, CapsuleInv
      <4>2. place'[s] = "exec"
        BY <2>2, <2>5 DEF MoveOut, CapsuleInv
      <4> QED BY <4>1, <4>2 DEF AtHarness
    <3>4. phase' = "call" /\ hidden' = hidden
      BY <1>0, <2>5 DEF Quiet
    <3>5. \A x \in call'.lost : x \in Bases /\ AtHarness(x)'
      BY <3>1, <3>2, <3>3
    <3> QED BY <1>0, <3>1, <3>4, <3>5 DEF Control, Before
  <2>6. CASE Raise(FALSE) /\ Quiet
    BY <1>0, <2>6, RaiseControl DEF Quiet
  <2> QED BY <2>3, <2>4, <2>5, <2>6
<1>2. CASE Unwrap
  BY <1>0, <1>2, RaiseControl DEF Unwrap, Quiet
<1>3. CASE Import \/ LetGo \/ LetChildGo \/ Discard \/ AskSchema \/ AskNext
  <2>1. phase' = "call" /\ hidden' = hidden /\ call.lost = {}
    BY <1>0, <1>3 DEF Import, LetGo, LetChildGo, Discard, AskSchema, AskNext, Busy, Quiet, Control
  <2>2. call' = call \/ \E a \in {"batch", "eof"} : call' = [call EXCEPT !.answered = a]
    BY <1>3 DEF Import, LetGo, LetChildGo, Discard, AskSchema, AskNext
  <2>3. call' \in Calls /\ call'.lost = {}
    BY <1>0, <2>1, <2>2 DEF Calls
  <2> QED BY <1>0, <2>1, <2>3, ControlOn DEF Before
<1>4. CASE Return
  <2>1. Held \subseteq Structs
    BY DEF Held, CapsuleInv
  <2> QED BY <1>4, <2>1, ControlIdle DEF Return, Go, Before
<1>5. CASE Throw
  <2>1. Held \subseteq Structs
    BY DEF Held, CapsuleInv
  <2> QED BY <1>5, <2>1, RaiseControl DEF Throw
<1>6. CASE Crash
  BY <1>6 DEF Crash, Go, Quiet, recVars, Control, AtHarness, Before
<1> QED BY <1>1, <1>2, <1>3, <1>4, <1>5, <1>6

LEMMA ControlEnd ==
  ASSUME Control, Drop \/ Dropped \/ Clean \/ Judge \/ Delete \/ Late
  PROVE  Control'
<1>1. hidden' = hidden /\ call' = Idle /\ hidden \subseteq Structs
  BY DEF Drop, Dropped, Clean, Judge, Delete, Late, Quiet, Control
<1>2. phase' \notin Before
  <2>1. CASE Drop \/ Dropped \/ Clean \/ Judge \/ Delete
    BY <2>1 DEF Drop, Dropped, Clean, Judge, Delete, Go, Before
  <2>2. CASE Late
    <3>1. phase = "reported" /\ phase' \in {phase, "dead"}
      BY <2>2, Zenon DEF Late, Go
    <3> QED BY <3>1 DEF Before
  <2> QED BY <2>1, <2>2
<1> QED BY <1>1, <1>2, ControlIdle

LEMMA ControlStep ==
  ASSUME Control, CapsuleInv, Standing, RecTypeOK, [Next]_vars
  PROVE  Control'
<1>1. CASE UNCHANGED vars
  BY <1>1 DEF vars, recVars, pyVars, Control, AtHarness
<1> QED BY <1>1, ControlBefore, ControlOps, ControlCall, ControlEnd DEF Next

-----------------------------------------------------------------------------
(* What the log says of each structure. *)

\* The machine the log leaves a structure's kind in says how it stands.
Hears(s) ==
  LET mc == Mach(log)[s.obj]
  IN  /\ place[s] = "unborn" => mc.state = "absent"
      /\ place[s] = "dead" => mc.state = "released"
      /\ IsLive(s) /\ owner[s] = "consumer" => mc.state = "imported" /\ mc.loc = givenAt[s]
      /\ IsLive(s) /\ owner[s] = "harness" =>
           mc.state = IF stream /\ s = Schema(1) THEN "absent" ELSE "exported"

HeardNow ==
  /\ Mach(log) \in [Objects -> Machine]
  /\ \A s \in Bases : Hears(s)
  /\ Found(log, FALSE) = Told(sins, FALSE)

Heard == ~dropped => HeardNow

LEMMA KindsDiffer == \A s, t \in Bases : s.obj = t.obj => s = t
BY BasesAre DEF Bases

\* A step that touches one structure, and breaks nothing.
LEMMA HeardOne ==
  ASSUME HeardNow, stream' = stream, NEW s \in Bases,
         Mach(log') \in [Objects -> Machine],
         \A obj \in Objects : obj # s.obj => Mach(log')[obj] = Mach(log)[obj],
         \A x \in Bases : x # s => /\ place'[x] = place[x]
                                 /\ owner'[x] = owner[x]
                                 /\ givenAt'[x] = givenAt[x],
         Hears(s)',
         Found(log', FALSE) = Found(log, FALSE), sins' = sins
  PROVE  HeardNow'
<1>1. ASSUME NEW x \in Bases PROVE Hears(x)'
  <2>1. CASE x = s
    BY <2>1
  <2>2. CASE x # s
    <3>1. x.obj # s.obj /\ x.obj \in Objects
      BY <2>2, KindsDiffer, BasesAre
    <3>2. Mach(log')[x.obj] = Mach(log)[x.obj] /\ Hears(x)
      BY <3>1 DEF HeardNow
    <3>3. place'[x] = place[x] /\ owner'[x] = owner[x] /\ givenAt'[x] = givenAt[x]
      BY <2>2
    <3> QED BY <3>2, <3>3 DEF Hears, IsLive
  <2> QED BY <2>1, <2>2
<1>2. Found(log', FALSE) = Told(sins', FALSE)
  BY DEF HeardNow
<1> QED BY <1>1, <1>2 DEF HeardNow

\* A step the log does not mention.
LEMMA HeardUnlogged ==
  ASSUME HeardNow, UNCHANGED <<log, owner, givenAt, sins>>,
         stream' = stream \/ \A x \in Bases : place[x] \in {"unborn", "dead"},
         \A x \in Bases : place'[x] = place[x] \/ (IsLive(x) /\ place'[x] = "own")
  PROVE  HeardNow'
<1>1. ASSUME NEW x \in Bases PROVE Hears(x)'
  <2>1. Hears(x)
    BY DEF HeardNow
  <2>2. CASE stream' = stream
    BY <2>1, <2>2 DEF Hears, IsLive, Locations
  <2>3. CASE \A y \in Bases : place[y] \in {"unborn", "dead"}
    BY <2>1, <2>3 DEF Hears, IsLive, Locations
  <2> QED BY <2>2, <2>3
<1> QED BY <1>1 DEF HeardNow

LEMMA HeardRelease ==
  ASSUME RecTypeOK, Standing, HeardNow, stream' = stream, ~dropped', NEW s \in Bases, IsLive(s),
         NEW harness \in BOOLEAN, NEW before \in Seq(Event), Silent(before),
         Release(s, harness, before)
  PROVE  HeardNow'
<1> DEFINE k == s.obj
           inner == s = Stream /\ Undelivered
<1>1. /\ Mach(log) \in [Objects -> Machine] /\ Hears(s) /\ Hears(Array)
      /\ s \in Structs /\ k \in Objects /\ Array \in Bases
  BY BasesAre DEF HeardNow, Bases
<1>2. inner => owner[Array] = "harness" /\ Mach(log)["array"].state = "exported"
  BY <1>1, BasesAre DEF Hears, Standing, AtHarness, Undelivered, IsLive, Locations
<1>3. /\ owner[s] = "consumer" => Mach(log)[k].state = "imported" /\ Mach(log)[k].loc = givenAt[s]
      /\ owner[s] = "harness" => Mach(log)[k].state \in {"absent", "exported"}
  BY <1>1 DEF Hears
<1>4. /\ Mach(log') \in [Objects -> Machine]
      /\ Mach(log')[k].state = "released"
      /\ inner => Mach(log')["array"].state = "released"
      /\ \A obj \in Objects : obj # k /\ ~(inner /\ obj = "array") => Mach(log')[obj] = Mach(log)[obj]
      /\ \A st \in BOOLEAN : Found(log', st) = Found(log, st) \cup Told(SinOf(s, harness), st)
  BY <1>1, <1>2, <1>3, ReleaseTold
<1>5. /\ \A x \in Bases : /\ place'[x] = IF x \in Ended(s) THEN "dead" ELSE place[x]
                        /\ owner'[x] = owner[x] /\ givenAt'[x] = givenAt[x]
      /\ sins' = sins \cup SinOf(s, harness)
  BY BasesAre DEF Release
<1>6. ASSUME NEW x \in Bases PROVE Hears(x)'
  <2>0. Hears(x) /\ x.obj \in Objects
    BY BasesAre DEF HeardNow
  <2>1. CASE x = s
    BY <1>4, <1>5, <2>1 DEF Hears, Ended, IsLive, Locations
  <2>2. CASE inner /\ x = Array
    <3>1. x \in Ended(s) /\ x.obj = "array"
      BY <2>2, BasesAre DEF Ended
    <3> QED BY <1>4, <1>5, <2>2, <3>1 DEF Hears, IsLive, Locations
  <2>3. CASE x # s /\ ~(inner /\ x = Array)
    <3>1. x \notin Ended(s)
      BY <2>3 DEF Ended
    <3>2. x.obj # k /\ ~(inner /\ x.obj = "array")
      BY <1>1, <2>3, KindsDiffer, BasesAre
    <3>3. Mach(log')[x.obj] = Mach(log)[x.obj]
      BY <1>4, <2>0, <3>2
    <3> QED BY <1>5, <2>0, <3>1, <3>3 DEF Hears, IsLive
  <2> QED BY <2>1, <2>2, <2>3
<1>7. Found(log', FALSE) = Told(sins', FALSE)
  <2>1. Found(log', FALSE) = Found(log, FALSE) \cup Told(SinOf(s, harness), FALSE)
    BY <1>4
  <2>2. Found(log, FALSE) = Told(sins, FALSE)
    BY DEF HeardNow
  <2>3. Told(sins', FALSE) = Told(sins, FALSE) \cup Told(SinOf(s, harness), FALSE)
    BY <1>5 DEF Told
  <2> QED BY <2>1, <2>2, <2>3
<1> QED BY <1>4, <1>6, <1>7 DEF HeardNow

LEMMA HeardKid ==
  ASSUME RecTypeOK, HeardNow, stream' = stream, ~dropped', NEW k \in Kids, k \in kids, ReleaseKid(k)
  PROVE  HeardNow'
<1> DEFINE broken == {<<"child-released-by-consumer", "array">>}
<1>1. Mach(log) \in [Objects -> Machine]
  BY DEF HeardNow
<1>2. Mach(log') = Mach(log) /\ \A st : Found(log', st) = Found(log, st) \cup broken
  BY <1>1, KidTold
<1>3. UNCHANGED <<place, owner, givenAt>> /\ sins' = sins \cup broken
  BY DEF ReleaseKid
<1>4. Told(broken, FALSE) = broken
  BY DEF Told
<1>5. Found(log, FALSE) = Told(sins, FALSE)
  BY DEF HeardNow
<1> HIDE DEF broken
<1>6. Found(log', FALSE) = Told(sins', FALSE)
  <2>1. Told(sins', FALSE) = Told(sins, FALSE) \cup Told(broken, FALSE)
    BY <1>3 DEF Told
  <2>2. Found(log', FALSE) = Found(log, FALSE) \cup broken
    BY <1>2
  <2> QED BY <1>4, <1>5, <2>1, <2>2
<1>7. \A x \in Bases : Hears(x)'
  BY <1>2, <1>3 DEF HeardNow, Hears, IsLive
<1> QED BY <1>1, <1>2, <1>6, <1>7 DEF HeardNow

\* A move read by the judge: where, never what.
LEMMA HearMove ==
  ASSUME NEW l1, NEW l2, NEW e \in Event, e.kind = "moved", e.obj \in Objects,
         Concludes(l1, l2, e), Mach(l1) \in [Objects -> Machine]
  PROVE  /\ Mach(l2) \in [Objects -> Machine]
         /\ Mach(l2)[e.obj].state = Mach(l1)[e.obj].state
         /\ \A obj \in Objects : obj # e.obj => Mach(l2)[obj] = Mach(l1)[obj]
         /\ \A strict : Found(l2, strict) = Found(l1, strict)
<1> DEFINE mc == Mach(l1)[e.obj]
<1>1. mc \in Machine
  OBVIOUS
<1>2. After(mc, e) \in Machine /\ After(mc, e).state = mc.state
  BY <1>1, AfterType, AfterKinds
<1>3. Mach(l2) = [Mach(l1) EXCEPT ![e.obj] = After(mc, e)]
  BY DEF Concludes
<1>4. \A strict : Found(l2, strict) = Found(l1, strict)
  BY NoneBroken
<1> QED BY <1>2, <1>3, <1>4

\* A hand-over read by the judge.
LEMMA HearImport ==
  ASSUME NEW l1, NEW l2, NEW e \in Event, e.kind = "imported", e.obj \in Objects,
         Concludes(l1, l2, e), Mach(l1) \in [Objects -> Machine],
         Mach(l1)[e.obj].state = "exported"
  PROVE  /\ Mach(l2) \in [Objects -> Machine]
         /\ Mach(l2)[e.obj].state = "imported" /\ Mach(l2)[e.obj].loc = e.at
         /\ \A obj \in Objects : obj # e.obj => Mach(l2)[obj] = Mach(l1)[obj]
         /\ \A strict : Found(l2, strict) = Found(l1, strict)
<1> DEFINE mc == Mach(l1)[e.obj]
<1>1. mc \in Machine
  OBVIOUS
<1>2. After(mc, e) \in Machine /\ After(mc, e).state = "imported" /\ After(mc, e).loc = e.at
  BY <1>1, AfterType, AfterKinds
<1>3. Mach(l2) = [Mach(l1) EXCEPT ![e.obj] = After(mc, e)]
  BY DEF Concludes
<1>4. \A strict : Found(l2, strict) = Found(l1, strict)
  BY NoneBroken
<1> QED BY <1>2, <1>3, <1>4

LEMMA HeardOneEvent ==
  ASSUME RecTypeOK, NEW e \in Event, Observe(<<e>>), ~dropped'
  PROVE  Concludes(log, log', e)
<1> DEFINE evs == <<e>>
<1>1. evs \in Seq(Event) /\ Observe(evs)
  OBVIOUS
<1> HIDE DEF evs
<1>2. log' = log \o evs
  BY <1>1, LogIsWhole
<1>3. log' = log \o <<e>>
  BY <1>2 DEF evs
<1> QED BY <1>3, HearOne DEF RecTypeOK

LEMMA HeardTwoEvents ==
  ASSUME RecTypeOK, NEW a \in Event, NEW b \in Event, Observe(<<a, b>>), ~dropped'
  PROVE  \E log2 \in Seq(Event) : Concludes(log, log2, a) /\ Concludes(log2, log', b)
<1> DEFINE evs == <<a, b>>
<1>1. evs \in Seq(Event) /\ Observe(evs)
  BY TwoEvents
<1> HIDE DEF evs
<1>2. log' = log \o evs
  BY <1>1, LogIsWhole
<1>3. log' = log \o <<a, b>>
  BY <1>2 DEF evs
<1> QED BY <1>3, HearTwo DEF RecTypeOK

\* Into a capsule, or nearly.
LEMMA HeardMoveOut ==
  ASSUME RecTypeOK, Standing, HeardNow, stream' = stream, ~dropped', NEW s \in Bases, AtHarness(s),
         MoveOut(s)
  PROVE  HeardNow'
<1>1. s \in Structs /\ s.obj \in Objects /\ Mach(log) \in [Objects -> Machine] /\ Hears(s)
  BY BasesAre DEF HeardNow
<1> DEFINE e == Note("moved", s, "exec")
<1>2. e \in Event /\ e.kind = "moved" /\ e.obj = s.obj
  BY <1>1, NoteIs DEF Kinds, Places, Locations
<1>3. Observe(<<e>>)
  BY DEF MoveOut
<1> HIDE DEF e
<1>4. Concludes(log, log', e)
  BY <1>2, <1>3, HeardOneEvent
<1>5. /\ Mach(log') \in [Objects -> Machine]
      /\ Mach(log')[s.obj].state = Mach(log)[s.obj].state
      /\ \A obj \in Objects : obj # s.obj => Mach(log')[obj] = Mach(log)[obj]
      /\ \A strict : Found(log', strict) = Found(log, strict)
  BY <1>1, <1>2, <1>4, HearMove
<1>6. /\ place'[s] = "exec" /\ owner' = owner /\ givenAt' = givenAt /\ sins' = sins
      /\ \A x \in Bases : x # s => place'[x] = place[x]
  BY <1>1, BasesAre DEF MoveOut, RecTypeOK
<1>7. owner[s] = "harness" /\ IsLive(s)
  BY DEF Standing, AtHarness, IsLive, Locations
<1>8. Hears(s)'
  BY <1>1, <1>5, <1>6, <1>7 DEF Hears, IsLive, Locations
<1> QED BY <1>5, <1>6, <1>8, HeardOne

LEMMA HeardExport ==
  ASSUME RecTypeOK, Standing, HeardNow, stream' = stream, ~dropped', NEW s \in Bases, AtHarness(s),
         Export(s)
  PROVE  HeardNow'
<1>1. s \in Structs /\ s.obj \in Objects /\ Mach(log) \in [Objects -> Machine] /\ Hears(s)
  BY BasesAre DEF HeardNow
<1> DEFINE a == Note("moved", s, "exec")
           b == Note("imported", s, "exec")
<1>2. /\ a \in Event /\ a.kind = "moved" /\ a.obj = s.obj
      /\ b \in Event /\ b.kind = "imported" /\ b.obj = s.obj /\ b.at = "exec"
  BY <1>1, NoteIs DEF Kinds, Places, Locations
<1>3. Observe(<<a, b>>)
  BY DEF Export
<1> HIDE DEF a, b
<1>4. PICK log2 \in Seq(Event) : Concludes(log, log2, a) /\ Concludes(log2, log', b)
  BY <1>2, <1>3, HeardTwoEvents
<1>5. /\ Mach(log2) \in [Objects -> Machine]
      /\ Mach(log2)[s.obj].state = Mach(log)[s.obj].state
      /\ \A obj \in Objects : obj # s.obj => Mach(log2)[obj] = Mach(log)[obj]
      /\ \A strict : Found(log2, strict) = Found(log, strict)
  BY <1>1, <1>2, <1>4, HearMove
<1>6. owner[s] = "harness" /\ IsLive(s) /\ ~(stream /\ s = Schema(1))
  BY DEF Standing, AtHarness, IsLive, Locations
<1>7. Mach(log2)[s.obj].state = "exported"
  BY <1>1, <1>5, <1>6 DEF Hears
<1>8. /\ Mach(log') \in [Objects -> Machine]
      /\ Mach(log')[s.obj].state = "imported" /\ Mach(log')[s.obj].loc = "exec"
      /\ \A obj \in Objects : obj # s.obj => Mach(log')[obj] = Mach(log2)[obj]
      /\ \A strict : Found(log', strict) = Found(log2, strict)
  BY <1>1, <1>2, <1>4, <1>5, <1>7, HearImport
<1>9. /\ place'[s] = "exec" /\ owner'[s] = "consumer" /\ givenAt'[s] = "exec" /\ sins' = sins
      /\ \A x \in Bases : x # s => place'[x] = place[x] /\ owner'[x] = owner[x] /\ givenAt'[x] = givenAt[x]
  BY <1>1, BasesAre DEF Export, RecTypeOK
<1>10. Hears(s)'
  BY <1>8, <1>9 DEF Hears, IsLive, Locations
<1> QED BY <1>5, <1>8, <1>9, <1>10, HeardOne

\* What the log says once evs, at most a move of the kind obj, is added to l.
MoveHeard(l, evs, kind) ==
  /\ l \o evs \in Seq(Event) /\ evs \in Seq(Event)
  /\ Mach(l \o evs) \in [Objects -> Machine]
  /\ \A obj \in Objects : Mach(l \o evs)[obj].state = Mach(l)[obj].state
  /\ \A obj \in Objects : obj # kind => Mach(l \o evs)[obj] = Mach(l)[obj]
  /\ evs = <<>> => Mach(l \o evs) = Mach(l)
  /\ Found(l \o evs, FALSE) = Found(l, FALSE)

\* One structure's move, or none.
LEMMA MaybeMoved ==
  ASSUME NEW l \in Seq(Event), Mach(l) \in [Objects -> Machine],
         NEW e \in Event, e.kind = "moved", e.obj \in Objects,
         NEW evs, evs = <<e>> \/ evs = <<>>
  PROVE  MoveHeard(l, evs, e.obj)
<1>1. CASE evs = <<e>>
  <2>1. Concludes(l, l \o evs, e)
    BY <1>1, HearOne
  <2>2. evs \in Seq(Event) /\ evs # <<>>
    BY <1>1
  <2> DEFINE l2 == l \o evs
  <2>3. l2 \in Seq(Event)
    BY <2>2
  <2> HIDE DEF l2
  <2>4. /\ Mach(l2) \in [Objects -> Machine]
        /\ Mach(l2)[e.obj].state = Mach(l)[e.obj].state
        /\ \A obj \in Objects : obj # e.obj => Mach(l2)[obj] = Mach(l)[obj]
        /\ \A strict : Found(l2, strict) = Found(l, strict)
    BY <2>1, HearMove DEF l2
  <2> QED BY <2>2, <2>3, <2>4 DEF l2, MoveHeard
<1>2. CASE evs = <<>>
  <2>1. evs \in Seq(Event) /\ l \o evs = l
    BY <1>2, ConcatEmptySeq
  <2> QED BY <1>2, <2>1 DEF MoveHeard
<1> QED BY <1>1, <1>2

LEMMA HeardMove ==
  ASSUME RecTypeOK, Standing, HeardNow, stream' = stream, ~dropped', Move(Movable, "exec")
  PROVE  HeardNow'
<1> DEFINE a == Note("moved", Schema(1), "exec")
           b == Note("moved", Array, "exec")
           x == IF Schema(1) \in Movable THEN <<a>> ELSE <<>>
           y == IF Array \in Movable THEN <<b>> ELSE <<>>
           log2 == log \o x
<1>1. /\ a \in Event /\ a.kind = "moved" /\ a.obj = "schema"
      /\ b \in Event /\ b.kind = "moved" /\ b.obj = "array"
  BY StructsAre, BasesAre, NoteIs DEF Kinds, Places, Locations
<1>2. Observe(x \o y)
  BY DEF Move
<1> DEFINE c == Schema(1) \in Movable
           d == Array \in Movable
<1>0. /\ x = <<a>> \/ x = <<>>
      /\ y = <<b>> \/ y = <<>>
      /\ (~c => x = <<>>) /\ (~d => y = <<>>)
  OBVIOUS
<1> HIDE DEF a, b, c, d, x, y
<1>3. log \in Seq(Event) /\ Mach(log) \in [Objects -> Machine]
      /\ "schema" \in Objects /\ "array" \in Objects
  BY DEF RecTypeOK, HeardNow, Objects
<1>4. /\ log2 \in Seq(Event) /\ x \in Seq(Event)
      /\ Mach(log2) \in [Objects -> Machine]
      /\ \A obj \in Objects : Mach(log2)[obj].state = Mach(log)[obj].state
      /\ \A obj \in Objects : obj # "schema" => Mach(log2)[obj] = Mach(log)[obj]
      /\ x = <<>> => Mach(log2) = Mach(log)
      /\ Found(log2, FALSE) = Found(log, FALSE)
  <2>1. MoveHeard(log, x, a.obj)
    <3>1. /\ log \in Seq(Event) /\ Mach(log) \in [Objects -> Machine]
          /\ a \in Event /\ a.kind = "moved" /\ a.obj \in Objects
          /\ x = <<a>> \/ x = <<>>
      BY <1>0, <1>1, <1>3
    <3> QED BY <3>1, MaybeMoved
  <2> QED BY <1>1, <2>1 DEF MoveHeard
<1> HIDE DEF log2
<1>5. /\ y \in Seq(Event)
      /\ Mach(log2 \o y) \in [Objects -> Machine]
      /\ \A obj \in Objects : Mach(log2 \o y)[obj].state = Mach(log2)[obj].state
      /\ \A obj \in Objects : obj # "array" => Mach(log2 \o y)[obj] = Mach(log2)[obj]
      /\ y = <<>> => Mach(log2 \o y) = Mach(log2)
      /\ Found(log2 \o y, FALSE) = Found(log2, FALSE)
  <2>1. /\ log2 \in Seq(Event) /\ Mach(log2) \in [Objects -> Machine]
        /\ b \in Event /\ b.kind = "moved" /\ b.obj \in Objects
        /\ y = <<b>> \/ y = <<>>
    BY <1>0, <1>1, <1>3, <1>4
  <2>2. MoveHeard(log2, y, b.obj)
    BY <2>1, MaybeMoved
  <2> QED BY <1>1, <2>2 DEF MoveHeard
<1>6. log' = log2 \o y
  <2>1. x \o y \in Seq(Event)
    BY <1>4, <1>5
  <2>2. log' = log \o (x \o y)
    BY <1>2, <2>1, LogIsWhole
  <2> QED BY <1>3, <1>4, <1>5, <2>2, Regroup DEF log2
<1>7. /\ \A s \in Bases : place'[s] = IF s \in Movable /\ IsLive(s) THEN "exec" ELSE place[s]
      /\ UNCHANGED <<owner, givenAt, sins>>
  BY BasesAre DEF Move
<1>8. \A s \in Movable : owner[s] = "harness" /\ IsLive(s) /\ s \in Bases
  BY DEF Movable, Bases, Standing, AtHarness, IsLive, Locations
<1>9. ASSUME NEW s \in Bases PROVE Hears(s)'
  <2>1. Hears(s) /\ s.obj \in Objects
    BY BasesAre DEF HeardNow
  <2>2. CASE s \in Movable
    <3>1. Mach(log')[s.obj].state = Mach(log)[s.obj].state
      BY <1>4, <1>5, <1>6, <2>1
    <3> QED BY <1>7, <1>8, <2>1, <2>2, <3>1 DEF Hears, IsLive, Locations
  <2>3. CASE s \notin Movable
    <3>1. ~(Schema(1) \in Movable /\ s.obj = "schema") /\ ~(Array \in Movable /\ s.obj = "array")
      BY <2>3, BasesAre, KindsDiffer DEF Bases
    <3>2. Mach(log')[s.obj] = Mach(log)[s.obj]
      BY <1>0, <1>4, <1>5, <1>6, <2>1, <3>1 DEF c, d
    <3> QED BY <1>7, <2>1, <2>3, <3>2 DEF Hears, IsLive
  <2> QED BY <2>2, <2>3
<1>10. Found(log', FALSE) = Told(sins', FALSE)
  BY <1>4, <1>5, <1>6, <1>7 DEF HeardNow
<1> QED BY <1>5, <1>6, <1>9, <1>10 DEF HeardNow

LEMMA HeardGetSchema ==
  ASSUME RecTypeOK, Standing, HeardNow, stream, stream' = stream, ~dropped', Unborn(1), GetSchema(1)
  PROVE  HeardNow'
<1> DEFINE s == Schema(1)
           a == Note("exported", s, "own")
           b == Note("imported", s, "own")
<1>1. s \in Bases /\ s \in Structs /\ s.obj \in Objects /\ Mach(log) \in [Objects -> Machine]
  BY BasesAre DEF HeardNow, Bases
<1>2. /\ a \in Event /\ a.kind = "exported" /\ a.obj = s.obj
      /\ b \in Event /\ b.kind = "imported" /\ b.obj = s.obj /\ b.at = "own"
  BY <1>1, NoteIs DEF Kinds, Places, Locations
<1>3. Observe(<<a, b>>)
  BY DEF GetSchema
<1>4. /\ place'[s] = "own" /\ owner'[s] = "consumer" /\ givenAt'[s] = "own" /\ sins' = sins
      /\ \A x \in Bases : x # s => place'[x] = place[x] /\ owner'[x] = owner[x] /\ givenAt'[x] = givenAt[x]
  BY <1>1, BasesAre DEF GetSchema, RecTypeOK
<1> HIDE DEF a, b, s
<1>5. PICK log2 \in Seq(Event) : Concludes(log, log2, a) /\ Concludes(log2, log', b)
  BY <1>2, <1>3, HeardTwoEvents
<1>6. /\ Mach(log2) \in [Objects -> Machine]
      /\ Mach(log2)[s.obj].state = "exported"
      /\ \A obj \in Objects : obj # s.obj => Mach(log2)[obj] = Mach(log)[obj]
      /\ \A strict : Found(log2, strict) = Found(log, strict)
  BY <1>1, <1>2, <1>5, HearExport
<1>7. /\ Mach(log') \in [Objects -> Machine]
      /\ Mach(log')[s.obj].state = "imported" /\ Mach(log')[s.obj].loc = "own"
      /\ \A obj \in Objects : obj # s.obj => Mach(log')[obj] = Mach(log2)[obj]
      /\ \A strict : Found(log', strict) = Found(log2, strict)
  BY <1>1, <1>2, <1>5, <1>6, HearImport
<1>8. Hears(s)'
  BY <1>7, <1>4 DEF Hears, IsLive, Locations
<1> QED BY <1>1, <1>4, <1>6, <1>7, <1>8, HeardOne

\* A schema half-built is in no log.
LEMMA HeardGetSchemaOut ==
  ASSUME RecTypeOK, Standing, HeardNow, stream, stream' = stream, Unborn(1), GetSchemaRunsOut(1)
  PROVE  HeardNow'
<1> DEFINE s == Schema(1)
<1>1. s \in Bases /\ s \in Structs /\ Mach(log) \in [Objects -> Machine] /\ Hears(s)
  BY BasesAre DEF HeardNow, Bases
<1>2. /\ place'[s] \in {"own", place[s]} /\ log' = log /\ owner' = owner /\ givenAt' = givenAt
      /\ sins' = sins /\ \A x \in Bases : x # s => place'[x] = place[x]
  BY <1>1, BasesAre DEF GetSchemaRunsOut, RecTypeOK
<1>3. place[s] = "unborn" /\ owner[s] = "harness"
  BY <1>1 DEF Unborn, Standing
<1>4. Hears(s)'
  BY <1>1, <1>2, <1>3 DEF Hears, IsLive, Locations
<1> QED BY <1>1, <1>2, <1>4, HeardOne

LEMMA HeardGetNext ==
  ASSUME RecTypeOK, Standing, HeardNow, stream' = stream, ~dropped', GetNext
  PROVE  HeardNow'
<1>0. /\ Array \in Bases /\ Array \in Structs /\ Array.obj \in Objects /\ Array # Schema(1)
      /\ Mach(log) \in [Objects -> Machine] /\ Hears(Array) /\ log \in Seq(Event)
  BY BasesAre DEF HeardNow, Bases, RecTypeOK
<1>1. CASE Undelivered
  <2> DEFINE s == Array
             a == Note("moved", s, "own")
             b == Note("imported", s, "own")
  <2>2. /\ a \in Event /\ a.kind = "moved" /\ a.obj = s.obj
        /\ b \in Event /\ b.kind = "imported" /\ b.obj = s.obj /\ b.at = "own"
    BY <1>0, NoteIs DEF Kinds, Places, Locations
  <2>3. Observe(<<a, b>>)
    BY <1>1 DEF GetNext
  <2>4. /\ place'[s] = "own" /\ owner'[s] = "consumer" /\ givenAt'[s] = "own" /\ sins' = sins
        /\ \A x \in Bases : x # s => place'[x] = place[x] /\ owner'[x] = owner[x] /\ givenAt'[x] = givenAt[x]
    BY <1>0, <1>1, BasesAre DEF GetNext, RecTypeOK
  <2>5. Mach(log)[s.obj].state = "exported"
    BY <1>0, <1>1 DEF Undelivered, Standing, AtHarness, Hears, IsLive, Locations
  <2>6. s \in Bases /\ s.obj \in Objects
    BY <1>0
  <2> HIDE DEF a, b, s
  <2>7. PICK log2 \in Seq(Event) : Concludes(log, log2, a) /\ Concludes(log2, log', b)
    BY <2>2, <2>3, HeardTwoEvents
  <2>8. /\ Mach(log2) \in [Objects -> Machine]
        /\ Mach(log2)[s.obj].state = Mach(log)[s.obj].state
        /\ \A obj \in Objects : obj # s.obj => Mach(log2)[obj] = Mach(log)[obj]
        /\ \A strict : Found(log2, strict) = Found(log, strict)
    BY <1>0, <2>2, <2>6, <2>7, HearMove
  <2>9. /\ Mach(log') \in [Objects -> Machine]
        /\ Mach(log')[s.obj].state = "imported" /\ Mach(log')[s.obj].loc = "own"
        /\ \A obj \in Objects : obj # s.obj => Mach(log')[obj] = Mach(log2)[obj]
        /\ \A strict : Found(log', strict) = Found(log2, strict)
    BY <2>2, <2>5, <2>6, <2>7, <2>8, HearImport
  <2>10. Hears(s)'
    BY <2>4, <2>9 DEF Hears, IsLive, Locations
  <2> QED BY <2>4, <2>6, <2>8, <2>9, <2>10, HeardOne
<1>2. CASE ~Undelivered
  <2> DEFINE evs == <<Note("eof", Array, "own")>>
  <2>1. evs \in Seq(Event) /\ Silent(evs)
    <3>1. BASE \in Nodes /\ "own" \in Places /\ FALSE \in BOOLEAN
      BY DEF Nodes, Places, Locations
    <3> QED BY <1>0, <3>1, QuietNotes DEF Note
  <2>2. Observe(evs) /\ UNCHANGED <<place, owner, givenAt, sins>>
    BY <1>2 DEF GetNext
  <2> HIDE DEF evs
  <2>3. log' = log \o evs
    BY <2>1, <2>2, LogIsWhole
  <2>4. Alike(log, log')
    BY <1>0, <2>1, <2>3, HearQuiet
  <2>5. Mach(log') = Mach(log) /\ Found(log', FALSE) = Found(log, FALSE)
    BY <2>4 DEF Alike
  <2>6. \A x \in Bases : Hears(x)'
    BY <2>2, <2>5 DEF HeardNow, Hears, IsLive
  <2> QED BY <2>2, <2>5, <2>6 DEF HeardNow
<1> QED BY <1>1, <1>2

\* The log a reconstruction starts with.
LEMMA HeardComplete ==
  ASSUME Complete, stream' = stream
  PROVE  HeardNow'
<1> DEFINE e(s) == Note("exported", s, "home")
           out == (IF stream THEN {Stream} ELSE {Schema(1)}) \cup (IF HasArray THEN {Array} ELSE {})
<1>1. \A s \in Bases : s \in Structs /\ e(s) \in Event /\ e(s).kind = "exported" /\ e(s).obj = s.obj
  <2>1. /\ BASE \in Nodes /\ FALSE \in BOOLEAN /\ "home" \in Places /\ "exported" \in Kinds
        /\ Bases \subseteq Structs
    BY BasesAre DEF Nodes, Places, Locations, Kinds
  <2>2. ASSUME NEW s \in Bases PROVE e(s) \in Event
    BY <2>1, EvType DEF Note
  <2> QED BY <2>1, <2>2 DEF Note, Ev
<1>2. Array \in Bases /\ Stream \in Bases /\ Schema(1) \in Bases
  BY DEF Bases
<1>3. log' = [i \in DOMAIN Exports |-> e(Exports[i])]
  BY DEF Complete
<1>4. Range(Exports) = out
  BY ExportsType
<1>5. /\ \A s \in Bases : /\ place'[s] = (IF s \in out THEN "home" ELSE "unborn")
                        /\ owner'[s] = "harness"
      /\ sins' = {}
  BY <1>1, <1>4 DEF Complete
<1> HIDE DEF e, out
<1>6. ASSUME NEW a \in Bases, Exports = <<a>>
      PROVE  /\ Mach(log') \in [Objects -> Machine]
             /\ \A obj \in Objects : Mach(log')[obj].state = IF obj = a.obj THEN "exported" ELSE "absent"
             /\ Found(log', FALSE) = {}
  <2>1. log' = <<e(a)>>
    BY <1>3, <1>6
  <2>2. e(a) \in Event /\ e(a).kind = "exported" /\ e(a).obj = a.obj /\ a.obj \in Objects
    BY <1>1, BasesAre
  <2> DEFINE f == e(a)
             one == <<f>>
  <2>3. /\ Mach(one) \in [Objects -> Machine]
        /\ \A obj \in Objects : Mach(one)[obj].state = IF obj = f.obj THEN "exported" ELSE "absent"
        /\ \A strict : Found(one, strict) = {}
    <3> HIDE DEF f
    <3> QED BY <2>2, HearOneExport DEF f
  <2> HIDE DEF one
  <2>4. log' = one /\ f.obj = a.obj
    BY <2>1, <2>2 DEF one
  <2> QED BY <2>3, <2>4
<1>7. ASSUME NEW a \in Bases, NEW b \in Bases, Exports = <<a, b>>
      PROVE  /\ Mach(log') \in [Objects -> Machine]
             /\ \A obj \in Objects :
                  Mach(log')[obj].state = IF obj \in {a.obj, b.obj} THEN "exported" ELSE "absent"
             /\ Found(log', FALSE) = {}
  <2>1. log' = <<e(a), e(b)>>
    BY <1>3, <1>7
  <2>2. /\ e(a) \in Event /\ e(a).kind = "exported" /\ e(a).obj = a.obj /\ a.obj \in Objects
        /\ e(b) \in Event /\ e(b).kind = "exported" /\ e(b).obj = b.obj /\ b.obj \in Objects
    BY <1>1, BasesAre
  <2> DEFINE f == e(a)
             g == e(b)
             two == <<f, g>>
  <2>3. /\ Mach(two) \in [Objects -> Machine]
        /\ \A obj \in Objects :
             Mach(two)[obj].state = IF obj \in {f.obj, g.obj} THEN "exported" ELSE "absent"
        /\ \A strict : Found(two, strict) = {}
    <3>1. /\ f \in Event /\ f.kind = "exported" /\ f.obj \in Objects
          /\ g \in Event /\ g.kind = "exported" /\ g.obj \in Objects
      BY <2>2
    <3> HIDE DEF f, g
    <3> QED BY <3>1, HearTwoExports
  <2> HIDE DEF two
  <2>4. log' = two /\ f.obj = a.obj /\ g.obj = b.obj
    BY <2>1, <2>2 DEF two
  <2> QED BY <2>3, <2>4
<1>8. /\ Mach(log') \in [Objects -> Machine]
      /\ \A s \in Bases : Mach(log')[s.obj].state = IF s \in out THEN "exported" ELSE "absent"
      /\ Found(log', FALSE) = {}
  <2>1. /\ Schema(1).obj = "schema" /\ Array.obj = "array" /\ Stream.obj = "stream"
        /\ {"schema", "array", "stream"} \subseteq Objects /\ Bases = {Schema(1), Array, Stream}
        /\ Schema(1) # Array /\ Schema(1) # Stream /\ Array # Stream
    BY BasesAre DEF Objects, Bases
  <2>2. CASE stream /\ HasArray /\ Exports = <<Array, Stream>>
    <3>1. out = {Array, Stream}
      BY <2>2 DEF out
    <3>2. /\ Mach(log') \in [Objects -> Machine]
          /\ \A obj \in Objects :
               Mach(log')[obj].state = IF obj \in {Array.obj, Stream.obj} THEN "exported" ELSE "absent"
          /\ Found(log', FALSE) = {}
      BY <1>2, <1>7, <2>2
    <3>3. \A s \in Bases : s.obj \in Objects /\ (s \in out <=> s.obj \in {Array.obj, Stream.obj})
      BY <2>1, <3>1
    <3> QED BY <3>2, <3>3
  <2>3. CASE stream /\ ~HasArray /\ Exports = <<Stream>>
    <3>1. out = {Stream}
      BY <2>3 DEF out
    <3> QED BY <1>2, <1>6, <2>1, <2>3, <3>1
  <2>4. CASE ~stream /\ HasArray /\ Exports = <<Schema(1), Array>>
    <3>1. out = {Schema(1), Array}
      BY <2>4 DEF out
    <3>2. /\ Mach(log') \in [Objects -> Machine]
          /\ \A obj \in Objects :
               Mach(log')[obj].state = IF obj \in {Schema(1).obj, Array.obj} THEN "exported" ELSE "absent"
          /\ Found(log', FALSE) = {}
      BY <1>2, <1>7, <2>4
    <3>3. \A s \in Bases : s.obj \in Objects /\ (s \in out <=> s.obj \in {Schema(1).obj, Array.obj})
      BY <2>1, <3>1
    <3> QED BY <3>2, <3>3
  <2>5. CASE ~stream /\ ~HasArray /\ Exports = <<Schema(1)>>
    <3>1. out = {Schema(1)}
      BY <2>5 DEF out
    <3> QED BY <1>2, <1>6, <2>1, <2>5, <3>1
  <2> QED BY <2>2, <2>3, <2>4, <2>5, ExportsAre
<1>9. ASSUME NEW s \in Bases PROVE Hears(s)'
  <2>1. place'[s] = (IF s \in out THEN "home" ELSE "unborn") /\ owner'[s] = "harness"
    BY <1>5
  <2>2. Mach(log')[s.obj].state = IF s \in out THEN "exported" ELSE "absent"
    BY <1>8
  <2>3. stream /\ s = Schema(1) => s \notin out
    BY BasesAre DEF out
  <2> QED BY <2>1, <2>2, <2>3 DEF Hears, IsLive, Locations
<1>10. Found(log', FALSE) = Told(sins', FALSE)
  BY <1>5, <1>8 DEF Told
<1> QED BY <1>8, <1>9, <1>10 DEF HeardNow

LEMMA Forgotten ==
  ASSUME NEW evs, Observe(evs), ~dropped'
  PROVE  ~dropped
BY Zenon DEF Observe

LEMMA HeardStep ==
  ASSUME RecTypeOK, CapsuleInv, Standing, Control, Heard, Effect
  PROVE  Heard'
<1> SUFFICES ASSUME ~dropped' PROVE HeardNow'
  BY DEF Heard
<1>0. ~dropped => HeardNow
  BY DEF Heard
<1>b. \A s \in Bases : s \in Structs /\ place[s] \in Places
  BY BasesAre DEF RecTypeOK
<1>1. CASE stream' = stream /\ UNCHANGED recVars
  <2>1. /\ ~dropped /\ UNCHANGED <<log, owner, givenAt, sins>>
        /\ \A x \in Bases : place'[x] = place[x] \/ (IsLive(x) /\ place'[x] = "own")
    BY <1>1 DEF recVars
  <2> QED BY <1>0, <1>1, <2>1, HeardUnlogged
<1>2. CASE Freed
  <2>1. /\ ~dropped /\ UNCHANGED <<log, owner, givenAt, sins>>
        /\ \A x \in Bases : place'[x] = place[x] \/ (IsLive(x) /\ place'[x] = "own")
    BY <1>2 DEF Freed, FreeBacking
  <2>2. stream' = stream \/ \A x \in Bases : place[x] \in {"unborn", "dead"}
    BY <1>2 DEF Freed, ToClean, Bases, Control, Before, AtHarness
  <2> QED BY <1>0, <2>1, <2>2, HeardUnlogged
<1>3. ASSUME NEW s \in Bases, stream' = stream, InCapsule(s), Take(s) PROVE HeardNow'
  <2>1. /\ ~dropped /\ UNCHANGED <<log, owner, givenAt, sins>>
        /\ \A x \in Bases : place'[x] = place[x] \/ (IsLive(x) /\ place'[x] = "own")
    BY <1>b, <1>3 DEF Take, RecTypeOK
  <2> QED BY <1>0, <1>3, <2>1, HeardUnlogged
<1>4. ASSUME NEW s \in Bases, stream' = stream, InCapsule(s) \/ place[s] = "own",
             Release(s, FALSE, <<>>)
      PROVE  HeardNow'
  <2>1. ~dropped /\ IsLive(s)
    BY <1>4, Forgotten DEF Release, InCapsule, IsLive, Locations
  <2> DEFINE before == <<>>
             h == FALSE
  <2>2. before \in Seq(Event) /\ Silent(before) /\ h \in BOOLEAN /\ Release(s, h, before)
    BY <1>4, QuietNone
  <2> HIDE DEF before, h
  <2> QED BY <1>0, <1>4, <2>1, <2>2, HeardRelease
<1>5. ASSUME NEW s \in Bases, stream' = stream, AtHarness(s),
             Release(s, TRUE, <<Note("harness", s, place[s])>>)
      PROVE  HeardNow'
  <2>1. ~dropped /\ IsLive(s)
    BY <1>5, Forgotten DEF Release, AtHarness, IsLive, Locations
  <2> DEFINE before == <<Note("harness", s, place[s])>>
             h == TRUE
  <2>2. before \in Seq(Event) /\ Silent(before)
    <3>1. BASE \in Nodes /\ FALSE \in BOOLEAN
      BY DEF Nodes
    <3> QED BY <1>b, <3>1, QuietNotes DEF Note
  <2>3. h \in BOOLEAN /\ Release(s, h, before)
    BY <1>5
  <2> HIDE DEF before, h
  <2> QED BY <1>0, <1>5, <2>1, <2>2, <2>3, HeardRelease
<1>6. ASSUME NEW s \in Bases, stream' = stream, AtHarness(s), Export(s) PROVE HeardNow'
  BY <1>0, <1>6, Forgotten, HeardExport DEF Export
<1>7. ASSUME NEW s \in Bases, stream' = stream, AtHarness(s), MoveOut(s) PROVE HeardNow'
  BY <1>0, <1>7, Forgotten, HeardMoveOut DEF MoveOut
<1>8. ASSUME NEW k \in kids, stream' = stream, ReleaseKid(k) PROVE HeardNow'
  <2>1. ~dropped /\ k \in Kids
    BY <1>8, Forgotten DEF ReleaseKid, RecTypeOK
  <2> QED BY <1>0, <1>8, <2>1, HeardKid
<1>9. CASE stream' = stream /\ Move(Movable, "exec")
  <2>1. ~dropped
    BY <1>9, Forgotten DEF Move
  <2> QED BY <1>0, <1>9, <2>1, HeardMove
<1>10. CASE stream' = stream /\ stream /\ Unborn(1) /\ GetSchema(1)
  <2>1. ~dropped
    BY <1>10, Forgotten DEF GetSchema
  <2> QED BY <1>0, <1>10, <2>1, HeardGetSchema
<1>11. CASE stream' = stream /\ stream /\ Unborn(1) /\ GetSchemaRunsOut(1)
  <2>1. ~dropped
    BY <1>11 DEF GetSchemaRunsOut
  <2> QED BY <1>0, <1>11, <2>1, HeardGetSchemaOut
<1>12. CASE stream' = stream /\ GetNext
  <2>1. ~dropped
    BY <1>12, Forgotten DEF GetNext
  <2> QED BY <1>0, <1>12, <2>1, HeardGetNext
<1>13. CASE stream' = stream /\ Complete
  BY <1>13, HeardComplete
<1> QED BY <1>1, <1>2, <1>3, <1>4, <1>5, <1>6, <1>7, <1>8, <1>9, <1>10, <1>11, <1>12, <1>13
        DEF Effect, Steady

LEMMA HeardInit ==
  ASSUME Init
  PROVE  Heard
<1>1. log = <<>> /\ sins = {} /\ place = [s \in Structs |-> "unborn"]
  BY DEF Init, ConstructInit, NotBuilt
<1>2. \A s \in Bases : place[s] = "unborn" /\ s.obj \in Objects
  BY <1>1, BasesAre
<1> DEFINE none == <<>>
<1>3. /\ Mach(none) \in [Objects -> Machine]
      /\ \A obj \in Objects : Mach(none)[obj].state = "absent"
      /\ \A strict : Found(none, strict) = {}
  BY Unheard
<1>4. log = none
  BY <1>1
<1> HIDE DEF none
<1>5. \A s \in Bases : Hears(s)
  BY <1>2, <1>3, <1>4 DEF Hears, IsLive, Locations
<1>6. Found(log, FALSE) = Told(sins, FALSE)
  BY <1>1, <1>3, <1>4 DEF Told
<1> QED BY <1>3, <1>4, <1>5, <1>6 DEF Heard, HeardNow

-----------------------------------------------------------------------------
(* What the worker's line says, and what happens to it. *)

Seen == [status |-> ses.status, panicked |-> ses.panicked,
         violations |-> <<"child-released-by-consumer", "array">> \in sins,
         incomplete |-> dropped, broken |-> Verify(log, FALSE) # {},
         outstanding |-> Outstanding, capsules |-> counted # 0,
         sent |-> ses.sent, received |-> ses.received]

\* Where there may be a line.
Past == {"judged", "reported", "dead"}

Lined ==
  /\ phase \notin Past => line = NoLine
  /\ phase = "judged" => line = Seen
  /\ phase \in {"judge", "judged"} => ToClean = {} /\ ~buffers
  /\ phase \in Past /\ line # NoLine /\ Kept # {} =>
       line.status = "error" \/ line.broken \/ line.incomplete
  /\ phase = "dead" /\ line # NoLine => Kept # {} \/ HalfBuilt # {}

\* What the judge finds in a log that lost nothing.
LEMMA Findings ==
  ASSUME RecTypeOK
  PROVE  Verify(log, FALSE) # {}
           <=> \/ Found(log, FALSE) # {}
               \/ \E obj \in Objects : Mach(log)[obj].state \in {"exported", "imported"}
<1> DEFINE st == FALSE
           left == {o \in Objects : Mach(log)[o].state \in {"exported", "imported"}}
<1>1. log \in Seq(Event)
  BY DEF RecTypeOK
<1> HIDE DEF st
<1>2. {<<f.rule, f.obj>> : f \in Verify(log, st)}
        = Found(log, st) \cup {<<"never-released", obj>> : obj \in left}
  BY <1>1, VerdictIs
<1>3. Verify(log, st) # {} <=> {<<f.rule, f.obj>> : f \in Verify(log, st)} # {}
  OBVIOUS
<1>4. {<<"never-released", obj>> : obj \in left} # {} <=> left # {}
  OBVIOUS
<1>5. Verify(log, st) # {} <=> Found(log, st) # {} \/ left # {}
  BY <1>2, <1>3, <1>4
<1> QED BY <1>5 DEF st

\* What the consumer kept is in the log, or the log lost something.
LEMMA KeptShows ==
  ASSUME RecTypeOK, CapsuleInv, Standing, Heard, Kept # {}
  PROVE  dropped \/ Verify(log, FALSE) # {}
<1>1. PICK s \in Kept : TRUE
  OBVIOUS
<1>2. s \in Structs /\ IsLive(s) /\ owner[s] = "consumer"
  BY DEF Kept, Held, CapsuleInv
<1>3. s \in Bases /\ s.obj \in Objects
  BY <1>2, Somewhere, BasesAre DEF IsLive, Locations
<1>4. ~dropped => Mach(log)[s.obj].state = "imported"
  BY <1>2, <1>3 DEF Heard, HeardNow, Hears
<1> QED BY <1>3, <1>4, Findings

\* What is the consumer's to keep, or was left where it cannot be reached.
LEMMA OwnIsKept ==
  ASSUME Standing, RecTypeOK, NEW s \in Structs, place[s] = "own"
  PROVE  s \in Kept \cup HalfBuilt
<1>1. s \in Bases
  BY Somewhere
<1>2. owner[s] = "consumer" \/ s = Schema(1)
  BY <1>1 DEF Standing
<1>3. owner[s] \in {"harness", "consumer"} /\ Schema(1) \in Schemas /\ s \in Held /\ IsLive(s)
  BY StructsAre DEF RecTypeOK, Held, IsLive, Locations
<1> QED BY <1>2, <1>3 DEF Kept, HalfBuilt

\* Steps taken before there is a line.
LEMMA Unlined ==
  ASSUME Lined, phase \notin Past, line' = line,
         phase' \notin {"judge", "judged", "reported"}
  PROVE  Lined'
BY DEF Lined, Past

LEMMA LinedLoad ==
  ASSUME Lined, Load
  PROVE  Lined'
<1>1. CASE outcome = "failed" /\ phase = "load"
  <2>1. phase' = "reported" /\ line' = [status |-> "error"]
    BY <1>1 DEF Load, Go
  <2> QED BY <2>1 DEF Lined, Past
<1>2. CASE ~(outcome = "failed" /\ phase = "load")
  <2>1. line' = line /\ phase \in {"load", "reload"} /\ phase' \in {phase, "dead"}
    BY <1>2 DEF Load, Go
  <2> QED BY <2>1, Unlined DEF Past
<1> QED BY <1>1, <1>2

LEMMA LinedStart ==
  ASSUME Lined, Control,
         \/ DigestSent \/ ReadScript \/ ReleaseFirst \/ Reloaded
         \/ Nothing \/ MoveStruct \/ ImportArray \/ OpenStream \/ StreamOpened
         \/ NextBatch \/ ExpectEof \/ ReleaseBase \/ Ran
  PROVE  Lined'
<1>1. CASE DigestSent \/ ReadScript \/ ReleaseFirst \/ Reloaded
  <2>1. line' = line /\ phase \in {"load", "names", "release first", "reload"}
    BY <1>1 DEF DigestSent, ReadScript, ReleaseFirst, Reloaded, Unmoved
  <2>2. phase' \in {"names", "dead", "release first", "end", "ops", "reload"}
    BY <1>1, Zenon DEF DigestSent, ReadScript, ReleaseFirst, Reloaded, Go
  <2> QED BY <2>1, <2>2, Unlined DEF Past
<1>2. CASE Nothing \/ ImportArray \/ OpenStream \/ StreamOpened \/ ExpectEof \/ ReleaseBase \/ Ran
  <2>1. line' = line /\ phase = "ops" /\ phase' \in {"ops", "call", "end", "drop"}
    BY <1>2 DEF Nothing, ImportArray, OpenStream, StreamOpened, ExpectEof, ReleaseBase, Ran,
       AtOp, Enter, Unmoved, Go
  <2> QED BY <2>1, Unlined DEF Past
<1>3. CASE MoveStruct
  <2>1. line' = line /\ phase = "ops" /\ phase' \in {"ops", "end"}
    BY <1>3, Zenon DEF MoveStruct, AtOp, Raise, Unmoved, Go
  <2> QED BY <2>1, Unlined DEF Past
<1>4. CASE NextBatch
  <2>1. line' = line /\ phase = "ops" /\ phase' \in {"ops", "call"}
    BY <1>4, Zenon DEF NextBatch, AtOp, Enter, Unmoved, Go
  <2> QED BY <2>1, Unlined DEF Past
<1> QED BY <1>1, <1>2, <1>3, <1>4

LEMMA LinedCall ==
  ASSUME Lined,
         \/ Wrap \/ Unwrap \/ Import \/ LetGo \/ LetChildGo \/ Discard \/ AskSchema
         \/ AskNext \/ Return \/ Throw \/ Crash
  PROVE  Lined'
<1>1. phase = "call" /\ line' = line
  BY DEF Wrap, Unwrap, Import, LetGo, LetChildGo, Discard, AskSchema, AskNext, Return, Throw,
     Crash, InCall, Busy, Unmoved
<1>2. phase' \in {"call", "end", "ops", "dead"}
  <2>1. CASE Wrap \/ Unwrap \/ Throw
    BY <1>1, <2>1, Zenon DEF Wrap, Unwrap, Throw, Raise, Go
  <2>2. CASE Import \/ LetGo \/ LetChildGo \/ Discard \/ AskSchema \/ AskNext \/ Return \/ Crash
    BY <1>1, <2>2 DEF Import, LetGo, LetChildGo, Discard, AskSchema, AskNext, Return, Crash, Go
  <2> QED BY <2>1, <2>2
<1> QED BY <1>1, <1>2, Unlined DEF Past

\* After the line is written nothing is kept that was not.
LEMMA LateKeeps ==
  ASSUME Standing, Control, RecTypeOK, CapsuleInv, Late
  PROVE  /\ phase = "reported" /\ phase' \in {"reported", "dead"} /\ line' = line
         /\ Kept' \subseteq Kept
         /\ phase' = "dead" => Kept' \cup HalfBuilt' # {}
<1>1. phase = "reported" /\ line' = line
  BY DEF Late
<1>2. PICK s \in hidden :
        \/ /\ s \in capsules
           /\ IF InCapsule(s) THEN Release(s, FALSE, <<>>) ELSE UNCHANGED recVars
           /\ capsules' = capsules \ {s} /\ UNCHANGED phase
        \/ /\ place[s] = "own"
           /\ IF freed THEN Go("dead") /\ UNCHANGED recVars
              ELSE Release(s, FALSE, <<>>) /\ UNCHANGED phase
           /\ UNCHANGED <<capsules, counted, refs, freed>>
  BY DEF Late
<1>3. s \in Structs
  BY DEF Control
<1>4. /\ \A x \in Structs : place'[x] \in {place[x], "dead"} /\ owner'[x] = owner[x]
      /\ capsules' \subseteq capsules
  BY <1>2 DEF Release, recVars
<1>5. Kept' \subseteq Kept
  BY <1>4 DEF Kept, Held, IsLive, Locations, CapsuleInv
<1>6. phase' \in {"reported", "dead"}
  BY <1>1, <1>2, Zenon DEF Go
<1>7. ASSUME phase' = "dead" PROVE Kept' \cup HalfBuilt' # {}
  <2>1. place[s] = "own" /\ UNCHANGED recVars /\ capsules' = capsules
    BY <1>1, <1>2, <1>7
  <2>2. s \in Kept \cup HalfBuilt
    BY <1>3, <2>1, OwnIsKept
  <2>3. Kept' = Kept /\ HalfBuilt' = HalfBuilt
    BY <2>1 DEF recVars, Kept, Held, IsLive, HalfBuilt
  <2> QED BY <2>2, <2>3
<1> QED BY <1>1, <1>5, <1>6, <1>7

LEMMA LinedEnd ==
  ASSUME Lined, Control, Standing, Heard, RecTypeOK, CapsuleInv,
         Drop \/ Dropped \/ Clean \/ Judge \/ Delete \/ Late
  PROVE  Lined'
<1>1. CASE Drop \/ Dropped
  <2>1. line' = line /\ phase \in {"drop", "end"} /\ phase' \in {"drop", "end", "ops", "clean"}
    BY <1>1 DEF Drop, Dropped, Unmoved, Go
  <2> QED BY <2>1, Unlined DEF Past
<1>2. CASE Clean
  <2>1. phase = "clean" /\ line' = line
    BY <1>2 DEF Clean, Unmoved
  <2>2. CASE Cleaned
    <3>1. phase' = "judge" /\ buffers' = FALSE /\ place' = place /\ capsules' = capsules
      BY <1>2, <2>2 DEF Clean, FreeBacking, Quiet, Go
    <3>2. ToClean' = {}
      BY <2>2, <3>1 DEF Cleaned, ToClean, AtHarness
    <3> QED BY <2>1, <3>1, <3>2 DEF Lined, Past
  <2>3. CASE ~Cleaned
    BY <1>2, <2>1, <2>3, Unlined DEF Clean, Past
  <2> QED BY <2>2, <2>3
<1>3. CASE Judge
  <2>1. /\ phase = "judge" /\ phase' = "judged" /\ line' = Seen
        /\ UNCHANGED <<recVars, conVars, consumer, ses, call, freed>>
        /\ UNCHANGED <<capsules, counted, refs, hidden>>
    BY <1>3 DEF Judge, Go, Quiet, Seen
  <2>2. Seen' = Seen
    BY <2>1 DEF Seen, recVars, Outstanding, IsLive
  <2>3. ToClean' = {} /\ ~buffers'
    BY <2>1 DEF Lined, recVars, ToClean, AtHarness
  <2>4. Kept' = Kept
    BY <2>1 DEF recVars, Kept, Held, IsLive
  <2>5. Kept # {} => Seen.incomplete \/ Seen.broken
    BY KeptShows DEF Seen
  <2> QED BY <2>1, <2>2, <2>3, <2>4, <2>5 DEF Lined, Past
<1>4. CASE Delete
  <2>1. phase = "judged" /\ phase' = "reported" /\ line' = line /\ Kept' = Kept
    BY <1>4 DEF Delete, Go, recVars, Kept, Held, IsLive
  <2> QED BY <2>1 DEF Lined, Past
<1>5. CASE Late
  BY <1>5, LateKeeps DEF Lined, Past
<1> QED BY <1>1, <1>2, <1>3, <1>4, <1>5

LEMMA LinedStep ==
  ASSUME Lined, Control, Standing, Heard, RecTypeOK, CapsuleInv, [Next]_vars
  PROVE  Lined'
<1>1. CASE UNCHANGED vars
  BY <1>1 DEF vars, recVars, conVars, pyVars, Lined, Seen, Outstanding, IsLive, ToClean, AtHarness,
     Kept, Held, HalfBuilt
<1> QED BY <1>1, LinedLoad, LinedStart, LinedCall, LinedEnd DEF Next

-----------------------------------------------------------------------------
(* What a session has handed over. *)

Session == [names : Seq(OpCodes), done : Nat, reader : BOOLEAN, eof : BOOLEAN,
            status : {"accepted", "rejected", "error"}, panicked : BOOLEAN, sent : BOOLEAN,
            received : {"none", "same", "relaid", "changed", "error"}]

Given == \E s \in Structs : givenAt[s] # "nowhere"
Gives == {"IMPORT_ARRAY", "STREAM_GET_SCHEMA", "STREAM_GET_NEXT"}
Ending == {"end", "clean", "judge", "judged"}

Handed ==
  /\ ses \in Session
  /\ phase \in Before => ses.done = 0 /\ ~ses.reader
  /\ ses.panicked => ses.status = "rejected" /\ phase \in Ending \cup Over
  /\ phase \notin Over \cup {"load", "names"} /\ ses.status = "accepted" => ~Refused(Names)
  /\ phase \in Ending /\ ses.status = "accepted" => ses.done = Len(Names)
  /\ ses.reader => Given
  /\ \A i \in 1..ses.done : Names[i] \in Gives => Given
  /\ phase = "call" => /\ call.op # "none"
                       /\ \/ Given
                          \/ call.op = "import" /\ call.todo = <<Schema(1), Array>>
                          \/ call.op = "open" /\ call.todo = <<Stream>>
  /\ phase = "drop" => Name = "RELEASE_BASE"

LEMMA GivenStays ==
  ASSUME Effect, phase \notin Before, RecTypeOK
  PROVE  Given => Given'
<1> SUFFICES ASSUME NEW s \in Structs, givenAt[s] # "nowhere" PROVE givenAt'[s] # "nowhere"
  BY DEF Given
<1>1. givenAt \in [Structs -> Places \cup {"nowhere"}]
  BY DEF RecTypeOK
<1>2. CASE UNCHANGED recVars \/ Freed \/ GetSchema(1) \/ GetSchemaRunsOut(1) \/ GetNext
           \/ Move(Movable, "exec")
  BY <1>1, <1>2 DEF recVars, Freed, FreeBacking, GetSchema, GetSchemaRunsOut, GetNext, Move
<1>3. ASSUME NEW x, \/ Take(x) \/ Release(x, FALSE, <<>>)
                    \/ Release(x, TRUE, <<Note("harness", x, place[x])>>)
                    \/ Export(x) \/ MoveOut(x) \/ ReleaseKid(x)
      PROVE  givenAt'[s] # "nowhere"
  BY <1>1, <1>3 DEF Take, Release, Export, MoveOut, ReleaseKid
<1>4. phase \notin {"load", "reload"}
  BY DEF Before
<1> QED BY <1>2, <1>3, <1>4 DEF Effect

\* The same session, the same call or none.
LEMMA HandedOn ==
  ASSUME Handed, Given => Given', ses' = ses, consumer' = consumer,
         phase \notin Before, phase' \notin Before,
         phase' = "call" => phase = "call" /\ (call' = call \/ (Given' /\ call'.op = call.op)),
         phase' \in Ending /\ ses.status = "accepted" => ses.done = Len(Names),
         phase \in Over => phase' \in Over,
         phase' = "drop" => Name = "RELEASE_BASE",
         ses.panicked => phase' \in Ending \cup Over
  PROVE  Handed'
<1>1. Names' = Names /\ Name' = Name /\ Refused(Names)' = Refused(Names)
  BY DEF Names, Name, Refused, Asks
<1>2. phase \notin {"load", "names"}
  BY DEF Before
<1>3. phase' = "call" => /\ call'.op # "none"
                         /\ \/ Given'
                            \/ call'.op = "import" /\ call'.todo = <<Schema(1), Array>>
                            \/ call'.op = "open" /\ call'.todo = <<Stream>>
  BY DEF Handed
<1> QED BY <1>1, <1>2, <1>3 DEF Handed

\* An exception.
LEMMA HandedRaise ==
  ASSUME Handed, Given => Given', consumer' = consumer, phase \in {"ops", "call"},
         NEW p \in BOOLEAN, Raise(p)
  PROVE  Handed'
<1>1. /\ ses' = [ses EXCEPT !.status = "rejected", !.panicked = p, !.received = "none"]
      /\ phase' = "end"
  BY DEF Raise, Go
<1>2. /\ ses' \in Session /\ ses'.status = "rejected" /\ ses'.reader = ses.reader
      /\ ses'.names = ses.names /\ ses'.done = ses.done
  BY <1>1 DEF Handed, Session
<1> QED BY <1>1, <1>2 DEF Handed, Before, Ending, Over, Names, Name

\* One more operation done.
LEMMA HandedNext ==
  ASSUME Handed, Given => Given', consumer' = consumer, phase \in {"ops", "call", "drop"},
         phase' = "ops", Name \in Gives => Given',
         ses' \in Session, ses'.names = ses.names, ses'.done = ses.done + 1,
         ses'.status = ses.status, ses'.panicked = ses.panicked, ses'.reader => Given'
  PROVE  Handed'
<1>1. Names' = Names /\ (Refused(Names)' <=> Refused(Names))
  BY DEF Names, Refused, Asks
<1>2. ASSUME NEW i \in 1..ses'.done, Names[i] \in Gives PROVE Given'
  <2>1. ses.done \in Nat
    BY DEF Handed, Session
  <2>2. CASE i = ses.done + 1
    BY <1>2, <2>2 DEF Name
  <2>3. CASE i \in 1..ses.done
    BY <1>2, <2>3 DEF Handed
  <2> QED BY <2>1, <2>2, <2>3
<1>3. ~ses.panicked
  BY DEF Handed, Ending, Over
<1>4. ses'.status = "accepted" => ~Refused(Names)
  BY DEF Handed, Over
<1> QED BY <1>1, <1>2, <1>3, <1>4 DEF Handed, Before, Ending, Over

LEMMA HandedOut ==
  ASSUME Handed, consumer' = consumer, phase = "ops", phase' = "call", ses' = ses,
         call'.op # "none",
         \/ Given /\ Given'
         \/ call'.op = "import" /\ call'.todo = <<Schema(1), Array>>
         \/ call'.op = "open" /\ call'.todo = <<Stream>>,
         Given => Given'
  PROVE  Handed'
<1>1. Names' = Names /\ Name' = Name /\ (Refused(Names)' <=> Refused(Names))
  BY DEF Names, Name, Refused, Asks
<1> QED BY <1>1 DEF Handed, Before, Ending, Over

\* Before the first operation.
LEMMA HandedFirst ==
  ASSUME ses' \in Session, ses'.done = 0, ~ses'.reader, ~ses'.panicked,
         phase' \notin {"call", "drop", "clean", "judge", "judged"},
         phase' \notin Over \cup {"load", "names"} /\ ses'.status = "accepted" => ~Refused(Names)',
         phase' = "end" => ses'.status # "accepted"
  PROVE  Handed'
<1>1. \A i \in 1..ses'.done : FALSE
  OBVIOUS
<1> QED BY <1>1 DEF Handed, Ending

LEMMA HandedStart ==
  ASSUME Handed, Load \/ DigestSent \/ ReadScript \/ ReleaseFirst \/ Reloaded
  PROVE  Handed'
<1>0. /\ consumer' = consumer /\ phase \in Before /\ ses \in Session /\ ses.done = 0 /\ ~ses.reader
      /\ ~ses.panicked
  BY DEF Load, DigestSent, ReadScript, ReleaseFirst, Reloaded, Unmoved, Handed, Before, Ending, Over
<1>1. CASE Load
  <2>1. ses' = ses /\ phase' \in {phase} \cup Over
    BY <1>1 DEF Load, Go, Over
  <2>2. Names' = Names /\ (Refused(Names)' <=> Refused(Names))
    BY <1>0, <2>1 DEF Names, Refused, Asks
  <2>3. phase' \notin Over \cup {"load", "names"} /\ ses.status = "accepted" => ~Refused(Names)
    BY <2>1 DEF Handed
  <2> QED BY <1>0, <2>1, <2>2, <2>3, HandedFirst DEF Before, Over
<1>2. CASE DigestSent
  <2>1. /\ phase' \in {"names", "dead"}
        /\ ses' = ses \/ \E sent \in BOOLEAN : ses' = [ses EXCEPT !.sent = sent]
    BY <1>2 DEF DigestSent, Go
  <2>2. /\ ses' \in Session /\ ses'.done = 0 /\ ~ses'.reader /\ ~ses'.panicked
    BY <1>0, <2>1 DEF Session
  <2> QED BY <2>1, <2>2, HandedFirst DEF Over
<1>3. CASE ReadScript
  <2>1. PICK script \in Scripts :
          LET names == IF script = <<>> THEN Default ELSE script
          IN  /\ ses' = [ses EXCEPT !.names = names,
                                    !.status = IF Refused(names) THEN "error" ELSE @]
              /\ Go(IF Asks(names, StreamOps) THEN "release first"
                    ELSE IF Refused(names) THEN "end" ELSE "ops")
    BY <1>3 DEF ReadScript
  <2> DEFINE names == IF script = <<>> THEN Default ELSE script
  <2>2. names \in Seq(OpCodes)
    <3>1. script \in Seq(OpCodes)
      BY ScriptsAssumption
    <3>2. {"IMPORT_SCHEMA", "IMPORT_ARRAY", "RELEASE_BASE"} \subseteq OpCodes
      BY DEF OpCodes, Performed
    <3>3. Default \in Seq(OpCodes)
      BY <3>2 DEF Default
    <3> QED BY <3>1, <3>3
  <2>3. /\ ses' = [ses EXCEPT !.names = names,
                              !.status = IF Refused(names) THEN "error" ELSE @]
        /\ phase' \in {"release first", "end", "ops"}
        /\ phase' = "end" => Refused(names)
    BY <2>1 DEF Go
  <2> HIDE DEF names
  <2>4. /\ ses' \in Session /\ ses'.done = 0 /\ ~ses'.reader /\ ~ses'.panicked
        /\ ses'.names = names /\ (Refused(names) => ses'.status = "error")
    BY <1>0, <2>2, <2>3 DEF Session
  <2>5. Refused(Names)' <=> Refused(names)
    BY <1>0, <2>4 DEF Names, Refused, Asks
  <2> QED BY <2>3, <2>4, <2>5, HandedFirst
<1>4. CASE ReleaseFirst \/ Reloaded
  <2>1. ses' = ses /\ phase \in {"release first", "reload"}
    BY <1>4 DEF ReleaseFirst, Reloaded
  <2>2. /\ phase' \in {"release first", "reload", "end", "ops"}
        /\ phase' = "end" => ses.status = "error"
    BY <1>4, Zenon DEF ReleaseFirst, Reloaded, Go
  <2>3. Names' = Names /\ (Refused(Names)' <=> Refused(Names))
    BY <1>0, <2>1 DEF Names, Refused, Asks
  <2>4. ses.status = "accepted" => ~Refused(Names)
    BY <2>1 DEF Handed, Over
  <2> QED BY <1>0, <2>1, <2>2, <2>3, <2>4, HandedFirst
<1> QED BY <1>1, <1>2, <1>3, <1>4

LEMMA HandedOps ==
  ASSUME Handed, Control, Given => Given',
         \/ Nothing \/ MoveStruct \/ ImportArray \/ OpenStream \/ StreamOpened
         \/ NextBatch \/ ExpectEof \/ ReleaseBase \/ Ran
  PROVE  Handed'
<1>0. phase = "ops" /\ consumer' = consumer /\ ses \in Session /\ ~ses.panicked /\ (ses.reader => Given)
  BY DEF Nothing, MoveStruct, ImportArray, OpenStream, StreamOpened, NextBatch, ExpectEof,
     ReleaseBase, Ran, AtOp, Enter, Unmoved, Handed, Ending, Over
<1>a. ASSUME Advance, phase' = "ops", Name \in Gives => Given' PROVE Handed'
  <2>1. /\ ses' \in Session /\ ses'.names = ses.names /\ ses'.done = ses.done + 1
        /\ ses'.status = ses.status /\ ses'.panicked = ses.panicked /\ ses'.reader = ses.reader
    BY <1>0, <1>a DEF Advance, Session
  <2> QED BY <1>0, <1>a, <2>1, HandedNext
<1>1. CASE Nothing
  <2>1. Advance /\ phase' = "ops" /\ Name \notin Gives
    BY <1>0, <1>1 DEF Nothing, Gives
  <2> QED BY <1>a, <2>1
<1>2. CASE MoveStruct
  <2>1. CASE Advance /\ phase' = "ops"
    <3>1. Name \notin Gives
      BY <1>2 DEF MoveStruct, Gives
    <3> QED BY <1>a, <2>1, <3>1
  <2>2. CASE Raise(FALSE)
    <3> DEFINE p == FALSE
    <3>1. p \in BOOLEAN /\ Raise(p)
      BY <2>2
    <3> HIDE DEF p
    <3> QED BY <1>0, <3>1, HandedRaise
  <2>3. (Advance /\ phase' = phase) \/ Raise(FALSE)
    BY <1>2, Zenon DEF MoveStruct
  <2> QED BY <1>0, <2>1, <2>2, <2>3
<1>3. CASE ImportArray
  <2>1. /\ phase' = "call" /\ ses' = ses
        /\ call'.op = "import" /\ call'.todo = <<Schema(1), Array>>
    BY <1>3 DEF ImportArray, Enter, Go, Idle
  <2> QED BY <1>0, <2>1, HandedOut
<1>4. CASE OpenStream
  <2>1. phase' = "call" /\ ses' = ses /\ call'.op = "open" /\ call'.todo = <<Stream>>
    BY <1>4 DEF OpenStream, Enter, Go, Idle
  <2> QED BY <1>0, <2>1, HandedOut
<1>5. CASE StreamOpened
  <2>1. Advance /\ phase' = "ops" /\ Given'
    BY <1>0, <1>5 DEF StreamOpened
  <2> QED BY <1>a, <2>1
<1>6. CASE NextBatch
  <2>1. Given
    BY <1>0, <1>6 DEF NextBatch
  <2>2. CASE Enter("next", <<>>)
    <3>1. phase' = "call" /\ ses' = ses /\ call'.op = "next"
      BY <2>2 DEF Enter, Go, Idle
    <3> QED BY <1>0, <2>1, <3>1, HandedOut
  <2>3. CASE UNCHANGED <<phase, ses, call>>
    BY <1>0, <2>3, HandedOn DEF Before, Ending, Over
  <2> QED BY <1>6, <2>2, <2>3, Zenon DEF NextBatch
<1>7. CASE ExpectEof
  <2>1. CASE Advance /\ phase' = "ops"
    <3>1. Name \notin Gives
      BY <1>7 DEF ExpectEof, Gives
    <3> QED BY <1>a, <2>1, <3>1
  <2>2. CASE ses' = [ses EXCEPT !.status = "error"] /\ phase' = "end"
    <3>1. /\ ses' \in Session /\ ses'.status = "error" /\ ses'.reader = ses.reader
          /\ ses'.names = ses.names /\ ses'.done = ses.done /\ ~ses'.panicked
      BY <1>0, <2>2 DEF Session
    <3> QED BY <1>0, <2>2, <3>1 DEF Handed, Before, Ending, Over, Names, Name
  <2> QED BY <1>0, <1>7, <2>1, <2>2 DEF ExpectEof, Go
<1>8. CASE ReleaseBase \/ Ran
  <2>1. /\ ses' = ses /\ phase' \in {"drop", "end"} /\ (phase' = "drop" => Name = "RELEASE_BASE")
        /\ phase' = "end" => ses.done = Len(Names)
    BY <1>8 DEF ReleaseBase, Ran, Go
  <2> QED BY <1>0, <2>1, HandedOn DEF Before, Ending, Over
<1> QED BY <1>1, <1>2, <1>3, <1>4, <1>5, <1>6, <1>7, <1>8

LEMMA HandedCall ==
  ASSUME Handed, Control, CapsuleInv, RecTypeOK, Standing, Given => Given',
         \/ Wrap \/ Unwrap \/ Import \/ LetGo \/ LetChildGo \/ Discard \/ AskSchema
         \/ AskNext \/ Return \/ Throw \/ Crash
  PROVE  Handed'
<1>0. phase = "call" /\ consumer' = consumer /\ ses \in Session /\ ~ses.panicked /\ call \in Calls
  BY DEF Wrap, Unwrap, Import, LetGo, LetChildGo, Discard, AskSchema, AskNext, Return, Throw,
     Crash, InCall, Busy, Unmoved, Handed, Ending, Over, Control
<1>a. ASSUME NEW p \in BOOLEAN, Raise(p) PROVE Handed'
  BY <1>0, <1>a, HandedRaise
<1>b. ASSUME Raise(FALSE) PROVE Handed'
  <2> DEFINE p == FALSE
  <2>1. p \in BOOLEAN /\ Raise(p)
    BY <1>b
  <2> HIDE DEF p
  <2> QED BY <2>1, <1>a
<1>c. ASSUME ses' = ses, phase' = phase, call' = call \/ (Given' /\ call'.op = call.op)
      PROVE  Handed'
  BY <1>0, <1>c, HandedOn DEF Before, Ending, Over
<1>d. call.todo = <<>> => Given
  <2>1. <<>> # <<Schema(1), Array>> /\ <<>> # <<Stream>>
    OBVIOUS
  <2> QED BY <1>0, <2>1 DEF Handed
<1>1. CASE Wrap
  <2>0. PICK s : s = Head(call.todo)
    OBVIOUS
  <2>1. call.todo \in Seq(Structs) /\ call.todo # <<>> /\ s \in Structs
    BY <1>0, <1>1, <2>0, HeadTailProperties DEF Wrap, Calls
  <2>2. \/ Export(s) /\ call' = [call EXCEPT !.todo = Tail(@)] /\ UNCHANGED <<phase, ses>>
        \/ MoveOut(s) /\ call' = [call EXCEPT !.lost = {s}] /\ UNCHANGED <<phase, ses>>
        \/ Raise(FALSE)
    BY <1>1, <2>0 DEF Wrap
  <2>3. CASE Export(s) /\ call' = [call EXCEPT !.todo = Tail(@)] /\ UNCHANGED <<phase, ses>>
    <3>1. Given'
      BY <2>1, <2>3 DEF Export, Given, RecTypeOK
    <3>2. call'.op = call.op
      BY <1>0, <2>3 DEF Calls
    <3> QED BY <1>c, <2>3, <3>1, <3>2
  <2>4. CASE MoveOut(s) /\ call' = [call EXCEPT !.lost = {s}] /\ UNCHANGED <<phase, ses>>
    <3>1. call'.op = call.op /\ call'.todo = call.todo
      BY <1>0, <2>4 DEF Calls
    <3>2. phase' = "call" /\ Names' = Names /\ Name' = Name /\ (Refused(Names)' <=> Refused(Names))
      BY <1>0, <2>4 DEF Names, Name, Refused, Asks
    <3> QED BY <1>0, <2>4, <3>1, <3>2 DEF Handed, Before, Ending, Over
  <2> QED BY <1>b, <2>2, <2>3, <2>4
<1>2. CASE Unwrap
  BY <1>2, <1>b DEF Unwrap
<1>3. CASE Import \/ LetGo \/ LetChildGo \/ Discard \/ AskSchema
  BY <1>3, <1>c DEF Import, LetGo, LetChildGo, Discard, AskSchema
<1>4. CASE AskNext
  <2>1. Given' /\ call'.op = call.op /\ ses' = ses /\ phase' = phase
    BY <1>0, <1>4, <1>d DEF AskNext, Busy, Calls
  <2> QED BY <1>c, <2>1
<1>5. CASE Return
  <2>1. PICK r \in Received :
          ses' = [ses EXCEPT
            !.reader = @ \/ call.op = "open",
            !.eof = IF call.op = "import" THEN @
                    ELSE IF consumer = "dataprof" THEN TRUE
                    ELSE IF call.op = "next" THEN call.answered = "eof" ELSE @,
            !.done = IF call.op = "open" THEN @ ELSE @ + 1,
            !.received = r]
    BY <1>5 DEF Return
  <2>2. Given' /\ phase' = "ops"
    BY <1>0, <1>5, <1>d DEF Return, Busy, Go
  <2>3. r \in {"none", "same", "relaid", "changed", "error"}
    BY <1>0 DEF Received, Session
  <2>4. /\ ses' \in Session /\ ses'.names = ses.names
        /\ ses'.done = (IF call.op = "open" THEN ses.done ELSE ses.done + 1)
        /\ ses'.status = ses.status /\ ses'.panicked = ses.panicked
    <3>1. PICK reader \in BOOLEAN, eof \in BOOLEAN, done \in Nat :
            /\ done = IF call.op = "open" THEN ses.done ELSE ses.done + 1
            /\ ses' = [ses EXCEPT !.reader = reader, !.eof = eof, !.done = done, !.received = r]
      <4> DEFINE reader == ses.reader \/ call.op = "open"
                 eof == IF call.op = "import" THEN ses.eof
                        ELSE IF consumer = "dataprof" THEN TRUE
                        ELSE IF call.op = "next" THEN call.answered = "eof" ELSE ses.eof
                 done == IF call.op = "open" THEN ses.done ELSE ses.done + 1
      <4>1. ses' = [ses EXCEPT !.reader = reader, !.eof = eof, !.done = done, !.received = r]
        BY <2>1
      <4>2. reader \in BOOLEAN /\ eof \in BOOLEAN /\ done \in Nat
        <5>1. ses.reader \in BOOLEAN /\ ses.eof \in BOOLEAN /\ ses.done \in Nat
          BY <1>0 DEF Session
        <5>2. reader \in BOOLEAN /\ eof \in BOOLEAN
          BY <5>1, Zenon
        <5>3. done \in Nat
          BY <5>1
        <5> QED BY <5>2, <5>3
      <4> QED BY <4>1, <4>2
    <3> QED BY <1>0, <2>3, <3>1 DEF Session
  <2>5. CASE call.op # "open"
    BY <1>0, <2>2, <2>4, <2>5, HandedNext
  <2>6. CASE call.op = "open"
    <3>1. Names' = Names /\ (Refused(Names)' <=> Refused(Names))
      BY <1>0, <2>4 DEF Names, Refused, Asks
    <3>2. ses.status = "accepted" => ~Refused(Names)
      BY <1>0 DEF Handed, Over
    <3> QED BY <1>0, <2>2, <2>4, <2>6, <3>1, <3>2 DEF Handed, Before, Ending, Over
  <2> QED BY <2>5, <2>6
<1>6. CASE Throw
  <2>1. PICK p \in BOOLEAN : Raise(p)
    BY <1>6 DEF Throw
  <2> QED BY <1>a, <2>1
<1>7. CASE Crash
  <2>1. phase' = "dead" /\ ses' = ses
    BY <1>7 DEF Crash, Go
  <2> QED BY <1>0, <2>1, HandedOn DEF Before, Ending, Over
<1> QED BY <1>1, <1>2, <1>3, <1>4, <1>5, <1>6, <1>7

LEMMA HandedEnd ==
  ASSUME Handed, Given => Given', Drop \/ Dropped \/ Clean \/ Judge \/ Delete \/ Late
  PROVE  Handed'
<1>0. consumer' = consumer /\ ses \in Session
  BY DEF Drop, Dropped, Clean, Judge, Delete, Late, Unmoved, Handed
<1>1. CASE Drop
  <2>1. phase' = phase /\ ses' = ses /\ phase \in {"drop", "end"}
    BY <1>1 DEF Drop
  <2>2. /\ phase = "drop" => Name = "RELEASE_BASE"
        /\ phase = "end" /\ ses.status = "accepted" => ses.done = Len(Names)
        /\ ses.panicked => phase \in Ending \cup Over
    BY DEF Handed, Ending
  <2> QED BY <1>0, <2>1, <2>2, HandedOn DEF Before, Ending, Over
<1>2. CASE Dropped /\ phase = "drop"
  <2>1. phase' = "ops" /\ ses' = [ses EXCEPT !.done = @ + 1, !.reader = FALSE]
    BY <1>2 DEF Dropped, Go
  <2>2. /\ ses' \in Session /\ ses'.names = ses.names /\ ses'.done = ses.done + 1 /\ ~ses'.reader
        /\ ses'.status = ses.status /\ ses'.panicked = ses.panicked
    <3>1. PICK n \in Nat : n = ses.done + 1
      BY <1>0 DEF Session
    <3>2. ses' = [ses EXCEPT !.done = n, !.reader = FALSE]
      BY <2>1, <3>1
    <3> QED BY <1>0, <3>1, <3>2 DEF Session
  <2>3. Name \notin Gives
    BY <1>2 DEF Handed, Gives
  <2> QED BY <1>0, <1>2, <2>1, <2>2, <2>3, HandedNext
<1>3. CASE Dropped /\ phase # "drop"
  <2>1. phase = "end" /\ phase' = "clean" /\ ses' = [ses EXCEPT !.reader = FALSE]
    BY <1>3 DEF Dropped, Go
  <2>2. /\ ses' \in Session /\ ses'.names = ses.names /\ ses'.done = ses.done /\ ~ses'.reader
        /\ ses'.status = ses.status /\ ses'.panicked = ses.panicked
    BY <1>0, <2>1 DEF Session
  <2>3. Names' = Names /\ (Refused(Names)' <=> Refused(Names))
    BY <1>0, <2>2 DEF Names, Refused, Asks
  <2> QED BY <1>0, <2>1, <2>2, <2>3 DEF Handed, Before, Ending, Over
<1>4. CASE Clean \/ Judge
  <2>1. ses' = ses /\ phase \in {"clean", "judge"} /\ phase' \in {"clean", "judge", "judged"}
    BY <1>4, Zenon DEF Clean, Judge, Go
  <2> QED BY <1>0, <2>1, HandedOn DEF Handed, Before, Ending, Over
<1>5. CASE Delete
  <2>1. ses' = ses /\ phase = "judged" /\ phase' = "reported"
    BY <1>5 DEF Delete, Go
  <2> QED BY <1>0, <2>1, HandedOn DEF Before, Ending, Over
<1>6. CASE Late
  <2>1. ses' = ses /\ phase = "reported" /\ phase' \in Over
    BY <1>6, Zenon DEF Late, Go, Over
  <2> QED BY <1>0, <2>1, HandedOn DEF Before, Ending, Over
<1> QED BY <1>1, <1>2, <1>3, <1>4, <1>5, <1>6

LEMMA HandedStep ==
  ASSUME Handed, Control, CapsuleInv, RecTypeOK, Standing, [Next]_vars, Effect
  PROVE  Handed'
<1>1. CASE UNCHANGED vars
  <2>1. UNCHANGED <<ses, phase, call, consumer, givenAt>>
    BY <1>1 DEF vars, recVars, pyVars
  <2> QED BY <2>1 DEF Handed, Given, Names, Name, Refused, Asks
<1>2. CASE Load \/ DigestSent \/ ReadScript \/ ReleaseFirst \/ Reloaded
  BY <1>2, HandedStart
<1>3. CASE \/ Nothing \/ MoveStruct \/ ImportArray \/ OpenStream \/ StreamOpened
           \/ NextBatch \/ ExpectEof \/ ReleaseBase \/ Ran
  <2>1. phase = "ops"
    BY <1>3 DEF Nothing, MoveStruct, ImportArray, OpenStream, StreamOpened, NextBatch, ExpectEof,
       ReleaseBase, Ran, AtOp
  <2> QED BY <1>3, <2>1, GivenStays, HandedOps DEF Before
<1>4. CASE \/ Wrap \/ Unwrap \/ Import \/ LetGo \/ LetChildGo \/ Discard \/ AskSchema
           \/ AskNext \/ Return \/ Throw \/ Crash
  <2>1. phase = "call"
    BY <1>4 DEF Wrap, Unwrap, Import, LetGo, LetChildGo, Discard, AskSchema, AskNext, Return,
       Throw, Crash, InCall, Busy
  <2> QED BY <1>4, <2>1, GivenStays, HandedCall DEF Before
<1>5. CASE Drop \/ Dropped \/ Clean \/ Judge \/ Delete \/ Late
  <2>1. phase \in {"drop", "end", "clean", "judge", "judged", "reported"}
    BY <1>5 DEF Drop, Dropped, Clean, Judge, Delete, Late
  <2> QED BY <1>5, <2>1, GivenStays, HandedEnd DEF Before
<1> QED BY <1>1, <1>2, <1>3, <1>4, <1>5 DEF Next

LEMMA HandedInit ==
  ASSUME Init
  PROVE  Handed
<1>1. ses = NewSession /\ phase = "load"
  BY DEF Init
<1>2. ses \in Session /\ ses.done = 0 /\ ~ses.reader /\ ~ses.panicked
  BY <1>1 DEF NewSession, Session
<1>3. \A i \in 1..ses.done : FALSE
  BY <1>2
<1> QED BY <1>1, <1>2, <1>3 DEF Handed, Ending, Over

-----------------------------------------------------------------------------
(* The type of what a reconstruction is built from. *)

\* f puts the first n sequences of seqs together, one after the other.
Joins(f, seqs, n) ==
  /\ f = [i \in 1..n |-> f[i]]
  /\ \A i \in 1..n : f[i] = IF i = 1 THEN seqs[i] ELSE f[i-1] \o seqs[i]

LEMMA JoinsExist ==
  ASSUME NEW seqs, NEW n \in Nat
  PROVE  \E f : Joins(f, seqs, n)
<1> DEFINE Bad == {k \in Nat : ~\E f : Joins(f, seqs, k)}
<1>1. SUFFICES ASSUME Bad # {} PROVE FALSE
  OBVIOUS
<1>2. PICK k \in Bad : \A j \in Bad : k <= j
  BY <1>1, Least
<1>3. k \in Nat /\ ~\E f : Joins(f, seqs, k)
  BY <1>2
<1>4. CASE k = 0
  <2>1. Joins([i \in 1..0 |-> 0], seqs, 0)
    BY DEF Joins
  <2> QED BY <1>3, <1>4, <2>1
<1>5. CASE k # 0
  <2>1. k - 1 \in Nat /\ k - 1 \notin Bad
    BY <1>2, <1>3, <1>5
  <2>2. PICK f : Joins(f, seqs, k - 1)
    BY <2>1
  <2> DEFINE last == IF k = 1 THEN seqs[k] ELSE f[k-1] \o seqs[k]
             g == [i \in 1..k |-> IF i = k THEN last ELSE f[i]]
  <2>3. /\ g = [i \in 1..k |-> g[i]]
        /\ \A i \in 1..k : g[i] = IF i = k THEN last ELSE f[i]
    OBVIOUS
  <2> HIDE DEF g
  <2>4. ASSUME NEW i \in 1..k PROVE g[i] = IF i = 1 THEN seqs[i] ELSE g[i-1] \o seqs[i]
    <3>1. ASSUME i # 1 PROVE g[i-1] = f[i-1]
      <4>1. i - 1 \in 1..k /\ i - 1 # k
        BY <1>3, <3>1
      <4> HIDE DEF last
      <4> QED BY <2>3, <4>1
    <3>2. CASE i = k
      BY <2>3, <3>1, <3>2
    <3>3. CASE i # k
      <4>1. i \in 1..(k-1)
        BY <1>3, <3>3
      <4> QED BY <2>2, <2>3, <3>1, <3>3, <4>1 DEF Joins
    <3> QED BY <3>2, <3>3
  <2>5. Joins(g, seqs, k)
    BY <2>3, <2>4 DEF Joins
  <2> QED BY <1>3, <2>5
<1> QED BY <1>4, <1>5

\* FlattenSeq is the last of such a chain.
LEMMA FlattenJoins ==
  ASSUME NEW seqs, NEW n \in Nat, n # 0, n = Len(seqs)
  PROVE  \E f : Joins(f, seqs, n) /\ FlattenSeq(seqs) = f[n]
<1> DEFINE F(h) == [i \in 1..n |-> IF i = 1 THEN seqs[i] ELSE h[i-1] \o seqs[i]]
           m == CHOOSE h : h = F(h)
<1>1. FlattenSeq(seqs) = m[n]
  BY Zenon DEF FlattenSeq
<1>2. PICK f : Joins(f, seqs, n)
  BY JoinsExist
<1>3. f = F(f)
  <2>1. f = [i \in 1..n |-> f[i]]
    BY <1>2, Zenon DEF Joins
  <2>2. \A i \in 1..n : f[i] = IF i = 1 THEN seqs[i] ELSE f[i-1] \o seqs[i]
    BY <1>2 DEF Joins
  <2> QED BY <2>1, <2>2
<1>4. m = F(m)
  BY <1>3
<1> HIDE DEF m
<1>5. \A i \in 1..n : m[i] = IF i = 1 THEN seqs[i] ELSE m[i-1] \o seqs[i]
  BY <1>4
<1>6. m = [i \in 1..n |-> m[i]]
  BY <1>4
<1> QED BY <1>1, <1>5, <1>6 DEF Joins

\* Sequences put together are a sequence.
LEMMA FlattenType ==
  ASSUME NEW S, NEW seqs \in Seq(Seq(S))
  PROVE  FlattenSeq(seqs) \in Seq(S)
<1> DEFINE n == Len(seqs)
<1>1. n \in Nat /\ \A i \in 1..n : seqs[i] \in Seq(S)
  OBVIOUS
<1>2. CASE n = 0
  BY <1>2 DEF FlattenSeq
<1>3. CASE n # 0
  <2> HIDE DEF n
  <2>1. PICK m : Joins(m, seqs, n) /\ FlattenSeq(seqs) = m[n]
    BY <1>1, <1>3, FlattenJoins DEF n
  <2>2. \A i \in 1..n : m[i] = IF i = 1 THEN seqs[i] ELSE m[i-1] \o seqs[i]
    BY <2>1 DEF Joins
  <2> DEFINE Bad == {i \in 1..n : m[i] \notin Seq(S)}
  <2>3. ASSUME Bad # {} PROVE FALSE
    <3>1. Bad \in SUBSET Nat
      BY <1>1
    <3>2. PICK k \in Bad : \A j \in Bad : k <= j
      <4> HIDE DEF Bad
      <4> QED BY <2>3, <3>1, Least
    <3>3. k \in 1..n /\ m[k] \notin Seq(S) /\ seqs[k] \in Seq(S)
      BY <1>1, <3>2
    <3>4. CASE k = 1
      BY <2>2, <3>3, <3>4
    <3>5. CASE k # 1
      <4>1. k - 1 \in 1..n /\ k - 1 \notin Bad
        BY <1>1, <3>2, <3>3, <3>5
      <4>2. m[k-1] \in Seq(S)
        BY <4>1
      <4>3. m[k] = m[k-1] \o seqs[k]
        BY <2>2, <3>3, <3>5
      <4> QED BY <3>3, <4>2, <4>3, ConcatProperties
    <3> QED BY <3>4, <3>5
  <2>4. n \in 1..n
    BY <1>1, <1>3
  <2> QED BY <2>1, <2>3, <2>4
<1> QED BY <1>2, <1>3

Blocks == [of : {"backing", "schema", "array"}, node : Nat, part : Parts \cup {"table", "bytes"}]

LEMMA PartsType ==
  ASSUME NEW parts \in Seq(Parts), NEW tree, NEW i
  PROVE  PartsOf(parts, tree, i) \in Seq(Parts)
<1> DEFINE Has(p) == IF p = "struct" THEN i > 1 ELSE p \in {"priv", "format"} \cup tree[i].asks
           kept == [k \in DOMAIN parts |-> IF Has(parts[k]) THEN <<parts[k]>> ELSE <<>>]
<1>1. \A k \in DOMAIN parts : <<parts[k]>> \in Seq(Parts) /\ <<>> \in Seq(Parts)
  OBVIOUS
<1>2. Len(parts) \in Nat /\ DOMAIN parts = 1..Len(parts)
  OBVIOUS
<1>3. \A k \in DOMAIN parts : kept[k] \in Seq(Parts)
  <2> HIDE DEF Has
  <2> QED BY <1>1
<1>4. DOMAIN kept = 1..Len(parts) /\ kept = [k \in 1..Len(parts) |-> kept[k]]
  BY <1>2
<1>5. PartsOf(parts, tree, i) = FlattenSeq(kept)
  BY Zenon DEF PartsOf
<1> HIDE DEF kept
<1>6. kept \in Seq(Seq(Parts))
  BY <1>2, <1>3, <1>4
<1> QED BY <1>5, <1>6, FlattenType

LEMMA TreePlanType ==
  ASSUME NEW of \in {"schema", "array"}, NEW parts \in Seq(Parts), NEW tree \in Seq(TreeNode)
  PROVE  TreePlan(of, parts, tree) \in Seq(Blocks)
<1> DEFINE mine(i) == PartsOf(parts, tree, i)
           asked(i) == [k \in DOMAIN mine(i) |-> Block(of, i, mine(i)[k])]
           all == [i \in DOMAIN tree |-> asked(i)]
<1>1. Len(tree) \in Nat /\ DOMAIN tree = 1..Len(tree)
  OBVIOUS
<1>2. \A i \in DOMAIN tree : asked(i) \in Seq(Blocks)
  <2> SUFFICES ASSUME NEW i \in DOMAIN tree PROVE asked(i) \in Seq(Blocks)
    OBVIOUS
  <2> DEFINE m == mine(i)
  <2>1. m \in Seq(Parts)
    BY PartsType
  <2>2. i \in Nat
    BY <1>1
  <2> HIDE DEF m
  <2>3. \A k \in 1..Len(m) : Block(of, i, m[k]) \in Blocks
    BY <2>1, <2>2 DEF Block, Blocks
  <2>4. [k \in DOMAIN m |-> Block(of, i, m[k])] \in Seq(Blocks)
    BY <2>1, <2>3
  <2> QED BY <2>4 DEF m
<1>3. TreePlan(of, parts, tree) = FlattenSeq(all)
  BY Zenon DEF TreePlan
<1> HIDE DEF asked
<1>4. all \in Seq(Seq(Blocks))
  BY <1>1, <1>2
<1> HIDE DEF all
<1> QED BY <1>3, <1>4, FlattenType

\* Plan, of a shape and a mode that need not be the current ones.
PlanFor(sh, st) ==
  (IF sh.blocks = 0 THEN <<>>
   ELSE <<Table>> \o [k \in 1..sh.blocks |-> Block("backing", k, "bytes")])
  \o (IF st THEN <<>> ELSE TreePlan("schema", SchemaParts, sh.schema))
  \o TreePlan("array", ArrayParts, sh.array)

LEMMA PlanForType ==
  ASSUME NEW sh \in Shapes, NEW st
  PROVE  PlanFor(sh, st) \in Seq(Blocks)
<1>1. sh.blocks \in Nat /\ sh.schema \in Seq(TreeNode) /\ sh.array \in Seq(TreeNode)
  BY ShapesAssumption
<1>2. SchemaParts \in Seq(Parts) /\ ArrayParts \in Seq(Parts)
  BY DEF SchemaParts, ArrayParts, Parts
<1> DEFINE bytes == [k \in 1..sh.blocks |-> Block("backing", k, "bytes")]
           one == <<Table>>
           c == IF sh.blocks = 0 THEN <<>> ELSE one \o bytes
           a == IF st THEN <<>> ELSE TreePlan("schema", SchemaParts, sh.schema)
           b == TreePlan("array", ArrayParts, sh.array)
<1>3. c \in Seq(Blocks)
  <2>1. one \in Seq(Blocks)
    BY DEF Table, Block, Blocks
  <2>2. bytes \in Seq(Blocks)
    <3>1. \A k \in 1..sh.blocks : Block("backing", k, "bytes") \in Blocks
      BY <1>1 DEF Block, Blocks
    <3> QED BY <1>1, <3>1
  <2> HIDE DEF one, bytes
  <2>3. one \o bytes \in Seq(Blocks)
    BY <2>1, <2>2, ConcatProperties
  <2> QED BY <2>3
<1>4. a \in Seq(Blocks) /\ b \in Seq(Blocks)
  BY <1>1, <1>2, TreePlanType
<1>5. PlanFor(sh, st) = (c \o a) \o b
  BY DEF PlanFor
<1> HIDE DEF a, b, c
<1>6. c \o a \in Seq(Blocks)
  BY <1>3, <1>4, ConcatProperties
<1> QED BY <1>4, <1>5, <1>6, ConcatProperties

LEMMA PlanType ==
  ASSUME shape \in Shapes
  PROVE  Plan \in Seq(Blocks)
<1>1. Plan = PlanFor(shape, stream)
  BY DEF Plan, BackingPlan, PlanFor
<1> QED BY <1>1, PlanForType

\* What has been asked for so far.
LEMMA EarlyIs ==
  ASSUME NEW S, NEW plan \in Seq(S), NEW n \in 0..Len(plan)
  PROVE  Range(SubSeq(plan, 1, n)) = {plan[i] : i \in 1..n}
<1> DEFINE sub == SubSeq(plan, 1, n)
<1>1. Len(plan) \in Nat /\ n \in Nat
  OBVIOUS
<1>2. DOMAIN sub = 1..n /\ \A i \in 1..n : sub[i] = plan[i]
  BY <1>1
<1> QED BY <1>2 DEF Range

LEMMA BuildType ==
  ASSUME ConTypeOK, BuildStep
  PROVE  ConTypeOK'
<1>0. Plan \in Seq(Blocks) /\ Len(Plan) \in Nat
  BY PlanType DEF ConTypeOK
<1>1. shape' = shape /\ stream' = stream
  BY DEF BuildStep, Request, RunsOut, Undo, Complete
<1>2. Plan' = Plan
  BY <1>1 DEF Plan, BackingPlan
<1>3. ASSUME NEW n \in 0..Len(Plan) PROVE Range(SubSeq(Plan, 1, n)) = {Plan[i] : i \in 1..n}
  BY <1>0, EarlyIs
<1>4. /\ at \in 0..Len(Plan) /\ heap \subseteq {Plan[i] : i \in 1..at}
      /\ shape \in Shapes /\ stream \in BOOLEAN /\ twice \in BOOLEAN
  BY <1>3 DEF ConTypeOK
<1>5. CASE Request
  <2>1. at' = at + 1 /\ at' \in 0..Len(Plan) /\ heap' = heap \cup {Plan[at']}
    BY <1>0, <1>4, <1>5 DEF Request
  <2>2. heap' \subseteq {Plan[i] : i \in 1..at'}
    BY <1>0, <1>4, <2>1
  <2>3. heap' \subseteq Range(SubSeq(Plan, 1, at'))
    BY <1>3, <2>1, <2>2
  <2>4. outcome' = outcome /\ twice' = twice
    BY <1>5 DEF Request
  <2> QED BY <1>1, <1>2, <1>4, <2>1, <2>3, <2>4 DEF ConTypeOK
<1>6. CASE RunsOut \/ Complete
  <2>1. at' = at /\ heap' = heap /\ outcome' \in {"failing", "built"} /\ twice' = twice
    BY <1>6 DEF RunsOut, Complete
  <2> QED BY <1>1, <1>2, <2>1 DEF ConTypeOK
<1>7. CASE Undo
  <2>1. at' = at /\ heap' \subseteq heap /\ outcome' \in {"crashed", "failed"}
    BY <1>7 DEF Undo
  <2>2. twice' \in BOOLEAN
    BY <1>4, <1>7, Zenon DEF Undo
  <2> QED BY <1>1, <1>2, <2>1, <2>2 DEF ConTypeOK
<1> QED BY <1>5, <1>6, <1>7 DEF BuildStep

LEMMA BuildStreamType ==
  ASSUME ConTypeOK, BuildStream
  PROVE  ConTypeOK'
<1>1. /\ shape' = shape /\ stream' = TRUE /\ at' = 0 /\ heap' = {} /\ outcome' = "building"
      /\ twice' = FALSE
  BY DEF BuildStream
<1>2. shape' \in Shapes
  BY <1>1 DEF ConTypeOK
<1>3. Len(Plan') \in Nat
  <2>1. Plan' \in Seq(Blocks)
    <3>1. Plan' = PlanFor(shape', stream')
      BY DEF Plan, BackingPlan, PlanFor
    <3> QED BY <1>2, <3>1, PlanForType
  <2> QED BY <2>1
<1>4. heap' \subseteq Range(SubSeq(Plan', 1, at')) /\ at' \in 0..Len(Plan')
  BY <1>1, <1>3
<1> QED BY <1>1, <1>2, <1>4 DEF ConTypeOK

-----------------------------------------------------------------------------
(* Everything together. *)

RefsOK == refs \in Nat /\ freed \in BOOLEAN

WorkerInv ==
  /\ RecTypeOK /\ ConTypeOK /\ RefsOK
  /\ CapsuleInv /\ Standing /\ Control /\ Heard /\ Lined /\ Handed

LEMMA InitIsTyped ==
  ASSUME Init
  PROVE  RecTypeOK /\ ConTypeOK /\ RefsOK
<1>1. RecTypeOK
  <2>1. /\ place = [s \in Structs |-> "unborn"] /\ kids = {} /\ buffers = FALSE
        /\ log = <<>> /\ dropped = FALSE /\ owner = [s \in Structs |-> "harness"]
        /\ givenAt = [s \in Structs |-> "nowhere"] /\ sins = {}
    BY DEF Init, ConstructInit, NotBuilt
  <2>2. log \in Seq(Event) /\ Len(log) = 0
    BY <2>1
  <2>3. Len(log) <= MaxEvents
    BY <2>2, EventsAssumption
  <2>4. place \in [Structs -> Places] /\ givenAt \in [Structs -> Places \cup {"nowhere"}]
    BY <2>1 DEF Places
  <2>5. owner \in [Structs -> {"harness", "consumer"}]
    BY <2>1
  <2> QED BY <2>1, <2>2, <2>3, <2>4, <2>5 DEF RecTypeOK
<1>2. ConTypeOK
  <2>1. /\ shape \in Shapes /\ stream = FALSE /\ at = 0 /\ heap = {} /\ outcome = "building"
        /\ twice = FALSE
    BY DEF Init, ConstructInit
  <2>2. Len(Plan) \in Nat
    BY <2>1, PlanType
  <2>3. heap \subseteq Range(SubSeq(Plan, 1, at)) /\ at \in 0..Len(Plan)
    BY <2>1, <2>2
  <2> QED BY <2>1, <2>3 DEF ConTypeOK
<1>3. RefsOK
  BY DEF Init, RefsOK
<1> QED BY <1>1, <1>2, <1>3

LEMMA InitIsOrdered ==
  ASSUME Init
  PROVE  Standing /\ Control /\ Lined
<1>1. /\ place = [s \in Structs |-> "unborn"] /\ owner = [s \in Structs |-> "harness"]
      /\ stream = FALSE /\ phase = "load" /\ call = Idle /\ capsules = {} /\ hidden = {}
      /\ line = NoLine
  BY DEF Init, ConstructInit, NotBuilt
<1>2. \A s \in Structs : place[s] = "unborn" /\ owner[s] = "harness"
  BY <1>1
<1>3. Bases \subseteq Structs /\ Schema(1) \in Bases /\ Stream \in Bases
  BY BasesAre DEF Bases
<1>4. Standing
  BY <1>1, <1>2, <1>3 DEF Standing, AtHarness, InCapsule
<1>5. Control
  BY <1>1, <1>2, <1>3, IdleIs DEF Control
<1>6. Lined
  BY <1>1 DEF Lined, Past
<1> QED BY <1>4, <1>5, <1>6

LEMMA WorkerInit ==
  ASSUME Init
  PROVE  WorkerInv
BY InitIsTyped, InitIsOrdered, InitIsKept, HeardInit, HandedInit DEF WorkerInv

\* The case is built step by step, or left alone.
LEMMA ConSteps ==
  ASSUME [Next]_vars
  PROVE  UNCHANGED conVars \/ BuildStep \/ BuildStream
<1>1. CASE Load
  BY <1>1 DEF Load
<1>2. CASE ReleaseFirst
  BY <1>2 DEF ReleaseFirst
<1>3. CASE UNCHANGED vars
  BY <1>3 DEF vars
<1>4. CASE \/ DigestSent \/ ReadScript \/ Reloaded
           \/ Nothing \/ MoveStruct \/ ImportArray \/ OpenStream \/ StreamOpened
           \/ NextBatch \/ ExpectEof \/ ReleaseBase \/ Ran
  BY <1>4 DEF DigestSent, ReadScript, Reloaded, Nothing, MoveStruct, ImportArray, OpenStream,
     StreamOpened, NextBatch, ExpectEof, ReleaseBase, Ran, Enter, Unmoved
<1>5. CASE \/ Wrap \/ Unwrap \/ Import \/ LetGo \/ LetChildGo \/ Discard \/ AskSchema
           \/ AskNext \/ Return \/ Throw \/ Crash
  BY <1>5 DEF Wrap, Unwrap, Import, LetGo, LetChildGo, Discard, AskSchema, AskNext, Return,
     Throw, Crash, Unmoved
<1>6. CASE Drop \/ Dropped \/ Clean \/ Judge \/ Delete \/ Late
  BY <1>6 DEF Drop, Dropped, Clean, Judge, Delete, Late, Unmoved
<1> QED BY <1>1, <1>2, <1>3, <1>4, <1>5, <1>6 DEF Next

LEMMA ConStep ==
  ASSUME ConTypeOK, [Next]_vars
  PROVE  ConTypeOK'
<1>1. UNCHANGED conVars \/ BuildStep \/ BuildStream
  BY ConSteps
<1>2. CASE UNCHANGED conVars
  <2>1. UNCHANGED <<shape, stream, at, heap, outcome, twice>>
    BY <1>2 DEF conVars
  <2>2. Plan' = Plan
    BY <2>1 DEF Plan, BackingPlan
  <2> QED BY <2>1, <2>2 DEF ConTypeOK
<1> QED BY <1>1, <1>2, BuildType, BuildStreamType

LEMMA RefsStep ==
  ASSUME RefsOK, CapsuleInv, CapsuleInv', [Next]_vars
  PROVE  RefsOK'
<1>1. Cardinality(capsules) \in Nat /\ Cardinality(capsules') \in Nat
  BY FS_CardinalityType DEF CapsuleInv
<1>2. refs' = refs \/ refs' \in Nat
  <2>1. CASE phase' = "dead"
    <3>1. CASE DigestSent
      BY <3>1 DEF DigestSent
    <3>2. CASE Late
      <4>1. PICK s \in hidden :
              \/ Unref(refs - 1) /\ UNCHANGED phase
              \/ UNCHANGED refs
        BY <3>2, Zenon DEF Late
      <4>2. phase = "reported"
        BY <3>2 DEF Late
      <4> QED BY <2>1, <4>1, <4>2
    <3>3. CASE Load \/ Crash
      BY <3>3 DEF Load, Crash, Quiet
    <3>4. CASE UNCHANGED vars
      BY <3>4 DEF vars, pyVars
    <3>5. CASE ReadScript \/ ReleaseFirst \/ Reloaded
      BY <3>5, Zenon DEF ReadScript, ReleaseFirst, Reloaded, Quiet
    <3>6. CASE \/ Nothing \/ MoveStruct \/ ImportArray \/ OpenStream \/ StreamOpened
               \/ NextBatch \/ ExpectEof \/ ReleaseBase \/ Ran
      BY <3>6, Zenon DEF Nothing, MoveStruct, ImportArray, OpenStream, StreamOpened, NextBatch,
         ExpectEof, ReleaseBase, Ran, Enter, Quiet
    <3>7. CASE \/ Unwrap \/ Import \/ LetGo \/ LetChildGo \/ AskSchema \/ AskNext \/ Return
               \/ Throw \/ Dropped \/ Clean \/ Judge
      BY <3>7 DEF Unwrap, Import, LetGo, LetChildGo, AskSchema, AskNext, Return, Throw, Dropped,
         Clean, Judge, Quiet
    <3>8. CASE Wrap
      <4>1. phase' \in {"call", "end"}
        BY <3>8, Zenon DEF Wrap, InCall, Raise, Go
      <4> QED BY <2>1, <4>1
    <3>9. CASE Discard \/ Drop \/ Delete
      <4>1. phase' \in {"call", "drop", "end", "reported"}
        BY <3>9 DEF Discard, Drop, Delete, Busy, InCall, Go
      <4> QED BY <2>1, <4>1
    <3> QED BY <3>1, <3>2, <3>3, <3>4, <3>5, <3>6, <3>7, <3>8, <3>9 DEF Next
  <2>2. CASE phase' # "dead"
    <3>1. \/ refs' = 0
          \/ refs' = Cardinality(capsules') + 1
          \/ refs' = Cardinality(capsules')
      BY <2>2 DEF CapsuleInv, Over
    <3> QED BY <1>1, <3>1
  <2> QED BY <2>1, <2>2
<1>3. freed' = freed \/ freed' \in BOOLEAN
  <2>1. CASE UNCHANGED vars
    BY <2>1 DEF vars, pyVars
  <2>2. CASE Load \/ ReleaseFirst \/ Judge
    BY <2>2 DEF Load, ReleaseFirst, Judge
  <2>3. CASE Delete
    BY <2>3 DEF Delete, Unref
  <2>4. CASE Late
    <3>1. PICK s \in hidden : Unref(refs - 1) \/ UNCHANGED freed
      BY <2>4, Zenon DEF Late
    <3> QED BY <3>1 DEF Unref
  <2>5. CASE \/ DigestSent \/ ReadScript \/ Reloaded
             \/ Nothing \/ MoveStruct \/ ImportArray \/ OpenStream \/ StreamOpened
             \/ NextBatch \/ ExpectEof \/ ReleaseBase \/ Ran
    BY <2>5 DEF DigestSent, ReadScript, Reloaded, Nothing, MoveStruct, ImportArray, OpenStream,
       StreamOpened, NextBatch, ExpectEof, ReleaseBase, Ran, Enter, Unmoved
  <2>6. CASE \/ Wrap \/ Unwrap \/ Import \/ LetGo \/ LetChildGo \/ Discard \/ AskSchema
             \/ AskNext \/ Return \/ Throw \/ Crash \/ Drop \/ Dropped \/ Clean
    BY <2>6 DEF Wrap, Unwrap, Import, LetGo, LetChildGo, Discard, AskSchema, AskNext, Return,
       Throw, Crash, Drop, Dropped, Clean, Unmoved
  <2> QED BY <2>1, <2>2, <2>3, <2>4, <2>5, <2>6 DEF Next
<1> QED BY <1>2, <1>3 DEF RefsOK

LEMMA WorkerStep ==
  ASSUME WorkerInv, [Next]_vars
  PROVE  WorkerInv'
<1>0. /\ RecTypeOK /\ ConTypeOK /\ RefsOK
      /\ CapsuleInv /\ Standing /\ Control /\ Heard /\ Lined /\ Handed
  BY DEF WorkerInv
<1>1. Effect
  BY <1>0, EveryEffect
<1>2. shape \in Shapes
  BY <1>0 DEF ConTypeOK
<1>3. RecTypeOK' /\ Standing'
  BY <1>0, <1>1, <1>2, EffectType, StandingEffect
<1>4. CapsuleInv'
  BY <1>0, NextKeepsCapsules
<1>5. ConTypeOK' /\ RefsOK'
  BY <1>0, <1>4, ConStep, RefsStep
<1>6. Control' /\ Lined'
  BY <1>0, ControlStep, LinedStep
<1>7. Heard' /\ Handed'
  BY <1>0, <1>1, HeardStep, HandedStep
<1> QED BY <1>3, <1>4, <1>5, <1>6, <1>7 DEF WorkerInv

LEMMA WorkerHolds == Spec => []WorkerInv
BY WorkerInit, WorkerStep, PTL DEF Spec

-----------------------------------------------------------------------------
(* What the undoing of a half-built reconstruction reaches. *)

\* A node's private data comes before all of its parts but its structure.
Private(s) ==
  \A k \in 1..Len(s) : s[k] # "struct" => \E m \in 1..k : s[m] = "priv"

LEMMA JoinIs ==
  ASSUME NEW S, NEW s \in Seq(S), NEW t \in Seq(S), NEW st, st = s \o t
  PROVE  /\ st \in Seq(S)
         /\ Len(s) \in Nat /\ Len(t) \in Nat /\ Len(st) = Len(s) + Len(t)
         /\ \A k \in 1..Len(s) : st[k] = s[k]
         /\ \A k \in 1..Len(t) : st[Len(s) + k] = t[k]
BY ConcatProperties

LEMMA OneMore ==
  ASSUME NEW S, NEW s \in Seq(S), NEW x \in S, NEW t, t = s \o <<x>>
  PROVE  /\ t \in Seq(S) /\ Len(s) \in Nat /\ Len(t) = Len(s) + 1
         /\ \A k \in 1..Len(s) : t[k] = s[k]
         /\ t[Len(s) + 1] = x
         /\ \A k \in 1..Len(t) : k \in 1..Len(s) \/ k = Len(s) + 1
<1> DEFINE o == <<x>>
<1>1. o \in Seq(S) /\ Len(o) = 1 /\ o[1] = x
  OBVIOUS
<1> HIDE DEF o
<1>2. /\ t \in Seq(S) /\ Len(s) \in Nat /\ Len(t) = Len(s) + Len(o)
      /\ \A k \in 1..Len(s) : t[k] = s[k]
      /\ \A k \in 1..Len(o) : t[Len(s) + k] = o[k]
  <2>1. t = s \o o
    BY DEF o
  <2> QED BY <1>1, <2>1, JoinIs
<1>3. 1 \in 1..Len(o)
  BY <1>1
<1>4. t[Len(s) + 1] = x
  BY <1>1, <1>2, <1>3
<1>5. \A k \in 1..Len(t) : k \in 1..Len(s) \/ k = Len(s) + 1
  BY <1>1, <1>2
<1> QED BY <1>1, <1>2, <1>4, <1>5

LEMMA PrivateJoins ==
  ASSUME NEW s \in Seq(Parts), NEW t \in Seq(Parts), Private(s),
         Private(t) \/ \E m \in 1..Len(s) : s[m] = "priv"
  PROVE  Private(s \o t)
<1> DEFINE st == s \o t
<1>1. /\ Len(s) \in Nat /\ Len(t) \in Nat /\ Len(st) = Len(s) + Len(t)
      /\ \A k \in 1..Len(s) : st[k] = s[k]
      /\ \A k \in 1..Len(t) : st[Len(s) + k] = t[k]
  BY JoinIs
<1> HIDE DEF st
<1>2. ASSUME NEW k \in 1..Len(st), st[k] # "struct"
      PROVE  \E m \in 1..k : st[m] = "priv"
  <2>1. CASE k <= Len(s)
    <3>1. k \in 1..Len(s)
      BY <1>1, <2>1
    <3>2. PICK m \in 1..k : s[m] = "priv"
      BY <1>1, <1>2, <3>1 DEF Private
    <3>3. m \in 1..Len(s)
      BY <1>1, <3>1
    <3> QED BY <1>1, <3>2, <3>3
  <2>2. CASE k > Len(s)
    <3>1. CASE \E m \in 1..Len(s) : s[m] = "priv"
      BY <1>1, <2>2, <3>1
    <3>2. CASE Private(t)
      <4> DEFINE j == k - Len(s)
      <4>1. j \in 1..Len(t) /\ k = Len(s) + j
        BY <1>1, <2>2
      <4> HIDE DEF j
      <4>2. PICK m \in 1..j : t[m] = "priv"
        BY <1>1, <1>2, <3>2, <4>1 DEF Private
      <4>3. m \in 1..Len(t) /\ Len(s) + m \in 1..k
        BY <1>1, <4>1
      <4> QED BY <1>1, <4>2, <4>3
    <3> QED BY <3>1, <3>2
  <2> QED BY <1>1, <2>1, <2>2
<1> QED BY <1>2 DEF Private, st

LEMMA PartsPrivate ==
  ASSUME NEW parts \in {SchemaParts, ArrayParts}, NEW tree, NEW i, NEW s,
         s = PartsOf(parts, tree, i)
  PROVE  /\ Private(s) /\ \E m \in 1..Len(s) : s[m] = "priv"
         /\ \A k \in 1..Len(s) : s[k] = "struct" => i > 1
<1> DEFINE Has(p) == IF p = "struct" THEN i > 1 ELSE p \in {"priv", "format"} \cup tree[i].asks
           kept == [k \in DOMAIN parts |-> IF Has(parts[k]) THEN <<parts[k]>> ELSE <<>>]
           n == Len(parts)
<1>1. /\ n \in {4, 6} /\ DOMAIN parts = 1..n /\ \A k \in 1..n : parts[k] \in Parts
      /\ parts[1] = "struct" /\ parts[2] = "priv" /\ \A k \in 3..n : parts[k] # "struct"
  BY DEF SchemaParts, ArrayParts, Parts
<1>2. \A k \in 1..n : kept[k] = IF Has(parts[k]) THEN <<parts[k]>> ELSE <<>>
  BY <1>1
<1>0. 1 \in 1..n /\ 2 \in 1..n /\ \A k \in 3..n : k \in 1..n /\ k # 1
  BY <1>1
<1>3. kept[1] = IF i > 1 THEN <<"struct">> ELSE <<>>
  <2> HIDE DEF n
  <2> QED BY <1>0, <1>1, <1>2
<1>4. kept[2] = <<"priv">>
  <2> HIDE DEF n
  <2> QED BY <1>0, <1>1, <1>2
<1>5. \A k \in 3..n : kept[k] = <<>> \/ \E p \in Parts \ {"struct"} : kept[k] = <<p>>
  <2> HIDE DEF Has, kept, n
  <2> TAKE k \in 3..n
  <2>1. kept[k] = <<parts[k]>> \/ kept[k] = <<>>
    BY <1>0, <1>2
  <2>2. parts[k] \in Parts \ {"struct"}
    BY <1>0, <1>1
  <2> QED BY <2>1, <2>2
<1>6. PartsOf(parts, tree, i) = FlattenSeq(kept)
  BY Zenon DEF PartsOf
<1>7. n = Len(kept)
  BY <1>1
<1> HIDE DEF kept, Has
<1>8. PICK f : Joins(f, kept, n) /\ FlattenSeq(kept) = f[n]
  <2> HIDE DEF n
  <2>1. n \in Nat /\ n # 0
    BY <1>1
  <2> QED BY <1>7, <2>1, FlattenJoins
<1>9. f[1] = kept[1] /\ f[2] = f[1] \o kept[2] /\ \A k \in 3..n : f[k] = f[k-1] \o kept[k]
  <2> HIDE DEF n
  <2>1. \A k \in 1..n : f[k] = IF k = 1 THEN kept[k] ELSE f[k-1] \o kept[k]
    BY <1>8 DEF Joins
  <2>2. f[1] = kept[1] /\ f[2] = f[2-1] \o kept[2]
    BY <1>0, <2>1
  <2>3. \A k \in 3..n : f[k] = f[k-1] \o kept[k]
    BY <1>0, <2>1
  <2>4. 2 - 1 = 1
    OBVIOUS
  <2> QED BY <2>2, <2>3, <2>4
<1> DEFINE Fine(q) == /\ q \in Seq(Parts) /\ Private(q)
                      /\ \A k \in 1..Len(q) : q[k] = "struct" => i > 1
           Open(q) == Fine(q) /\ \E m \in 1..Len(q) : q[m] = "priv"
<1>10. Fine(f[1])
  <2>1. f[1] = kept[1]
    BY <1>9
  <2>2. CASE f[1] = <<>>
    BY <2>2 DEF Private
  <2>3. CASE i > 1 /\ f[1] = <<"struct">>
    BY <2>3 DEF Private, Parts
  <2> QED BY <1>3, <2>1, <2>2, <2>3
<1>11. Open(f[2])
  <2>1. f[2] = f[1] \o <<"priv">>
    BY <1>4, <1>9
  <2>2. <<"priv">> \in Seq(Parts) /\ Private(<<"priv">>)
    BY DEF Private, Parts
  <2>3. Private(f[2])
    BY <1>10, <2>1, <2>2, PrivateJoins
  <2>4. /\ Len(f[1]) \in Nat /\ Len(f[2]) = Len(f[1]) + 1 /\ f[2] \in Seq(Parts)
        /\ \A k \in 1..Len(f[1]) : f[2][k] = f[1][k]
        /\ f[2][Len(f[1]) + 1] = "priv"
        /\ \A k \in 1..Len(f[2]) : k \in 1..Len(f[1]) \/ k = Len(f[1]) + 1
    <3>1. f[1] \in Seq(Parts) /\ "priv" \in Parts
      BY <1>10 DEF Parts
    <3> QED BY <2>1, <3>1, OneMore
  <2> HIDE DEF Fine
  <2>5. \A k \in 1..Len(f[1]) : f[1][k] = "struct" => i > 1
    BY <1>10 DEF Fine
  <2>6. \A k \in 1..Len(f[2]) : f[2][k] = "struct" => i > 1
    <3> TAKE k \in 1..Len(f[2])
    <3>1. CASE k \in 1..Len(f[1])
      BY <2>4, <2>5, <3>1
    <3>2. CASE k = Len(f[1]) + 1
      BY <2>4, <3>2
    <3> QED BY <2>4, <3>1, <3>2
  <2> QED BY <2>3, <2>4, <2>6 DEF Fine
<1>12. ASSUME NEW k \in 3..n, Open(f[k-1])
       PROVE  Open(f[k])
  <2> DEFINE q == f[k-1]
  <2>1. f[k] = q \o kept[k]
    BY <1>9
  <2>2. CASE kept[k] = <<>>
    BY <1>12, <2>1, <2>2, ConcatEmptySeq
  <2>3. ASSUME NEW p \in Parts \ {"struct"}, kept[k] = <<p>>
        PROVE  Open(f[k])
    <3>1. <<p>> \in Seq(Parts) /\ q \in Seq(Parts)
      BY <1>12, <2>3
    <3>2. PICK m \in 1..Len(q) : q[m] = "priv"
      BY <1>12
    <3> HIDE DEF q
    <3>3. Private(f[k])
      BY <1>12, <2>1, <2>3, <3>1, <3>2, PrivateJoins DEF q
    <3>4. /\ Len(q) \in Nat /\ Len(f[k]) = Len(q) + 1 /\ f[k] \in Seq(Parts)
          /\ \A x \in 1..Len(q) : f[k][x] = q[x]
          /\ f[k][Len(q) + 1] = p
          /\ \A x \in 1..Len(f[k]) : x \in 1..Len(q) \/ x = Len(q) + 1
      <4>1. p \in Parts /\ q \in Seq(Parts) /\ f[k] = q \o <<p>>
        BY <2>1, <2>3, <3>1 DEF q
      <4> QED BY <4>1, OneMore
    <3>5. \A x \in 1..Len(q) : q[x] = "struct" => i > 1
      BY <1>12 DEF q
    <3>6. \A x \in 1..Len(f[k]) : f[k][x] = "struct" => i > 1
      <4> TAKE x \in 1..Len(f[k])
      <4>1. CASE x \in 1..Len(q)
        BY <3>4, <3>5, <4>1
      <4>2. CASE x = Len(q) + 1
        BY <2>3, <3>4, <4>2
      <4> QED BY <3>4, <4>1, <4>2
    <3>7. f[k][m] = "priv" /\ m \in 1..Len(f[k])
      BY <3>2, <3>4
    <3> QED BY <3>3, <3>4, <3>6, <3>7
  <2> QED BY <1>5, <2>2, <2>3
<1> HIDE DEF Open
<1>13. Open(f[3]) /\ Open(f[4])
  <2>1. 3 \in 3..n /\ 4 \in 3..n /\ 3 - 1 = 2 /\ 4 - 1 = 3
    BY <1>1
  <2> QED BY <1>11, <1>12, <2>1
<1>14. n = 6 => Open(f[5]) /\ Open(f[6])
  <2>1. n = 6 => 5 \in 3..n /\ 6 \in 3..n
    OBVIOUS
  <2>2. 5 - 1 = 4 /\ 6 - 1 = 5
    OBVIOUS
  <2> QED BY <1>12, <1>13, <2>1, <2>2
<1>15. Open(s)
  BY <1>1, <1>6, <1>8, <1>13, <1>14
<1> QED BY <1>15 DEF Open

\* Of every node, what is built of it comes after the private data of those before
\* it and, but for its structure, after its own.
Rooted(s, of, last) ==
  \A k \in 1..Len(s) :
    s[k].of = of =>
      /\ s[k].node \in 1..last
      /\ s[k].part = "struct" => s[k].node > 1
      /\ \A j \in 1..s[k].node :
           j < s[k].node \/ s[k].part # "struct" => \E m \in 1..k : s[m] = Block(of, j, "priv")

RootedAll(s, of, last) ==
  /\ s \in Seq(Blocks) /\ Rooted(s, of, last)
  /\ \A k \in 1..Len(s) : s[k].of = of
  /\ \A j \in 1..last : \E m \in 1..Len(s) : s[m] = Block(of, j, "priv")

LEMMA RootedNone ==
  ASSUME NEW s, NEW of, NEW last, \A k \in 1..Len(s) : s[k].of # of
  PROVE  Rooted(s, of, last)
BY DEF Rooted

LEMMA RootedJoins ==
  ASSUME NEW s \in Seq(Blocks), NEW t \in Seq(Blocks), NEW of, NEW last,
         Rooted(s, of, last), Rooted(t, of, last)
  PROVE  Rooted(s \o t, of, last)
<1> DEFINE st == s \o t
<1>1. /\ Len(s) \in Nat /\ Len(t) \in Nat /\ Len(st) = Len(s) + Len(t)
      /\ \A k \in 1..Len(s) : st[k] = s[k]
      /\ \A k \in 1..Len(t) : st[Len(s) + k] = t[k]
  BY JoinIs
<1> HIDE DEF st
<1>2. ASSUME NEW k \in 1..Len(st), st[k].of = of
      PROVE  /\ st[k].node \in 1..last
             /\ st[k].part = "struct" => st[k].node > 1
             /\ \A j \in 1..st[k].node :
                  j < st[k].node \/ st[k].part # "struct" =>
                    \E m \in 1..k : st[m] = Block(of, j, "priv")
  <2>1. CASE k <= Len(s)
    <3>1. k \in 1..Len(s) /\ \A m \in 1..k : m \in 1..Len(s)
      BY <1>1, <2>1
    <3>2. st[k] = s[k] /\ \A m \in 1..k : st[m] = s[m]
      BY <1>1, <3>1
    <3>3. /\ s[k].node \in 1..last /\ (s[k].part = "struct" => s[k].node > 1)
          /\ \A j \in 1..s[k].node :
               j < s[k].node \/ s[k].part # "struct" => \E m \in 1..k : s[m] = Block(of, j, "priv")
      BY <1>2, <3>1, <3>2 DEF Rooted
    <3>4. ASSUME NEW j \in 1..s[k].node, j < s[k].node \/ s[k].part # "struct"
          PROVE  \E m \in 1..k : st[m] = Block(of, j, "priv")
      BY <3>2, <3>3, <3>4
    <3> QED BY <3>2, <3>3, <3>4
  <2>2. CASE k > Len(s)
    <3> DEFINE x == k - Len(s)
    <3>1. x \in 1..Len(t) /\ k = Len(s) + x /\ st[k] = t[x]
      BY <1>1, <2>2
    <3>2. \A m \in 1..x : m \in 1..Len(t) /\ Len(s) + m \in 1..k
      BY <1>1, <3>1
    <3> HIDE DEF x
    <3>3. /\ t[x].node \in 1..last /\ (t[x].part = "struct" => t[x].node > 1)
          /\ \A j \in 1..t[x].node :
               j < t[x].node \/ t[x].part # "struct" => \E m \in 1..x : t[m] = Block(of, j, "priv")
      BY <1>2, <3>1 DEF Rooted
    <3>4. ASSUME NEW j \in 1..t[x].node, j < t[x].node \/ t[x].part # "struct"
          PROVE  \E m \in 1..k : st[m] = Block(of, j, "priv")
      <4>1. PICK m \in 1..x : t[m] = Block(of, j, "priv")
        BY <3>3, <3>4
      <4>2. st[Len(s) + m] = t[m] /\ Len(s) + m \in 1..k
        BY <1>1, <3>2
      <4> QED BY <4>1, <4>2
    <3> QED BY <3>1, <3>3, <3>4
  <2> QED BY <1>1, <2>1, <2>2
<1> QED BY <1>2 DEF Rooted, st

\* What is built of one node.
OfNode(t, of, i) ==
  /\ \A k \in 1..Len(t) :
       /\ t[k].of = of /\ t[k].node = i
       /\ t[k].part = "struct" => i > 1
       /\ t[k].part # "struct" => \E m \in 1..k : t[m] = Block(of, i, "priv")
  /\ \E m \in 1..Len(t) : t[m] = Block(of, i, "priv")

LEMMA RootedNode ==
  ASSUME NEW of, NEW n \in Nat, NEW s, RootedAll(s, of, n),
         NEW t \in Seq(Blocks), OfNode(t, of, n + 1), NEW st, st = s \o t
  PROVE  RootedAll(st, of, n + 1)
<1>0. s \in Seq(Blocks)
  BY DEF RootedAll
<1>1. /\ st \in Seq(Blocks)
      /\ Len(s) \in Nat /\ Len(t) \in Nat /\ Len(st) = Len(s) + Len(t)
      /\ \A k \in 1..Len(s) : st[k] = s[k]
      /\ \A k \in 1..Len(t) : st[Len(s) + k] = t[k]
  BY <1>0, JoinIs
<1>2. ASSUME NEW j \in 1..n
      PROVE  \E m \in 1..Len(s) : st[m] = Block(of, j, "priv")
  BY <1>1 DEF RootedAll
<1>3. \E m \in 1..Len(st) : st[m] = Block(of, n + 1, "priv")
  <2>1. PICK m \in 1..Len(t) : t[m] = Block(of, n + 1, "priv")
    BY DEF OfNode
  <2>2. st[Len(s) + m] = Block(of, n + 1, "priv") /\ Len(s) + m \in 1..Len(st)
    BY <1>1, <2>1
  <2> QED BY <2>2
<1> DEFINE Follows(b, k) ==
             /\ b.node \in 1..(n + 1)
             /\ b.part = "struct" => b.node > 1
             /\ \A j \in 1..b.node :
                  j < b.node \/ b.part # "struct" =>
                    \E m \in 1..k : st[m] = Block(of, j, "priv")
<1>4. ASSUME NEW k \in 1..Len(st), st[k].of = of
      PROVE  Follows(st[k], k)
  <2> HIDE DEF Follows
  <2>1. CASE k <= Len(s)
    <3>1. k \in 1..Len(s) /\ \A m \in 1..k : m \in 1..Len(s)
      BY <1>1, <2>1
    <3>2. st[k] = s[k] /\ \A m \in 1..k : st[m] = s[m]
      BY <1>1, <3>1
    <3>3. /\ s[k].node \in 1..n
          /\ s[k].part = "struct" => s[k].node > 1
          /\ \A j \in 1..s[k].node :
               j < s[k].node \/ s[k].part # "struct" =>
                 \E m \in 1..k : s[m] = Block(of, j, "priv")
      BY <1>4, <3>1, <3>2 DEF RootedAll, Rooted
    <3>4. ASSUME NEW j \in 1..s[k].node, j < s[k].node \/ s[k].part # "struct"
          PROVE  \E m \in 1..k : st[m] = Block(of, j, "priv")
      BY <3>2, <3>3, <3>4
    <3>5. s[k].node \in 1..(n + 1)
      BY <3>3
    <3>6. Follows(s[k], k)
      BY <3>3, <3>4, <3>5 DEF Follows
    <3> QED BY <3>2, <3>6
  <2>2. CASE k > Len(s)
    <3> DEFINE x == k - Len(s)
    <3>1. x \in 1..Len(t) /\ k = Len(s) + x
      BY <1>1, <2>2
    <3>2. /\ \A m \in 1..x : m \in 1..Len(t) /\ Len(s) + m \in 1..k
          /\ \A m \in 1..Len(s) : m \in 1..k
      BY <1>1, <2>2, <3>1
    <3> HIDE DEF x
    <3>3. st[k] = t[x]
      BY <1>1, <3>1
    <3>4. /\ st[k].node = n + 1 /\ (st[k].part = "struct" => n + 1 > 1)
          /\ st[k].part # "struct" => \E m \in 1..x : t[m] = Block(of, n + 1, "priv")
      BY <3>1, <3>3 DEF OfNode
    <3>5. ASSUME NEW j \in 1..(n + 1), j < n + 1 \/ st[k].part # "struct"
          PROVE  \E m \in 1..k : st[m] = Block(of, j, "priv")
      <4>1. CASE j \in 1..n
        BY <1>2, <3>2, <4>1
      <4>2. CASE j = n + 1
        <5>1. PICK m \in 1..x : t[m] = Block(of, n + 1, "priv")
          BY <3>4, <3>5, <4>2
        <5>2. st[Len(s) + m] = Block(of, n + 1, "priv")
          BY <1>1, <3>2, <5>1
        <5> QED BY <3>2, <4>2, <5>2
      <4> QED BY <4>1, <4>2
    <3>6. n + 1 \in 1..(n + 1)
      OBVIOUS
    <3>7. Follows(st[k], k)
      BY <3>4, <3>5, <3>6 DEF Follows
    <3> QED BY <3>7
  <2> QED BY <1>1, <2>1, <2>2
<1>5. \A j \in 1..(n + 1) : \E m \in 1..Len(st) : st[m] = Block(of, j, "priv")
  <2> TAKE j \in 1..(n + 1)
  <2>1. j \in 1..n \/ j = n + 1
    OBVIOUS
  <2>2. \A m \in 1..Len(s) : m \in 1..Len(st)
    BY <1>1
  <2> QED BY <1>2, <1>3, <2>1, <2>2
<1>6. \A k \in 1..Len(st) : st[k].of = of
  <2> TAKE k \in 1..Len(st)
  <2>1. CASE k <= Len(s)
    BY <1>1, <2>1 DEF RootedAll
  <2>2. CASE k > Len(s)
    <3> DEFINE x == k - Len(s)
    <3>1. x \in 1..Len(t) /\ k = Len(s) + x
      BY <1>1, <2>2
    <3> HIDE DEF x
    <3> QED BY <1>1, <3>1 DEF OfNode
  <2> QED BY <1>1, <2>1, <2>2
<1> QED BY <1>1, <1>4, <1>5, <1>6 DEF RootedAll, Rooted

\* A tree is built parents first, and so is all there is at any moment.
LEMMA TreeRooted ==
  ASSUME NEW of \in {"schema", "array"}, NEW parts \in {SchemaParts, ArrayParts},
         NEW tree \in Seq(TreeNode), NEW p, p = TreePlan(of, parts, tree)
  PROVE  Rooted(p, of, Len(tree)) /\ \A k \in 1..Len(p) : p[k].of = of
<1> DEFINE n == Len(tree)
           mine(i) == PartsOf(parts, tree, i)
           asked(i) == [k \in DOMAIN mine(i) |-> Block(of, i, mine(i)[k])]
           all == [i \in DOMAIN tree |-> asked(i)]
<1>1. n \in Nat /\ DOMAIN tree = 1..n /\ Len(all) = n
  <2> HIDE DEF asked
  <2> QED OBVIOUS
<1>2. parts \in Seq(Parts)
  <2>1. SchemaParts \in Seq(Parts) /\ ArrayParts \in Seq(Parts)
    BY DEF SchemaParts, ArrayParts, Parts
  <2> QED BY <2>1
<1>3. ASSUME NEW i \in 1..n
      PROVE  all[i] \in Seq(Blocks) /\ OfNode(all[i], of, i)
  <2> DEFINE m == mine(i)
  <2>1. m \in Seq(Parts)
    BY <1>2, PartsType
  <2>2. /\ Private(m) /\ (\E x \in 1..Len(m) : m[x] = "priv")
        /\ \A k \in 1..Len(m) : m[k] = "struct" => i > 1
    BY PartsPrivate, Zenon
  <2>3. all[i] = [k \in DOMAIN m |-> Block(of, i, m[k])]
    BY <1>1
  <2> DEFINE t == all[i]
  <2> HIDE DEF m, all
  <2>4. \A k \in 1..Len(m) : Block(of, i, m[k]) \in Blocks
    BY <1>1, <2>1 DEF Block, Blocks
  <2>5. /\ t \in Seq(Blocks) /\ Len(t) = Len(m)
        /\ \A k \in 1..Len(m) : t[k] = Block(of, i, m[k])
    BY <2>1, <2>3, <2>4
  <2> HIDE DEF t
  <2>6. ASSUME NEW k \in 1..Len(t)
        PROVE  /\ t[k].of = of /\ t[k].node = i
               /\ t[k].part = "struct" => i > 1
               /\ t[k].part # "struct" => \E x \in 1..k : t[x] = Block(of, i, "priv")
    <3>0. t[k] = Block(of, i, m[k])
      BY <2>5
    <3>1. t[k].of = of /\ t[k].node = i /\ t[k].part = m[k]
      BY <3>0 DEF Block
    <3>2. ASSUME m[k] # "struct" PROVE \E x \in 1..k : t[x] = Block(of, i, "priv")
      <4>1. PICK x \in 1..k : m[x] = "priv"
        BY <2>2, <2>5, <3>2 DEF Private
      <4>2. x \in 1..Len(m)
        BY <2>1, <2>5
      <4> QED BY <2>5, <4>1, <4>2
    <3> QED BY <2>2, <2>5, <3>1, <3>2
  <2>7. \E x \in 1..Len(t) : t[x] = Block(of, i, "priv")
    BY <2>2, <2>5
  <2>8. OfNode(t, of, i)
    BY <2>6, <2>7 DEF OfNode
  <2> QED BY <2>5, <2>8 DEF t
<1>4. TreePlan(of, parts, tree) = FlattenSeq(all)
  BY Zenon DEF TreePlan
<1> HIDE DEF mine, asked, all
<1>5. CASE n = 0
  <2>1. FlattenSeq(all) = all /\ Len(all) = 0
    BY <1>1, <1>5 DEF FlattenSeq
  <2> QED BY <1>4, <2>1 DEF Rooted
<1>6. CASE n # 0
  <2> HIDE DEF n
  <2>1. PICK f : Joins(f, all, n) /\ FlattenSeq(all) = f[n]
    BY <1>1, <1>6, FlattenJoins
  <2>2. \A i \in 1..n : f[i] = IF i = 1 THEN all[i] ELSE f[i-1] \o all[i]
    BY <2>1 DEF Joins
  <2> DEFINE Bad == {i \in 1..n : ~RootedAll(f[i], of, i)}
  <2>3. ASSUME Bad # {} PROVE FALSE
    <3>1. Bad \in SUBSET Nat
      BY <1>1
    <3>2. PICK k \in Bad : \A j \in Bad : k <= j
      <4> HIDE DEF Bad
      <4> QED BY <2>3, <3>1, Least
    <3>3. k \in 1..n /\ k \in Nat /\ ~RootedAll(f[k], of, k)
      BY <1>1, <3>2
    <3> DEFINE q == IF k = 1 THEN <<>> ELSE f[k-1]
               l == k - 1
    <3>4. l \in Nat /\ k = l + 1
      BY <3>3
    <3>5. RootedAll(q, of, l)
      <4>1. CASE k = 1
        <5>1. q = <<>> /\ l = 0
          BY <4>1
        <5> HIDE DEF q, l
        <5>2. Len(q) = 0 /\ q \in Seq(Blocks)
          BY <5>1
        <5> QED BY <5>1, <5>2 DEF RootedAll, Rooted
      <4>2. CASE k # 1
        <5>1. l \in 1..n /\ l \notin Bad
          BY <1>1, <3>2, <3>3, <4>2
        <5> QED BY <4>2, <5>1
      <4> QED BY <4>1, <4>2
    <3>6. f[k] = q \o all[k]
      <4>1. CASE k = 1
        <5>1. f[k] = all[k] /\ all[k] \in Seq(Blocks) /\ q = <<>>
          BY <1>3, <2>2, <3>3, <4>1
        <5> HIDE DEF q
        <5> QED BY <5>1
      <4>2. CASE k # 1
        BY <2>2, <3>3, <4>2
      <4> QED BY <4>1, <4>2
    <3> HIDE DEF q, l, Bad
    <3>7. RootedAll(f[k], of, l + 1)
      BY <1>3, <3>3, <3>4, <3>5, <3>6, RootedNode
    <3> QED BY <3>3, <3>4, <3>7
  <2>4. n \in 1..n
    BY <1>1, <1>6
  <2>5. RootedAll(f[n], of, n)
    BY <2>3, <2>4
  <2> QED BY <1>4, <2>1, <2>5 DEF RootedAll, n
<1> QED BY <1>5, <1>6

LEMMA PlanRooted ==
  ASSUME NEW sh \in Shapes, NEW st, NEW p, p = PlanFor(sh, st)
  PROVE  /\ p \in Seq(Blocks)
         /\ Rooted(p, "schema", Len(sh.schema)) /\ Rooted(p, "array", Len(sh.array))
         /\ sh.blocks # 0 => Len(p) > 0 /\ p[1] = Table
         /\ st => \A k \in 1..Len(p) : p[k].of # "schema"
<1>1. sh.blocks \in Nat /\ sh.schema \in Seq(TreeNode) /\ sh.array \in Seq(TreeNode)
  BY ShapesAssumption
<1>2. SchemaParts \in Seq(Parts) /\ ArrayParts \in Seq(Parts)
  BY DEF SchemaParts, ArrayParts, Parts
<1> DEFINE one == <<Table>>
           bytes == [k \in 1..sh.blocks |-> Block("backing", k, "bytes")]
           c == IF sh.blocks = 0 THEN <<>> ELSE one \o bytes
           a == IF st THEN <<>> ELSE TreePlan("schema", SchemaParts, sh.schema)
           b == TreePlan("array", ArrayParts, sh.array)
           ca == c \o a
<1>3. /\ c \in Seq(Blocks) /\ \A k \in 1..Len(c) : c[k].of = "backing"
      /\ sh.blocks # 0 => Len(c) > 0 /\ c[1] = Table
  <2>1. CASE sh.blocks = 0
    <3>1. c = <<>>
      BY <2>1
    <3> HIDE DEF c
    <3> QED BY <2>1, <3>1
  <2>2. CASE sh.blocks # 0
    <3>1. one \in Seq(Blocks) /\ Len(one) = 1 /\ one[1] = Table /\ Table.of = "backing"
      BY DEF Table, Block, Blocks
    <3>2. /\ bytes \in Seq(Blocks) /\ Len(bytes) = sh.blocks
          /\ \A k \in 1..sh.blocks : bytes[k] = Block("backing", k, "bytes")
      <4>1. \A k \in 1..sh.blocks : Block("backing", k, "bytes") \in Blocks
        BY <1>1 DEF Block, Blocks
      <4> QED BY <1>1, <4>1
    <3>3. c = one \o bytes
      BY <2>2
    <3> HIDE DEF one, bytes, c
    <3>4. ASSUME NEW k \in 1..sh.blocks PROVE bytes[k].of = "backing"
      <4>1. bytes[k] = Block("backing", k, "bytes")
        BY <3>2
      <4> QED BY <4>1 DEF Block
    <3>5. /\ c \in Seq(Blocks) /\ Len(c) = 1 + sh.blocks /\ c[1] = Table
          /\ \A k \in 1..sh.blocks : c[1 + k] = bytes[k]
      <4>1. one \in Seq(Blocks) /\ bytes \in Seq(Blocks)
        BY <3>1, <3>2
      <4>2. /\ c \in Seq(Blocks) /\ Len(c) = Len(one) + Len(bytes)
            /\ \A k \in 1..Len(one) : c[k] = one[k]
            /\ \A k \in 1..Len(bytes) : c[Len(one) + k] = bytes[k]
        BY <3>3, <4>1, JoinIs
      <4>3. Len(one) = 1 /\ one[1] = Table /\ Len(bytes) = sh.blocks /\ 1 \in 1..Len(one)
        BY <3>1, <3>2
      <4> QED BY <4>2, <4>3
    <3>6. \A k \in 1..Len(c) : k = 1 \/ (k - 1 \in 1..sh.blocks /\ 1 + (k - 1) = k)
      BY <1>1, <3>5
    <3>7. c[1].of = "backing"
      BY <3>1, <3>5
    <3>8. ASSUME NEW k \in 1..Len(c) PROVE c[k].of = "backing"
      <4>1. CASE k - 1 \in 1..sh.blocks /\ 1 + (k - 1) = k
        <5>1. c[k] = bytes[k - 1]
          BY <3>5, <4>1
        <5> QED BY <3>4, <4>1, <5>1
      <4> QED BY <3>6, <3>7, <4>1
    <3>9. Len(c) > 0
      BY <1>1, <3>5
    <3> QED BY <3>5, <3>8, <3>9
  <2> QED BY <2>1, <2>2
<1>4. /\ a \in Seq(Blocks) /\ Rooted(a, "schema", Len(sh.schema))
      /\ \A k \in 1..Len(a) : a[k].of = "schema"
      /\ st => Len(a) = 0
  <2>1. CASE st
    <3>1. a = <<>>
      BY <2>1
    <3> HIDE DEF a
    <3> QED BY <3>1 DEF Rooted
  <2>2. CASE ~st
    <3>1. a = TreePlan("schema", SchemaParts, sh.schema)
      BY <2>2
    <3> HIDE DEF a
    <3> QED BY <1>1, <1>2, <2>2, <3>1, TreePlanType, TreeRooted
  <2> QED BY <2>1, <2>2
<1>5. /\ b \in Seq(Blocks) /\ Rooted(b, "array", Len(sh.array))
      /\ \A k \in 1..Len(b) : b[k].of = "array"
  <2>1. b = TreePlan("array", ArrayParts, sh.array)
    OBVIOUS
  <2> HIDE DEF b
  <2> QED BY <1>1, <1>2, <2>1, TreePlanType, TreeRooted
<1>6. p = ca \o b
  BY DEF PlanFor
<1> HIDE DEF a, b, c
<1>7. /\ ca \in Seq(Blocks) /\ Len(c) \in Nat /\ Len(a) \in Nat /\ Len(ca) = Len(c) + Len(a)
      /\ \A k \in 1..Len(c) : ca[k] = c[k]
  BY <1>3, <1>4, JoinIs
<1>8. Rooted(ca, "schema", Len(sh.schema)) /\ Rooted(ca, "array", Len(sh.array))
  <2>1. Rooted(c, "schema", Len(sh.schema)) /\ Rooted(c, "array", Len(sh.array))
    BY <1>3, RootedNone
  <2>2. Rooted(a, "array", Len(sh.array))
    BY <1>4, RootedNone
  <2> QED BY <1>3, <1>4, <2>1, <2>2, RootedJoins
<1> HIDE DEF ca
<1>9. /\ p \in Seq(Blocks) /\ Len(b) \in Nat /\ Len(p) = Len(ca) + Len(b)
      /\ \A k \in 1..Len(ca) : p[k] = ca[k]
      /\ \A k \in 1..Len(b) : p[Len(ca) + k] = b[k]
  <2>1. ca \in Seq(Blocks) /\ b \in Seq(Blocks)
    BY <1>5, <1>7
  <2> QED BY <1>6, <2>1, JoinIs
<1>10. Rooted(p, "schema", Len(sh.schema)) /\ Rooted(p, "array", Len(sh.array))
  <2>1. Rooted(b, "schema", Len(sh.schema))
    BY <1>5, RootedNone
  <2> QED BY <1>5, <1>6, <1>7, <1>8, <2>1, RootedJoins
<1>11. sh.blocks # 0 => Len(p) > 0 /\ p[1] = Table
  BY <1>3, <1>7, <1>9
<1>12. ASSUME st, NEW k \in 1..Len(p)
       PROVE  p[k].of # "schema"
  <2>1. Len(a) = 0 /\ Len(ca) = Len(c)
    BY <1>4, <1>7, <1>12
  <2>2. CASE k <= Len(c)
    <3>1. k \in 1..Len(c) /\ k \in 1..Len(ca)
      BY <1>7, <2>1, <2>2
    <3> QED BY <1>3, <1>7, <1>9, <3>1
  <2>3. CASE k > Len(c)
    <3> DEFINE x == k - Len(ca)
    <3>1. x \in 1..Len(b) /\ k = Len(ca) + x
      BY <1>7, <1>9, <2>1, <2>3
    <3> HIDE DEF x
    <3> QED BY <1>5, <1>9, <3>1
  <2> QED BY <1>7, <2>2, <2>3
<1> QED BY <1>9, <1>10, <1>11, <1>12

-----------------------------------------------------------------------------
(* Where the undoing ends. *)

\* A release goes over all there is of a tree.
LEMMA FreesAll ==
  ASSUME NEW of, NEW tree \in Seq(TreeNode), NEW plan \in Seq(Blocks), NEW n \in 0..Len(plan),
         heap = {plan[k] : k \in 1..n}, Rooted(plan, of, Len(tree)),
         \A i \in 2..Len(tree) : tree[i].parent \in 1..(i-1)
  PROVE  TreeFrees(of, tree) = {b \in heap : b.of = of}
<1> DEFINE D == 1..Len(tree)
           F(h) == [i \in D |-> Armed(of, i) /\ (i = 1 \/ h[tree[i].parent])]
           r == CHOOSE h : h = F(h)
           a == [i \in D |-> Armed(of, i)]
<1>1. Len(tree) \in Nat /\ Len(plan) \in Nat /\ DOMAIN tree = D /\ n \in Nat
  OBVIOUS
<1>2. ASSUME NEW k \in 1..n, plan[k].of = of
      PROVE  /\ plan[k].node \in D /\ (plan[k].part = "struct" => plan[k].node > 1)
             /\ \A j \in 1..plan[k].node :
                  j < plan[k].node \/ plan[k].part # "struct" => Armed(of, j)
  <2>1. k \in 1..Len(plan) /\ \A m \in 1..k : m \in 1..n
    BY <1>1
  <2>2. /\ plan[k].node \in D /\ (plan[k].part = "struct" => plan[k].node > 1)
        /\ \A j \in 1..plan[k].node :
             j < plan[k].node \/ plan[k].part # "struct" =>
               \E m \in 1..k : plan[m] = Block(of, j, "priv")
    BY <1>2, <2>1 DEF Rooted
  <2>3. ASSUME NEW j \in 1..plan[k].node, j < plan[k].node \/ plan[k].part # "struct"
        PROVE  Armed(of, j)
    <3>1. PICK m \in 1..k : plan[m] = Block(of, j, "priv")
      BY <2>2, <2>3
    <3>2. plan[m] \in heap
      BY <2>1
    <3> QED BY <3>1, <3>2 DEF Armed
  <2> QED BY <2>2, <2>3
\* Whoever is armed has all before it armed, its parent among them.
<1>3. ASSUME NEW i \in D, Armed(of, i), i # 1
      PROVE  tree[i].parent \in D /\ tree[i].parent < i /\ Armed(of, tree[i].parent)
  <2>1. PICK k \in 1..n : plan[k] = Block(of, i, "priv")
    BY <1>3 DEF Armed
  <2>2. plan[k].of = of /\ plan[k].node = i
    BY <2>1 DEF Block
  <2>3. i \in 2..Len(tree)
    BY <1>1, <1>3
  <2>4. tree[i].parent \in 1..(i-1)
    BY <2>3
  <2>5. tree[i].parent \in 1..i /\ tree[i].parent \in D /\ tree[i].parent < i
    BY <1>1, <2>3, <2>4
  <2> QED BY <1>2, <2>2, <2>5
<1>4. Reached(of, tree) = {i \in D : r[i]}
  BY <1>1, Zenon DEF Reached
<1>5. a = F(a)
  <2>1. \A i \in D : a[i] <=> Armed(of, i)
    BY Zenon
  <2>2. \A i \in D : (Armed(of, i) /\ (i = 1 \/ a[tree[i].parent])) <=> Armed(of, i)
    BY <1>3, <2>1, Zenon
  <2>3. \A i \in D : (Armed(of, i) /\ (i = 1 \/ a[tree[i].parent])) = Armed(of, i)
    <3> TAKE i \in D
    <3> DEFINE P == Armed(of, i)
               Q == i = 1 \/ a[tree[i].parent]
    <3>1. P \in BOOLEAN /\ Q \in BOOLEAN
      BY DEF Armed
    <3>2. (P /\ Q) <=> P
      BY <2>2, Zenon
    <3> HIDE DEF P, Q
    <3>3. (P /\ Q) = P
      BY <3>1, <3>2
    <3> QED BY <3>3 DEF P, Q
  <2> QED BY <2>3, Zenon
<1>6. r = F(r)
  BY <1>5, Zenon
<1> HIDE DEF r, a
<1>7. \A i \in D : r[i] <=> Armed(of, i) /\ (i = 1 \/ r[tree[i].parent])
  BY <1>6, Zenon
<1>8. \A i \in D : Armed(of, i) => r[i]
  <2> DEFINE Bad == {i \in D : Armed(of, i) /\ ~r[i]}
  <2>1. SUFFICES ASSUME Bad # {} PROVE FALSE
    BY Zenon
  <2>2. Bad \in SUBSET Nat
    BY <1>1
  <2>3. PICK i \in Bad : \A j \in Bad : i <= j
    <3> HIDE DEF Bad
    <3> QED BY <2>1, <2>2, Least
  <2>4. i \in D /\ Armed(of, i) /\ ~r[i]
    BY <2>3
  <2>5. i # 1 /\ ~r[tree[i].parent]
    BY <1>7, <2>4, Zenon
  <2>6. tree[i].parent \in D /\ tree[i].parent < i /\ Armed(of, tree[i].parent)
    BY <1>3, <2>4, <2>5
  <2>7. tree[i].parent \in Bad
    BY <2>5, <2>6, Zenon
  <2>8. i <= tree[i].parent
    BY <2>3, <2>7, Zenon
  <2> QED BY <2>4, <2>6, <2>8
<1>9. \A i \in D : Armed(of, i) => i \in Reached(of, tree)
  BY <1>4, <1>8, Zenon
<1>10. ASSUME NEW b \in heap, b.of = of
       PROVE  IF b.part = "struct" THEN tree[b.node].parent \in Reached(of, tree)
                                   ELSE b.node \in Reached(of, tree)
  <2>1. PICK k \in 1..n : b = plan[k]
    OBVIOUS
  <2>2. /\ b.node \in D /\ (b.part = "struct" => b.node > 1)
        /\ \A j \in 1..b.node : j < b.node \/ b.part # "struct" => Armed(of, j)
    BY <1>2, <1>10, <2>1
  <2>3. CASE b.part = "struct"
    <3> DEFINE i == b.node
               up == tree[i].parent
    <3>1. i \in 2..Len(tree) /\ i \in D /\ i \in Nat
      BY <1>1, <2>2, <2>3
    <3>2. up \in 1..(i-1)
      BY <3>1
    <3> HIDE DEF up
    <3>3. up \in 1..i /\ up < i /\ up \in D
      BY <1>1, <3>1, <3>2
    <3> QED BY <1>9, <2>2, <2>3, <3>3 DEF up
  <2>4. CASE b.part # "struct"
    <3>1. b.node \in 1..b.node
      BY <1>1, <2>2
    <3> QED BY <1>9, <2>2, <2>4, <3>1
  <2> QED BY <2>3, <2>4
<1> QED BY <1>10, Zenon DEF TreeFrees

\* Nothing is lost before the undoing, and the undoing is exact.
CleanInv ==
  /\ outcome \in {"building", "failing", "built"} => heap = {Plan[k] : k \in 1..at}
  /\ CleanupExact

LEMMA UndoCleans ==
  ASSUME ConTypeOK, CleanInv, Undo
  PROVE  CleanInv'
<1> DEFINE plan == Plan
<1>1. /\ shape \in Shapes /\ plan = PlanFor(shape, stream) /\ at \in 0..Len(plan)
      /\ stream \in BOOLEAN /\ twice \in BOOLEAN
  BY DEF ConTypeOK, Plan, BackingPlan, PlanFor
<1>2. /\ shape.blocks \in Nat /\ shape.schema \in Seq(TreeNode) /\ shape.array \in Seq(TreeNode)
      /\ \A i \in 2..Len(shape.schema) : shape.schema[i].parent \in 1..(i-1)
      /\ \A i \in 2..Len(shape.array) : shape.array[i].parent \in 1..(i-1)
  BY <1>1, ShapesAssumption
<1>3. /\ shape' = shape /\ stream' = stream /\ at' = at
      /\ outcome' \in {"crashed", "failed"}
  BY DEF Undo
<1>4. Plan' = plan /\ HasArray' = HasArray
  <2>1. Plan' = Plan
    BY <1>3 DEF Plan, BackingPlan
  <2> QED BY <1>3, <2>1 DEF HasArray
<1>5. heap = {plan[k] : k \in 1..at}
  BY DEF Undo, CleanInv
<1> HIDE DEF plan
<1>6. /\ plan \in Seq(Blocks)
      /\ Rooted(plan, "schema", Len(shape.schema)) /\ Rooted(plan, "array", Len(shape.array))
      /\ shape.blocks # 0 => Len(plan) > 0 /\ plan[1] = Table
      /\ stream => \A k \in 1..Len(plan) : plan[k].of # "schema"
  BY <1>1, PlanRooted
<1>7. Range(SubSeq(plan, 1, at)) = heap
  BY <1>1, <1>5, <1>6, EarlyIs
<1>8. heap \subseteq Range(plan) /\ heap \subseteq Blocks
  <2>1. \A k \in 1..at : k \in DOMAIN plan /\ plan[k] \in Blocks
    BY <1>1, <1>6
  <2> QED BY <1>5, <2>1 DEF Range
<1>9. shape.blocks > 0 => (Table \notin heap <=> at = 0)
  <2>1. at = 0 => heap = {}
    BY <1>5
  <2>2. shape.blocks > 0 /\ at # 0 => Table \in heap
    <3>1. at # 0 => 1 \in 1..at
      BY <1>1
    <3>2. shape.blocks > 0 => plan[1] = Table
      BY <1>2, <1>6
    <3> QED BY <1>5, <3>1, <3>2
  <2> QED BY <2>1, <2>2
<1>10. SchemaFrees = {b \in heap : b.of = "schema"}
  <2>1. CASE stream
    <3>1. \A k \in 1..at : k \in 1..Len(plan)
      BY <1>1, <1>6
    <3>2. \A b \in heap : b.of # "schema"
      BY <1>5, <1>6, <2>1, <3>1
    <3> QED BY <2>1, <3>2 DEF SchemaFrees
  <2>2. CASE ~stream
    <3>1. TreeFrees("schema", shape.schema) = {b \in heap : b.of = "schema"}
      BY <1>1, <1>2, <1>5, <1>6, FreesAll
    <3> QED BY <2>2, <3>1 DEF SchemaFrees
  <2> QED BY <2>1, <2>2
<1>11. TreeFrees("array", shape.array) = {b \in heap : b.of = "array"}
  BY <1>1, <1>2, <1>5, <1>6, FreesAll
<1>12. SchemaFrees \cup ArrayFrees \cup BackingFrees =
         {b \in heap : b.of # "array" \/ HasArray}
  <2>1. \A b \in heap : b.of \in {"backing", "schema", "array"}
    BY <1>8 DEF Blocks
  <2> QED BY <1>10, <1>11, <2>1 DEF ArrayFrees, BackingFrees, Backing
<1>13. ArrayFrees \cap BackingFrees = {}
  BY DEF ArrayFrees, BackingFrees
<1>14. CASE shape.blocks > 0 /\ Table \notin heap
  <2>1. outcome' = "crashed"
    BY <1>14 DEF Undo
  <2> QED BY <1>3, <1>9, <1>14, <2>1 DEF CleanInv, CleanupExact
<1>15. CASE ~(shape.blocks > 0 /\ Table \notin heap)
  <2>1. /\ outcome' = "failed" /\ twice' = FALSE
        /\ heap' = heap \ (SchemaFrees \cup ArrayFrees \cup BackingFrees)
    BY <1>13, <1>15 DEF Undo
  <2>2. heap' = IF HasArray THEN {} ELSE {b \in heap : b.of = "array"}
    BY <1>12, <2>1
  <2>3. {b \in heap : b.of = "array"} =
          {b \in Range(plan) : b \in Range(SubSeq(plan, 1, at)) /\ b.of = "array"}
    BY <1>7, <1>8
  <2>4. ~(shape'.blocks > 0 /\ at' = 0)
    BY <1>3, <1>9, <1>15
  <2>5. heap' = IF HasArray' THEN {}
                ELSE {b \in Range(Plan') : b \in Range(SubSeq(Plan', 1, at')) /\ b.of = "array"}
    BY <1>3, <1>4, <2>2, <2>3
  <2> QED BY <2>1, <2>4, <2>5 DEF CleanInv, CleanupExact
<1> QED BY <1>14, <1>15

LEMMA CleanStep ==
  ASSUME ConTypeOK, CleanInv, [Next]_vars
  PROVE  CleanInv'
<1>1. UNCHANGED conVars \/ BuildStep \/ BuildStream
  BY ConSteps
<1>2. CASE UNCHANGED conVars
  <2>1. UNCHANGED <<shape, stream, at, heap, outcome, twice>>
    BY <1>2 DEF conVars
  <2>2. Plan' = Plan /\ HasArray' = HasArray
    BY <2>1 DEF Plan, BackingPlan, HasArray
  <2> QED BY <2>1, <2>2 DEF CleanInv, CleanupExact
<1>3. CASE Request
  <2>1. /\ outcome = "building" /\ outcome' = outcome /\ shape' = shape /\ stream' = stream
        /\ at' = at + 1 /\ at \in Nat /\ heap' = heap \cup {Plan[at + 1]}
    <3>1. Len(Plan) \in Nat
      BY PlanType DEF ConTypeOK
    <3> QED BY <1>3, <3>1 DEF Request, ConTypeOK
  <2>2. Plan' = Plan
    BY <2>1 DEF Plan, BackingPlan
  <2>3. heap = {Plan[k] : k \in 1..at}
    BY <2>1 DEF CleanInv
  <2>4. 1..(at + 1) = (1..at) \cup {at + 1}
    BY <2>1
  <2>5. heap' = {Plan'[k] : k \in 1..at'}
    BY <2>1, <2>2, <2>3, <2>4
  <2> QED BY <2>1, <2>5 DEF CleanInv, CleanupExact
<1>4. CASE RunsOut \/ Complete
  <2>1. /\ outcome = "building" /\ outcome' \in {"failing", "built"}
        /\ shape' = shape /\ stream' = stream /\ at' = at /\ heap' = heap
    BY <1>4 DEF RunsOut, Complete
  <2>2. Plan' = Plan
    BY <2>1 DEF Plan, BackingPlan
  <2> QED BY <2>1, <2>2 DEF CleanInv, CleanupExact
<1>5. CASE Undo
  BY <1>5, UndoCleans
<1>6. CASE BuildStream
  <2>1. at' = 0 /\ heap' = {} /\ outcome' = "building"
    BY <1>6 DEF BuildStream
  <2> QED BY <2>1 DEF CleanInv, CleanupExact
<1> QED BY <1>1, <1>2, <1>3, <1>4, <1>5, <1>6 DEF BuildStep

\* Whatever the shape of the case and wherever memory runs out: a reconstruction that
\* failed gives every block back, once, but for those of a root array built half-way,
\* and does not get that far only without its table (abi_reconstruction_free()).
THEOREM UndoingIsExact == Spec => []CleanupExact
<1>1. Init => CleanInv
  BY DEF Init, ConstructInit, CleanInv, CleanupExact
<1>2. ConTypeOK /\ CleanInv /\ [Next]_vars => CleanInv'
  BY CleanStep
<1>3. WorkerInv => ConTypeOK
  BY DEF WorkerInv
<1>4. CleanInv => CleanupExact
  BY DEF CleanInv
<1> QED BY <1>1, <1>2, <1>3, <1>4, WorkerHolds, PTL DEF Spec

-----------------------------------------------------------------------------
(* What the report says of a line. *)

LEMMA FirstOf ==
  ASSUME NEW S \in SUBSET Nat, S # {}
  PROVE  Min(S) \in S /\ \A j \in S : Min(S) <= j
<1>1. \E m \in S : \A j \in S : m <= j
  BY Least
<1> QED BY <1>1 DEF Min

\* What decides a line that is not an agreement, or is a defect.
LEMMA ClassesAre ==
  ASSUME NEW l, NEW e, NEW r, NEW h
  PROVE  /\ \/ l.status = "error" \/ l.panicked \/ l.violations \/ l.incomplete \/ l.broken
            => Classify(l, e, r, h)[1] # "agree"
         /\ Classify(l, e, r, h) = Defect =>
              \/ l.panicked \/ l.violations \/ (~l.incomplete /\ l.broken) \/ Leaked(l)
              \/ l.status = "rejected" \/ (l.sent /\ l.received = "changed")
<1> DEFINE rows == Rows(l, e, r, h)
           applies == {i \in DOMAIN rows : rows[i][1]}
           m == Min(applies)
<1>1. Classify(l, e, r, h) = rows[m][2]
  BY DEF Classify
<1>2. DOMAIN rows = 1..14 /\ rows[14][1]
  BY DEF Rows
<1>3. /\ rows[1][1] <=> l.status = "error"
      /\ rows[2][1] = l.panicked
      /\ rows[3][1] = l.violations
      /\ rows[4][1] = l.incomplete
      /\ rows[5][1] = l.broken
      /\ rows[6][1] <=> Leaked(l)
  BY DEF Rows
<1>4. /\ rows[8][1] => l.status = "rejected"
      /\ rows[12][1] => l.sent /\ l.received = "changed"
  BY DEF Rows
<1>5. /\ rows[1][2] = NotRun /\ rows[2][2] = Defect /\ rows[3][2] = Defect /\ rows[4][2] = NotRun
      /\ rows[5][2] = Defect /\ rows[6][2] = Defect /\ rows[8][2] = Defect
      /\ rows[10][2] = NotRun /\ rows[11][2] = NotRun /\ rows[12][2] = Defect
  BY DEF Rows
<1>6. /\ rows[7][2][1] = "agree" /\ rows[9][2][1] = "agree" /\ rows[13][2][1] = "agree"
      /\ rows[14][2][1] = "agree"
  BY DEF Rows
<1>7. NotRun[1] = "not-run" /\ Defect[1] = "disagree"
  BY DEF NotRun, Defect
<1> HIDE DEF rows
<1>8. m \in applies /\ \A j \in applies : m <= j
  <2>1. applies \in SUBSET Nat /\ 14 \in applies
    BY <1>2
  <2> HIDE DEF applies
  <2> QED BY <2>1, FirstOf
<1>9. m \in 1..14 /\ rows[m][1] /\ \A j \in 1..14 : rows[j][1] => m <= j
  BY <1>2, <1>8
<1> HIDE DEF m
<1>10. ASSUME l.status = "error" \/ l.panicked \/ l.violations \/ l.incomplete \/ l.broken
       PROVE  Classify(l, e, r, h)[1] # "agree"
  <2>1. m \in 1..5
    <3>1. rows[1][1] \/ rows[2][1] \/ rows[3][1] \/ rows[4][1] \/ rows[5][1]
      BY <1>3, <1>10, Zenon
    <3> QED BY <1>9, <3>1
  <2>2. m = 1 \/ m = 2 \/ m = 3 \/ m = 4 \/ m = 5
    BY <2>1
  <2> QED BY <1>1, <1>5, <1>7, <2>2
<1>11. ASSUME Classify(l, e, r, h) = Defect
       PROVE  \/ l.panicked \/ l.violations \/ (~l.incomplete /\ l.broken) \/ Leaked(l)
              \/ l.status = "rejected" \/ (l.sent /\ l.received = "changed")
  <2>1. \/ m = 1 \/ m = 2 \/ m = 3 \/ m = 4 \/ m = 5 \/ m = 6 \/ m = 7 \/ m = 8 \/ m = 9
        \/ m = 10 \/ m = 11 \/ m = 12 \/ m = 13 \/ m = 14
    BY <1>9
  <2>2. m = 2 \/ m = 3 \/ m = 5 \/ m = 6 \/ m = 8 \/ m = 12
    BY <1>1, <1>5, <1>6, <1>7, <1>11, <2>1
  <2>3. m = 5 => ~rows[4][1]
    BY <1>9
  <2>4. \/ rows[2][1] \/ rows[3][1] \/ (rows[5][1] /\ ~rows[4][1]) \/ rows[6][1]
        \/ rows[8][1] \/ rows[12][1]
    BY <1>9, <2>2, <2>3
  <2> QED BY <1>3, <1>4, <2>4, Zenon
<1> QED BY <1>10, <1>11

-----------------------------------------------------------------------------
(* The theorems. *)

\* The state of the worker keeps its type, and capsules_outstanding is the number of
\* capsules that are alive: for every case, script and consumer, however the case
\* was built and however often it ran out of memory.
THEOREM WorkerIsTyped == Spec => []TypeOK
<1>1. WorkerInv => TypeOK
  BY DEF WorkerInv, TypeOK, CapsuleInv, Control, RefsOK
<1> QED BY <1>1, WorkerHolds, PTL

\* What a line, once written, says of a consumer that broke a rule or kept something.
LEMMA SinsAreSeen ==
  ASSUME WorkerInv, phase = "judged", Broke # {} \/ Kept # {} \/ ses.panicked
  PROVE  line.panicked \/ line.incomplete \/ line.broken
<1>1. /\ RecTypeOK /\ CapsuleInv /\ Standing /\ Heard /\ line = Seen
  BY DEF WorkerInv, Lined
<1>2. /\ line.panicked = ses.panicked /\ line.incomplete = dropped
      /\ line.broken <=> Verify(log, FALSE) # {}
  BY <1>1 DEF Seen
<1>3. CASE Broke # {} /\ ~dropped
  <2>1. Found(log, FALSE) = Broke
    BY <1>1, <1>3 DEF Heard, HeardNow, Broke, Told
  <2> QED BY <1>1, <1>2, <1>3, <2>1, Findings
<1>4. CASE Kept # {}
  BY <1>1, <1>2, <1>4, KeptShows
<1> QED BY <1>2, <1>3, <1>4

\* Whatever a consumer broke, kept or panicked in, its line is never classified as an
\* agreement, for every cell of the model and every table of limits.
THEOREM SinsAreReported == Spec => []SinsSurface
<1>1. WorkerInv => SinsSurface
  <2> SUFFICES ASSUME WorkerInv, phase = "judged", Broke # {} \/ Kept # {} \/ ses.panicked,
                      NEW v \in Verdicts
               PROVE  v[1] # "agree"
    BY DEF SinsSurface
  <2>1. PICK a \in Answers[consumer] : v = Classify(line, a[1], a[2], HandsBack)
    BY DEF Verdicts
  <2> QED BY <2>1, SinsAreSeen, ClassesAre
<1> QED BY <1>1, WorkerHolds, PTL

\* A structure still live when the harness has cleaned up is the consumer's, or a
\* schema left half-built.
LEMMA LiveIsKept ==
  ASSUME WorkerInv, phase = "judged", NEW s \in Structs, IsLive(s)
  PROVE  s \in Kept \cup HalfBuilt
<1>1. RecTypeOK /\ CapsuleInv /\ Standing /\ ToClean = {}
  BY DEF WorkerInv, Lined
<1>2. s \in Bases
  BY <1>1, Somewhere DEF IsLive, Locations
<1>3. ~AtHarness(s)
  BY <1>1, <1>2 DEF ToClean, Bases
<1>4. CASE place[s] = "own"
  BY <1>1, <1>4, OwnIsKept
<1>5. CASE InCapsule(s)
  BY <1>1, <1>2, <1>5 DEF Standing, Kept, Held, InCapsule
<1> QED BY <1>3, <1>4, <1>5 DEF IsLive, Locations, AtHarness, InCapsule

\* A defect is reported only of a consumer that did something: whatever the log, the
\* counts and the comparison hold against it, and however the case was built.
THEOREM DefectsAreDeserved == Spec => []VerdictDeserved
<1>1. WorkerInv => VerdictDeserved
  <2> SUFFICES ASSUME WorkerInv, phase = "judged", Defect \in Verdicts
               PROVE  \/ Broke # {} \/ Kept # {} \/ Changed \/ HalfBuilt # {}
                      \/ ses.status = "rejected"
    BY DEF VerdictDeserved
  <2>1. PICK a \in Answers[consumer] : Defect = Classify(line, a[1], a[2], HandsBack)
    BY DEF Verdicts
  <2>2. \/ line.panicked \/ line.violations \/ (~line.incomplete /\ line.broken) \/ Leaked(line)
        \/ line.status = "rejected" \/ (line.sent /\ line.received = "changed")
    BY <2>1, ClassesAre
  <2>3. /\ RecTypeOK /\ CapsuleInv /\ Standing /\ Heard /\ Handed /\ line = Seen /\ ~buffers
    BY DEF WorkerInv, Lined
  <2>4. /\ line.status = ses.status /\ line.panicked = ses.panicked
        /\ line.violations = (<<"child-released-by-consumer", "array">> \in sins)
        /\ line.incomplete = dropped /\ line.broken = (Verify(log, FALSE) # {})
        /\ line.outstanding = Outstanding /\ line.capsules = (counted # 0)
        /\ line.sent = ses.sent /\ line.received = ses.received
    BY <2>3 DEF Seen
  <2>5. CASE line.panicked
    BY <2>3, <2>4, <2>5 DEF Handed
  <2>6. CASE line.violations
    <3> DEFINE sin == <<"child-released-by-consumer", "array">>
    <3>1. sin \in sins /\ sin[1] # "released-at-stale-location"
      BY <2>4, <2>6
    <3> HIDE DEF sin
    <3> QED BY <3>1 DEF Broke
  <2>7. CASE ~line.incomplete /\ line.broken
    <3>1. ~dropped /\ Verify(log, FALSE) # {}
      BY <2>4, <2>7
    <3>2. HeardNow
      BY <2>3, <3>1 DEF Heard
    <3>3. CASE Found(log, FALSE) # {}
      BY <3>2, <3>3 DEF HeardNow, Broke, Told
    <3>4. CASE \E obj \in Objects : Mach(log)[obj].state \in {"exported", "imported"}
      <4>1. PICK obj \in Objects : Mach(log)[obj].state \in {"exported", "imported"}
        BY <3>4
      <4>2. PICK s \in Bases : s.obj = obj
        BY BasesAre DEF Objects, Bases
      <4>3. s \in Structs /\ place[s] \in Places /\ Hears(s)
        BY <2>3, <3>2, BasesAre DEF RecTypeOK, HeardNow
      <4>4. IsLive(s)
        BY <4>1, <4>2, <4>3 DEF Hears, IsLive, Places
      <4> QED BY <4>3, <4>4, LiveIsKept
    <3> QED BY <2>3, <3>1, <3>3, <3>4, Findings
  <2>8. CASE Leaked(line)
    <3>1. PICK s \in Structs : IsLive(s)
      BY <2>3, <2>4, <2>8 DEF Leaked, Outstanding
    <3> QED BY <3>1, LiveIsKept
  <2>9. CASE line.status = "rejected"
    BY <2>4, <2>9
  <2>10. CASE line.sent /\ line.received = "changed"
    BY <2>4, <2>10 DEF Changed
  <2> QED BY <2>2, <2>5, <2>6, <2>7, <2>8, <2>9, <2>10
<1> QED BY <1>1, WorkerHolds, PTL

\* A worker taken down by what an earlier case's consumer still held has already said
\* so in that case's line.
THEOREM LateReleasesAreAnnounced == Spec => []LateReleaseAnnounced
<1>1. WorkerInv => LateReleaseAnnounced
  <2> SUFFICES ASSUME WorkerInv, phase = "dead", line # NoLine, HalfBuilt = {},
                      NEW v \in Verdicts
               PROVE  v[1] # "agree"
    BY DEF LateReleaseAnnounced
  <2>1. PICK a \in Answers[consumer] : v = Classify(line, a[1], a[2], HandsBack)
    BY DEF Verdicts
  <2>2. line.status = "error" \/ line.broken \/ line.incomplete
    BY DEF WorkerInv, Lined, Past
  <2> QED BY <2>1, <2>2, ClassesAre
<1> QED BY <1>1, WorkerHolds, PTL

\* A case that asks for something to be handed over is accepted only if something was:
\* refusal() lets no script through that names a schema and forgets the array.
THEOREM AcceptedIsHandedOver == Spec => []HandedOver
<1>1. WorkerInv => HandedOver
  <2> SUFFICES ASSUME WorkerInv, phase = "judged", line.status = "accepted",
                      Asks(Names, {"IMPORT_SCHEMA", "IMPORT_ARRAY", "STREAM_GET_SCHEMA",
                                   "STREAM_GET_NEXT"})
               PROVE  Given
    BY DEF HandedOver, Given
  <2>1. Handed /\ ses.status = "accepted"
    BY DEF WorkerInv, Lined, Seen
  <2>2. ses.done = Len(Names) /\ ~Refused(Names) /\ Names \in Seq(OpCodes)
    BY <2>1 DEF Handed, Session, Ending, Over, Names
  <2>3. \A i \in 1..Len(Names) : Names[i] \in Gives => Given
    BY <2>1, <2>2 DEF Handed
  <2>4. DOMAIN Names = 1..Len(Names)
    BY <2>2
  <2>5. PICK i \in DOMAIN Names : Names[i] \in Gives \cup {"IMPORT_SCHEMA"}
    BY DEF Asks, Gives
  <2>6. CASE Names[i] = "IMPORT_SCHEMA"
    <3>1. Asks(Names, {"IMPORT_SCHEMA"})
      BY <2>6 DEF Asks
    <3>2. Asks(Names, {"IMPORT_ARRAY"})
      BY <2>2, <3>1 DEF Refused
    <3> QED BY <2>3, <2>4, <3>2 DEF Asks, Gives
  <2> QED BY <2>3, <2>4, <2>5, <2>6
<1> QED BY <1>1, WorkerHolds, PTL

\* For every case, script and consumer, and whatever it hides: while a capsule lives
\* the case object does, and with it what the release callbacks reach back into; and
\* the case object's count of its capsules is right.
THEOREM CapsulesKeepTheirCase == Spec => [](CapsuleKeepsCase /\ counted = Cardinality(capsules))
<1>1. CapsuleInv => CapsuleKeepsCase /\ counted = Cardinality(capsules)
  <2> SUFFICES ASSUME CapsuleInv PROVE CapsuleKeepsCase /\ counted = Cardinality(capsules)
    OBVIOUS
  <2>1. Cardinality(capsules) \in Nat
    BY FS_CardinalityType DEF CapsuleInv
  <2> QED BY <2>1 DEF CapsuleInv, CapsuleKeepsCase, Over
<1> QED BY <1>1, InitIsKept, NextKeepsCapsules, PTL DEF Spec
=============================================================================
