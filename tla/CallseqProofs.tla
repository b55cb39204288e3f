----------------------------- MODULE CallseqProofs ----------------------------
(***************************************************************************)
(* Theorems about Callseq.tla for every value of its constants: any number *)
(* of ops and schemas, any capacity of the log, any set of consumers.      *)
(***************************************************************************)
EXTENDS Callseq, ReconstructionProofs

-----------------------------------------------------------------------------
(* The cleanup reaches everything the harness can still reach. *)

\* Where structures can be.  The executor's pointers lead to one place at a
\* time, and what they do not lead to is the consumer's or gone.
Whereabouts ==
  /\ place \in [Structs -> Places]
  /\ at \in {"home", "exec"}
  /\ stream \in BOOLEAN /\ array \in BOOLEAN
  /\ stream => at = "home"
  /\ \A s \in Structs : place[s] \in {"unborn", "dead", "own", at}
  /\ \A s \in Schemas : place[s] \in {"home", "exec"} => s = Schema(1)
  /\ place[Stream] \in {"home", "exec"} => stream
  /\ place[Array] \in {"home", "exec"} => array

\* How far the cleanup is, and what it has dealt with.
Swept ==
  /\ sweep \in 0..6
  /\ sweep > 0 => pc \in {"sweep", "judged", "freed", "gone", "crashed"}
  /\ pc \in {"judged", "freed", "gone"} => sweep = 6
  /\ sweep >= 1 => place[Stream] \notin {"home", "exec"}
  /\ sweep >= 2 => place[Array] \notin {"home", "exec"}
  /\ sweep >= 3 => place[Schema(1)] \notin {"home", "exec"}

SweepInv == Whereabouts /\ Swept

\* What every step does to a structure but the executor's own move: leave it,
\* take it into the consumer's storage, or release it.
Departs ==
  /\ place' \in [Structs -> Places]
  /\ \A s \in Structs : place'[s] = place[s] \/ place'[s] \in {"own", "dead"}

\* A release, a hidden move, a delivery and the observer's notes only take
\* structures away from where the harness can reach them.
LEMMA ReleaseDeparts ==
  ASSUME place \in [Structs -> Places], NEW s, NEW harness, NEW before,
         Release(s, harness, before)
  PROVE  Departs
BY DEF Release, Departs, Places

LEMMA HarnessReleaseDeparts ==
  ASSUME place \in [Structs -> Places], NEW s \in Structs, NEW where,
         HarnessRelease(s, where)
  PROVE  Departs /\ (where \notin {"dead", "own"} => place'[s] # where)
<1>1. CASE place[s] = where
  <2>1. Release(s, TRUE, <<Note("harness", s, where)>>)
    BY <1>1 DEF HarnessRelease
  <2>2. place'[s] = "dead"
    BY <2>1 DEF Release, Ended
  <2> QED BY <2>1, <2>2, ReleaseDeparts
<1>2. CASE place[s] # where
  BY <1>2 DEF HarnessRelease, recVars, Departs
<1> QED BY <1>1, <1>2

LEMMA UnchangedDeparts ==
  ASSUME place \in [Structs -> Places], place' = place
  PROVE  Departs
BY DEF Departs

\* A step of the sequence, of a callback or out of one: before the cleanup.
BeforeCleanup ==
  /\ Departs
  /\ UNCHANGED <<at, stream, array, sweep>>
  /\ pc \in {"op", "callback", "handed"}
  /\ pc' \in {"op", "callback", "handed", "sweep", "crashed"}

LEMMA BeforeCleanupKeeps ==
  ASSUME SweepInv, BeforeCleanup
  PROVE  SweepInv'
<1>1. Whereabouts'
  BY StructsAre DEF SweepInv, Whereabouts, BeforeCleanup, Departs
<1>2. Swept'
  BY StructsAre DEF SweepInv, Whereabouts, Swept, BeforeCleanup
<1> QED BY <1>1, <1>2 DEF SweepInv

LEMMA StopControl ==
  ASSUME NEW o, LetGo(o)
  PROVE  UNCHANGED <<at, stream, array, sweep>> /\ pc' \in {"callback", "sweep"}
BY DEF LetGo

LEMMA EnterControl ==
  ASSUME NEW name, NEW op, NEW node, Enter(name, op, node)
  PROVE  pc' = "callback"
BY DEF Enter

LEMMA NoteImportDeparts ==
  ASSUME place \in [Structs -> Places], NEW s, NoteImport(s)
  PROVE  Departs
BY UnchangedDeparts DEF NoteImport

LEMMA StreamCallBefore ==
  ASSUME place \in [Structs -> Places], pc \in {"op", "handed"}, NEW op, StreamCall(op)
  PROVE  BeforeCleanup
<1>1. Departs
  BY UnchangedDeparts DEF StreamCall, recVars
<1> QED BY <1>1, StopControl, EnterControl DEF StreamCall, BeforeCleanup, StopWith, exeVars

\* Every op but an accepted MOVE_STRUCT.
LEMMA OpBefore ==
  ASSUME SweepInv, Op, ~MoveStruct
  PROVE  BeforeCleanup
<1> USE UnchangedDeparts DEF recVars, exeVars, AtOp, StopWith, Completed
<1>0. place \in [Structs -> Places]
  BY DEF SweepInv, Whereabouts
<1>1. CASE Nop
  BY <1>0, <1>1 DEF Nop, BeforeCleanup
<1>2. CASE PartOfStream
  BY <1>0, <1>2, StopControl DEF PartOfStream, BeforeCleanup
<1>3. ASSUME NEW kind, NEW op, Import(kind, op) PROVE BeforeCleanup
  <2>1. CASE UNCHANGED recVars /\ \E o : StopWith(o)
    BY <1>0, <1>3, <2>1, StopControl DEF Import, BeforeCleanup
  <2>2. CASE NoteImport(Root[kind]) /\ Enter(ImportName[kind], op, BASE) /\ UNCHANGED exeVars
    BY <1>0, <1>3, <2>2, NoteImportDeparts, EnterControl DEF Import, BeforeCleanup
  <2> QED BY <1>3, <2>1, <2>2 DEF Import, ImportRefused
<1>4. CASE ReleaseBase
  BY <1>0, <1>4, StopControl, EnterControl DEF ReleaseBase, BeforeCleanup
<1>5. CASE ReleaseDictionary
  BY <1>0, <1>5, StopControl, EnterControl DEF ReleaseDictionary, BeforeCleanup
<1>6. CASE UseAfterRelease
  BY <1>0, <1>6, StopControl DEF UseAfterRelease, BeforeCleanup
<1>7. ASSUME NEW i \in Children, ReleaseChild(i) PROVE BeforeCleanup
  BY <1>0, <1>7, StopControl, EnterControl DEF ReleaseChild, BeforeCleanup
<1>8. ASSUME NEW op, StreamOp(op) PROVE BeforeCleanup
  <2>1. CASE StreamCall(op)
    BY <1>0, <1>8, <2>1, StreamCallBefore DEF StreamOp
  <2>2. CASE StopWith("unsupported") /\ UNCHANGED recVars
    BY <1>0, <1>8, <2>2, StopControl DEF StreamOp, BeforeCleanup
  <2>3. CASE NoteImport(Stream) /\ Enter("import_stream", op, BASE) /\ UNCHANGED exeVars
    BY <1>0, <1>8, <2>3, NoteImportDeparts, EnterControl DEF StreamOp, BeforeCleanup
  <2> QED BY <1>8, <2>1, <2>2, <2>3 DEF StreamOp
<1>9. CASE ExpectEof
  BY <1>0, <1>9, StopControl DEF ExpectEof, BeforeCleanup
<1>10. CASE HandedOver
  BY <1>0, <1>10, StreamCallBefore DEF HandedOver
<1>11. CASE EndOfSequence
  BY <1>0, <1>11 DEF EndOfSequence, BeforeCleanup
<1> QED BY <1>1, <1>2, <1>3, <1>4, <1>5, <1>6, <1>7, <1>8, <1>9, <1>10, <1>11 DEF Op

\* Every step of a callback.
LEMMA CallbackBefore ==
  ASSUME SweepInv, Callback
  PROVE  BeforeCleanup
<1> USE UnchangedDeparts DEF recVars, exeVars
<1>0. place \in [Structs -> Places]
  BY DEF SweepInv, Whereabouts
<1>1. CASE Crash
  BY <1>0, <1>1 DEF Crash, InCallback, BeforeCleanup
<1>2. CASE ActRelease
  <2>1. Departs
    BY <1>0, <1>2, ReleaseDeparts DEF ActRelease, ReleaseKid
  <2> QED BY <1>2, <2>1 DEF ActRelease, InCallback, BeforeCleanup
<1>3. CASE ActTake
  <2>1. Departs
    BY <1>0, <1>3 DEF ActTake, Take, Departs, Places, Locations
  <2> QED BY <1>3, <2>1 DEF ActTake, InCallback, BeforeCleanup
<1>4. CASE ActGetSchema
  <2>1. PICK k \in 1..MaxSchemas : GetSchema(k) \/ GetSchemaRunsOut(k)
    BY <1>4 DEF ActGetSchema
  <2>2. Departs
    BY <1>0, <2>1 DEF GetSchema, GetSchemaRunsOut, Departs, Places, Locations
  <2> QED BY <1>4, <2>2 DEF ActGetSchema, InCallback, BeforeCleanup
<1>5. CASE ActGetNext
  <2>1. Departs
    BY <1>0, <1>5 DEF ActGetNext, GetNext, Departs, Places, Locations
  <2> QED BY <1>5, <2>1 DEF ActGetNext, InCallback, BeforeCleanup
<1>6. CASE ActGetLastError
  BY <1>0, <1>6 DEF ActGetLastError, InCallback, BeforeCleanup
<1>7. CASE FreeAct
  <2>1. Departs
    BY <1>0, <1>7, ReleaseDeparts DEF FreeAct, Take, Departs, Places, Locations
  <2> QED BY <1>7, <2>1 DEF FreeAct, BeforeCleanup
<1> QED BY <1>1, <1>2, <1>3, <1>4, <1>5, <1>6, <1>7 DEF Callback

LEMMA NoteReturnedDeparts ==
  ASSUME place \in [Structs -> Places], NEW s, NEW where, NoteReturned(s, where)
  PROVE  Departs
BY UnchangedDeparts DEF NoteReturned, recVars

\* Every way back to the executor.
LEMMA ReturnBefore ==
  ASSUME SweepInv, Return
  PROVE  BeforeCleanup
<1> USE UnchangedDeparts DEF recVars, Returns, StopWith, Completed
<1>0. place \in [Structs -> Places]
  BY DEF SweepInv, Whereabouts
<1>1. ASSUME NEW kind, ReturnImport(kind) PROVE BeforeCleanup
  <2>1. Departs
    BY <1>0, <1>1, NoteReturnedDeparts DEF ReturnImport
  <2> QED BY <1>1, <2>1, StopControl DEF ReturnImport, BeforeCleanup
<1>2. CASE ReturnReleaseBase
  BY <1>0, <1>2 DEF ReturnReleaseBase, BeforeCleanup
<1>3. CASE ReturnMisuse
  BY <1>0, <1>3 DEF ReturnMisuse, BeforeCleanup
<1>4. CASE ReturnStreamCall
  BY <1>0, <1>4, StopControl DEF ReturnStreamCall, BeforeCleanup
<1>5. CASE ReturnGetNext
  BY <1>0, <1>5, StopControl DEF ReturnGetNext, BeforeCleanup
<1> QED BY <1>1, <1>2, <1>3, <1>4, <1>5 DEF Return

\* The executor's move leads its pointers to where it moved everything.
LEMMA MoveKeeps ==
  ASSUME SweepInv, MoveStruct
  PROVE  SweepInv'
<1>1. CASE handed # {}
  <2>1. BeforeCleanup
    BY <1>1, StopControl, UnchangedDeparts
    DEF MoveStruct, AtOp, StopWith, recVars, BeforeCleanup, SweepInv, Whereabouts
  <2> QED BY <2>1, BeforeCleanupKeeps
<1>2. CASE handed = {}
  <2>1. /\ Move({Schema(1)} \cup (IF array THEN {Array} ELSE {}), "exec")
        /\ at' = "exec" /\ ~stream /\ pc = "op" /\ pc' = "op"
        /\ UNCHANGED <<stream, array, sweep>>
    BY <1>2 DEF MoveStruct, AtOp, Completed
  <2>2. place' = [x \in Structs |-> IF (x = Schema(1) \/ (array /\ x = Array)) /\ IsLive(x)
                                    THEN "exec" ELSE place[x]]
    BY <2>1 DEF Move, SweepInv, Whereabouts
  <2>3. Whereabouts'
    BY <2>1, <2>2, StructsAre DEF SweepInv, Whereabouts, IsLive, Places, Locations, Structs
  <2>4. Swept'
    BY <2>1 DEF SweepInv, Swept
  <2> QED BY <2>3, <2>4 DEF SweepInv
<1> QED BY <1>1, <1>2

\* Each cleanup step deals with the structure it names, where the executor's
\* pointers lead or at home.
LEMMA SweepStepKeeps ==
  ASSUME SweepInv, SweepStep
  PROVE  SweepInv'
<1> DEFINE step == SweepSteps[sweep + 1]
<1>1. /\ pc = "sweep" /\ pc' = "sweep" /\ sweep \in 0..5 /\ sweep' = sweep + 1
      /\ UNCHANGED <<at, stream, array>>
      /\ HarnessRelease(step.s, step.at)
  BY DEF SweepStep, SweepSteps, SweepInv, Swept
<1>2. /\ sweep = 0 => step.s = Stream /\ step.at = "home"
      /\ sweep = 1 => step.s = Array /\ step.at = at
      /\ sweep = 2 => step.s = Schema(1) /\ step.at = at
      /\ step.s \in Structs
  BY <1>1, StructsAre DEF SweepSteps
<1>3. Departs /\ (step.at \notin {"dead", "own"} => place'[step.s] # step.at)
  BY <1>1, <1>2, HarnessReleaseDeparts DEF SweepInv, Whereabouts
<1>4. Whereabouts'
  BY <1>1, <1>3, StructsAre DEF SweepInv, Whereabouts, Departs
<1>5. sweep = 0 => place'[Stream] \notin {"home", "exec"}
  BY <1>1, <1>2, <1>3, <1>4, StructsAre DEF Whereabouts, SweepInv, Departs
<1>6. sweep = 1 => place'[Array] \notin {"home", "exec"}
  BY <1>1, <1>2, <1>3, <1>4, StructsAre DEF Whereabouts, SweepInv
<1>7. sweep = 2 => place'[Schema(1)] \notin {"home", "exec"}
  BY <1>1, <1>2, <1>3, <1>4, StructsAre DEF Whereabouts, SweepInv
<1>8. Swept'
  BY <1>1, <1>3, <1>5, <1>6, <1>7, StructsAre DEF Swept, SweepInv, Departs
<1> QED BY <1>4, <1>8 DEF SweepInv

LEMMA FinishKeeps ==
  ASSUME SweepInv, Judge \/ Report \/ ConsumerGone
  PROVE  SweepInv'
<1>1. CASE Judge
  BY <1>1, StructsAre
  DEF Judge, FreeBacking, exeVars, SweepSteps, SweepInv, Whereabouts, Swept
<1>2. CASE Report
  BY <1>2, StructsAre DEF Report, recVars, exeVars, SweepInv, Whereabouts, Swept
<1>3. CASE ConsumerGone
  <2>1. Departs
    BY <1>3 DEF ConsumerGone, Departs, Places, SweepInv, Whereabouts
  <2>2. pc = "freed" /\ pc' \in {"gone", "crashed"} /\ UNCHANGED <<at, stream, array, sweep>>
    BY <1>3 DEF ConsumerGone, exeVars
  <2>3. Whereabouts'
    BY <2>1, <2>2, StructsAre DEF SweepInv, Whereabouts, Departs
  <2>4. Swept'
    BY <2>1, <2>2, StructsAre DEF SweepInv, Swept, Departs
  <2> QED BY <2>3, <2>4 DEF SweepInv
<1> QED BY <1>1, <1>2, <1>3

LEMMA SweepInvInit ==
  ASSUME Init
  PROVE  SweepInv
<1>1. PICK nodes \in KidSets : Built(stream, array, nodes)
  BY DEF Init
<1>2. place = [s \in Structs |->
                IF \/ s = Schema(1) /\ ~stream
                   \/ s = Array /\ array
                   \/ s = Stream /\ stream
                THEN "home" ELSE "unborn"]
  BY <1>1 DEF Built
<1>3. Whereabouts
  BY <1>2, StructsAre DEF Init, Whereabouts, Places, Locations
<1>4. Swept
  BY DEF Init, Swept
<1> QED BY <1>3, <1>4 DEF SweepInv

LEMMA SweepInvStep ==
  ASSUME SweepInv, [Next]_vars
  PROVE  SweepInv'
<1>1. CASE MoveStruct
  BY <1>1, MoveKeeps
<1>2. CASE Op /\ ~MoveStruct
  BY <1>2, OpBefore, BeforeCleanupKeeps
<1>3. CASE Callback
  BY <1>3, CallbackBefore, BeforeCleanupKeeps
<1>4. CASE Return
  BY <1>4, ReturnBefore, BeforeCleanupKeeps
<1>5. CASE Finish
  BY <1>5, SweepStepKeeps, FinishKeeps DEF Finish
<1>6. CASE UNCHANGED vars
  BY <1>6, StructsAre DEF vars, recVars, exeVars, SweepInv, Whereabouts, Swept
<1> QED BY <1>1, <1>2, <1>3, <1>4, <1>5, <1>6 DEF Next, Stopped

\* When the verdict is read, nothing is left where the harness could still
\* release it (callseq.c's last lines and abi_reconstruction_release_all()).
THEOREM SweepCompletes == Spec => []SweepIsComplete
<1>1. SweepInv => SweepIsComplete
  <2> SUFFICES ASSUME SweepInv, pc \in {"judged", "freed", "gone"}, NEW s \in Structs
               PROVE  place[s] \notin {"home", "exec"}
    BY DEF SweepIsComplete
  <2>1. sweep = 6
    BY DEF SweepInv, Swept
  <2> QED BY <2>1, StructsAre DEF SweepInv, Swept, Whereabouts, Structs
<1> QED BY <1>1, SweepInvInit, SweepInvStep, PTL DEF Spec

-----------------------------------------------------------------------------
(* Type correctness *)

Behaviour == [acts : Seq(Act), refused : BOOLEAN, ptr : SUBSET Objects, parsed : BOOLEAN]

LEMMA ActsAre ==
  /\ \A s \in Structs : Rel(s) \in Act /\ TakeIt(s) \in Act
  /\ \A k \in Nodes : RelKid(k) \in Act
  /\ Call("get_schema") \in Act /\ Call("get_next") \in Act
  /\ Call("get_last_error") \in Act /\ Fault \in Act
BY StructsAre DEF Rel, TakeIt, RelKid, Call, Fault, Act, Nodes, BASE

LEMMA DoesType ==
  ASSUME NEW acts \in Seq(Act), NEW refused \in BOOLEAN,
         NEW points \in SUBSET Objects, NEW parses \in BOOLEAN
  PROVE  Does(acts, refused, points, parses) \in Behaviour
BY DEF Does, Behaviour

LEMMA ScriptPieces ==
  /\ \A s \in Structs : IfHeld(s) \in Seq(Act) /\ IfOwn(s) \in Seq(Act)
  /\ HeldSchema \in Seq(Act) /\ OwnSchema \in Seq(Act)
<1>1. \A s \in Structs : <<Rel(s)>> \in Seq(Act)
  BY ActsAre
<1>2. \A s \in Structs : IfHeld(s) \in Seq(Act) /\ IfOwn(s) \in Seq(Act)
  BY <1>1 DEF IfHeld, IfOwn
<1>3. HeldSchema \in Seq(Act)
  <2>1. CASE \E s \in Schemas : Held(s)
    <3>1. (CHOOSE s \in Schemas : Held(s)) \in Structs
      BY <2>1, StructsAre
    <3> QED BY <1>1, <2>1, <3>1 DEF HeldSchema
  <2>2. CASE ~\E s \in Schemas : Held(s)
    BY <2>2 DEF HeldSchema
  <2> QED BY <2>1, <2>2
<1>4. OwnSchema \in Seq(Act)
  <2>1. CASE \E s \in Schemas : place[s] = "own"
    <3>1. (CHOOSE s \in Schemas : place[s] = "own") \in Structs
      BY <2>1, StructsAre
    <3> QED BY <1>1, <2>1, <3>1 DEF OwnSchema
  <2>2. CASE ~\E s \in Schemas : place[s] = "own"
    BY <2>2 DEF OwnSchema
  <2> QED BY <2>1, <2>2
<1> QED BY <1>2, <1>3, <1>4

\* Every script a consumer may follow in a callback.
LEMMA Scripts ==
  ASSUME NEW node \in Nodes
  PROVE  /\ <<>> \in Seq(Act)
         /\ IfHeld(Array) \o HeldSchema \o IfHeld(Stream) \in Seq(Act)
         /\ IfOwn(Array) \o IfOwn(Stream) \in Seq(Act)
         /\ IfOwn(Array) \o IfHeld(Schema(1)) \in Seq(Act)
         /\ OwnSchema \o <<Call("get_schema")>> \in Seq(Act)
         /\ IfOwn(Array) \o <<Call("get_next")>> \in Seq(Act)
         /\ IfOwn(Array) \o <<IF "stream" \in ptr THEN Call("get_next") ELSE Fault>> \in Seq(Act)
         /\ <<RelKid(node)>> \in Seq(Act) /\ <<Fault>> \in Seq(Act)
         /\ <<Call("get_schema")>> \in Seq(Act) /\ <<Call("get_next")>> \in Seq(Act)
         /\ <<Call("get_last_error")>> \in Seq(Act)
         /\ <<Rel(Schema(1))>> \in Seq(Act) /\ <<TakeIt(Array)>> \in Seq(Act)
         /\ <<TakeIt(Array), Rel(Array)>> \in Seq(Act)
         /\ <<Call("get_next"), Rel(Array)>> \in Seq(Act)
         /\ \A s \in Coming :
              /\ <<TakeIt(Stream), Call("get_schema"), Rel(s)>> \in Seq(Act)
              /\ <<TakeIt(Stream), Call("get_schema"), Rel(s), Rel(Stream)>> \in Seq(Act)
<1>1. \A s \in Coming : s \in Structs
  BY StructsAre DEF Coming
<1>2. \A s \in Coming :
        /\ <<TakeIt(Stream), Call("get_schema"), Rel(s)>> \in Seq(Act)
        /\ <<TakeIt(Stream), Call("get_schema"), Rel(s), Rel(Stream)>> \in Seq(Act)
  BY <1>1, ActsAre, StructsAre
<1>3. /\ <<RelKid(node)>> \in Seq(Act) /\ <<Fault>> \in Seq(Act) /\ <<>> \in Seq(Act)
      /\ <<Call("get_schema")>> \in Seq(Act) /\ <<Call("get_next")>> \in Seq(Act)
      /\ <<Call("get_last_error")>> \in Seq(Act)
      /\ <<Rel(Schema(1))>> \in Seq(Act) /\ <<TakeIt(Array)>> \in Seq(Act)
      /\ <<TakeIt(Array), Rel(Array)>> \in Seq(Act)
      /\ <<Call("get_next"), Rel(Array)>> \in Seq(Act)
      /\ <<IF "stream" \in ptr THEN Call("get_next") ELSE Fault>> \in Seq(Act)
  BY ActsAre, StructsAre
<1>4. /\ IfHeld(Array) \in Seq(Act) /\ IfHeld(Stream) \in Seq(Act)
      /\ IfHeld(Schema(1)) \in Seq(Act)
      /\ IfOwn(Array) \in Seq(Act) /\ IfOwn(Stream) \in Seq(Act)
      /\ HeldSchema \in Seq(Act) /\ OwnSchema \in Seq(Act)
  BY ScriptPieces, StructsAre
<1>5. IfHeld(Array) \o HeldSchema \in Seq(Act)
  BY <1>4, ConcatProperties
<1> QED BY <1>2, <1>3, <1>4, <1>5, ConcatProperties

\* What a consumer remembers.
ConTypeOK == consumer \in Consumers /\ ptr \subseteq Objects /\ parsed \in BOOLEAN

LEMMA JustType ==
  ASSUME ConTypeOK, NEW acts \in Seq(Act), NEW refused \in BOOLEAN
  PROVE  Just(acts, refused) \in Behaviour
BY DoesType DEF Just, ConTypeOK

\* A set of behaviours for every callback.
Table(t) ==
  /\ DOMAIN t = Callbacks
  /\ \A name \in Callbacks : t[name] \subseteq Behaviour

LEMMA NullTable ==
  ASSUME ConTypeOK, NEW node \in Nodes
  PROVE  Table(NullDoes(node))
<1> DEFINE t == NullDoes(node)
<1>1. DOMAIN t = Callbacks
  BY DEF NullDoes, Callbacks
<1>2. /\ Points("schema") \in SUBSET Objects /\ Points("array") \in SUBSET Objects
      /\ Points("stream") \in SUBSET Objects /\ parsed \in BOOLEAN
  BY DEF Points, Objects, ConTypeOK
<1>3. t["import_schema"] \subseteq Behaviour
  BY <1>2, Scripts, DoesType DEF NullDoes
<1>4. t["import_array"] \subseteq Behaviour
  BY <1>2, Scripts, DoesType DEF NullDoes
<1>5. t["import_stream"] \subseteq Behaviour
  BY <1>2, Scripts, DoesType DEF NullDoes
<1>6. t["release_base"] \subseteq Behaviour
  BY Scripts, JustType DEF NullDoes
<1>7. t["release_child"] \subseteq Behaviour
  BY Scripts, JustType DEF NullDoes
<1>8. t["release_dictionary"] \subseteq Behaviour
  BY Scripts, JustType DEF NullDoes
<1>9. t["stream_get_schema"] \subseteq Behaviour
  BY Scripts, JustType DEF NullDoes
<1>10. t["stream_get_next"] \subseteq Behaviour
  BY Scripts, JustType DEF NullDoes
<1>11. t["stream_get_last_error"] \subseteq Behaviour
  BY Scripts, JustType DEF NullDoes
<1> HIDE DEF t
<1>12. ASSUME NEW name \in Callbacks PROVE t[name] \subseteq Behaviour
  BY <1>3, <1>4, <1>5, <1>6, <1>7, <1>8, <1>9, <1>10, <1>11 DEF Callbacks
<1> QED BY <1>1, <1>12 DEF Table, t

LEMMA RefvalTable ==
  ASSUME ConTypeOK, NEW node \in Nodes
  PROVE  Table(RefvalDoes(node))
<1> DEFINE n == NullDoes(node)
           a == {Just(<<>>, TRUE)}
                \cup {b \in {Does(<<>>, FALSE, Points("array"), parsed)} :
                        "schema" \in ptr /\ IsLive(Schema(1))}
           s == {Just(OwnSchema \o <<Call("get_schema")>>, refused) : refused \in BOOLEAN}
           g == {Just(IfOwn(Array) \o <<Call("get_next")>>, refused) : refused \in
                  {r \in BOOLEAN : (r => Undelivered) /\ (~r /\ Undelivered => OwnSchema # <<>>)}}
<1>1. Table(n)
  BY NullTable
<1>2. a \subseteq Behaviour
  <2>1. Points("array") \in SUBSET Objects /\ parsed \in BOOLEAN
    BY DEF Points, Objects, ConTypeOK
  <2> QED BY <2>1, Scripts, JustType, DoesType
<1>3. s \subseteq Behaviour
  BY Scripts, JustType
<1>4. g \subseteq Behaviour
  BY Scripts, JustType
<1>5. RefvalDoes(node) = [n EXCEPT !.import_array = a, !.stream_get_schema = s,
                                   !.stream_get_next = g]
  BY DEF RefvalDoes
<1> HIDE DEF n, a, s, g
<1> QED BY <1>1, <1>2, <1>3, <1>4, <1>5 DEF Table

LEMMA ArrowTable ==
  ASSUME ConTypeOK, NEW node \in Nodes
  PROVE  Table(ArrowDoes(node))
<1> DEFINE n == NullDoes(node)
           is == {Does(<<Rel(Schema(1))>>, refused, ptr, parsed \/ ~refused) : refused \in BOOLEAN}
           ia == IF parsed
                 THEN {Just(<<TakeIt(Array)>>, FALSE), Just(<<TakeIt(Array), Rel(Array)>>, TRUE)}
                 ELSE {Just(<<>>, TRUE)}
           it == {Does(<<TakeIt(Stream), Call("get_schema"), Rel(s)>>, FALSE, Points("stream"), parsed) :
                    s \in Coming}
                 \cup {Just(<<TakeIt(Stream), Call("get_schema"), Rel(s), Rel(Stream)>>, TRUE) :
                         s \in Coming}
           gs == {Just(IF "stream" \in ptr THEN <<>> ELSE <<Fault>>, FALSE)}
           gn == {Just(IfOwn(Array) \o <<IF "stream" \in ptr THEN Call("get_next") ELSE Fault>>, FALSE)}
                 \cup {b \in {Just(<<Call("get_next"), Rel(Array)>>, TRUE)} :
                         "stream" \in ptr /\ Undelivered}
           rb == {Does(IfOwn(Array) \o IfOwn(Stream), FALSE, ptr \ {"stream"}, FALSE)}
<1>1. Table(n)
  BY NullTable
<1>2. /\ Points("stream") \in SUBSET Objects /\ ptr \in SUBSET Objects
      /\ ptr \ {"stream"} \in SUBSET Objects
      /\ \A refused \in BOOLEAN : (parsed \/ ~refused) \in BOOLEAN
      /\ parsed \in BOOLEAN
  BY DEF Points, Objects, ConTypeOK
<1>3. is \subseteq Behaviour
  BY <1>2, Scripts, DoesType
<1>4. ia \subseteq Behaviour
  BY Scripts, JustType
<1>5. it \subseteq Behaviour
  BY <1>2, Scripts, JustType, DoesType
<1>6. gs \subseteq Behaviour
  BY Scripts, JustType
<1>7. gn \subseteq Behaviour
  BY Scripts, JustType
<1>8. rb \subseteq Behaviour
  BY <1>2, Scripts, DoesType
<1>9. ArrowDoes(node) = [n EXCEPT !.import_schema = is, !.import_array = ia,
                           !.import_stream = it, !.stream_get_schema = gs,
                           !.stream_get_next = gn, !.release_base = rb]
  BY DEF ArrowDoes
<1> HIDE DEF n, is, ia, it, gs, gn, rb
<1> QED BY <1>1, <1>3, <1>4, <1>5, <1>6, <1>7, <1>8, <1>9 DEF Table

LEMMA DuckTable ==
  ASSUME ConTypeOK, NEW node \in Nodes
  PROVE  Table(DuckDoes(node))
<1> DEFINE n == NullDoes(node)
           is == {Just(<<>>, TRUE), Does(<<>>, FALSE, Points("schema"), TRUE)}
           ia == {Just(<<>>, TRUE)}
                 \cup {b \in {Just(<<TakeIt(Array)>>, FALSE),
                              Just(<<TakeIt(Array), Rel(Array)>>, TRUE)} : parsed}
           rb == {Does(IfOwn(Array) \o IfHeld(Schema(1)), FALSE, ptr, FALSE)}
<1>1. Table(n)
  BY NullTable
<1>2. Points("schema") \in SUBSET Objects /\ ptr \in SUBSET Objects
  BY DEF Points, Objects, ConTypeOK
<1>3. is \subseteq Behaviour
  BY <1>2, Scripts, JustType, DoesType
<1>4. ia \subseteq Behaviour
  BY Scripts, JustType
<1>5. rb \subseteq Behaviour
  BY <1>2, Scripts, DoesType
<1>6. DuckDoes(node) = [n EXCEPT !.import_schema = is, !.import_array = ia,
                                 !.release_base = rb]
  BY DEF DuckDoes
<1> HIDE DEF n, is, ia, rb
<1> QED BY <1>1, <1>3, <1>4, <1>5, <1>6 DEF Table

LEMMA FreeTable ==
  ASSUME ConTypeOK, NEW node \in Nodes
  PROVE  Table(FreeDoes(node))
<1> DEFINE n == NullDoes(node)
           is == {Does(<<>>, refused, Points("schema"), parsed) : refused \in BOOLEAN}
           ia == {Does(<<>>, refused, Points("array"), parsed) : refused \in BOOLEAN}
           it == {Does(<<>>, refused, Points("stream"), parsed) : refused \in BOOLEAN}
           rb == {Just(<<>>, FALSE)}
           gs == {Just(<<Call("get_schema")>>, refused) : refused \in BOOLEAN}
           gn == {Just(<<Call("get_next")>>, refused) : refused \in BOOLEAN}
<1>1. Table(n)
  BY NullTable
<1>2. /\ Points("schema") \in SUBSET Objects /\ Points("array") \in SUBSET Objects
      /\ Points("stream") \in SUBSET Objects /\ parsed \in BOOLEAN
  BY DEF Points, Objects, ConTypeOK
<1>3. is \subseteq Behaviour /\ ia \subseteq Behaviour /\ it \subseteq Behaviour
  BY <1>2, Scripts, DoesType
<1>4. rb \subseteq Behaviour /\ gs \subseteq Behaviour /\ gn \subseteq Behaviour
  BY Scripts, JustType
<1>5. FreeDoes(node) = [n EXCEPT !.import_schema = is, !.import_array = ia,
                          !.import_stream = it, !.release_base = rb,
                          !.stream_get_schema = gs, !.stream_get_next = gn]
  BY DEF FreeDoes
<1> HIDE DEF n, is, ia, it, rb, gs, gn
<1> QED BY <1>1, <1>3, <1>4, <1>5 DEF Table

\* Every callback of every consumer answers with behaviours.
LEMMA BehavioursType ==
  ASSUME ConTypeOK, NEW node \in Nodes, NEW name \in Callbacks
  PROVE  Behaviours(node)[name] \subseteq Behaviour
BY NullTable, RefvalTable, ArrowTable, DuckTable, FreeTable DEF Behaviours, Table

\* The executor's own state.
ExeTypeOK ==
  /\ stream \in BOOLEAN /\ array \in BOOLEAN /\ dict \in BOOLEAN
  /\ executed \in 0..MaxOps /\ at \in {"home", "exec"}
  /\ handed \subseteq Objects /\ outcome \in Outcomes
  /\ gotNext \in BOOLEAN /\ lastEof \in BOOLEAN /\ asked \in BOOLEAN
  /\ sweep \in 0..6

Callee == [name : Callbacks \cup {"none"}, op : Ops, acts : Seq(Act),
           refused : BOOLEAN, eof : BOOLEAN]

\* An op under way is one of the sequence's, and the stream op that hands the
\* stream over is the one that goes on once the consumer has taken it.
Calls == StreamOps \ {"EXPECT_EOF"}

UnderWay ==
  /\ pc \in {"callback", "handed"} => executed < MaxOps
  /\ pc = "handed" => cb.name = "import_stream"
  /\ cb.name = "import_stream" => cb.op \in Calls

CtlTypeOK == pc \in PCs /\ cb \in Callee /\ UnderWay

TypeInv == RecTypeOK /\ ConTypeOK /\ ExeTypeOK /\ CtlTypeOK

LEMMA TypeInvIs == TypeInv => TypeOK
BY DEF TypeInv, ConTypeOK, ExeTypeOK, CtlTypeOK, Callee, TypeOK, SweepSteps

LEMMA IdleType == Idle \in Callee /\ Idle.name = "none"
BY DEF Idle, Callee, Ops

LEMMA EnterType ==
  ASSUME TypeInv, pc = "op" => executed < MaxOps, pc \in {"op", "handed"},
         NEW name \in Callbacks, NEW op \in Ops, NEW node \in Nodes,
         name = "import_stream" => op \in Calls,
         Enter(name, op, node), UNCHANGED executed
  PROVE  ConTypeOK' /\ CtlTypeOK'
<1>1. PICK b \in Behaviours(node)[name] :
        /\ cb' = [name |-> name, op |-> op, acts |-> b.acts, refused |-> b.refused,
                  eof |-> FALSE]
        /\ ptr' = b.ptr /\ parsed' = b.parsed
  BY DEF Enter
<1>2. b \in Behaviour
  BY BehavioursType DEF TypeInv
<1>3. cb' \in Callee
  BY <1>1, <1>2 DEF Callee, Behaviour
<1>4. ptr' \subseteq Objects /\ parsed' \in BOOLEAN /\ consumer' = consumer
  BY <1>1, <1>2 DEF Behaviour, Enter
<1>5. pc' = "callback" /\ cb'.name = name /\ cb'.op = op
  BY <1>1 DEF Enter
<1> QED BY <1>3, <1>4, <1>5 DEF TypeInv, ConTypeOK, CtlTypeOK, UnderWay, PCs

LEMMA LetGoType ==
  ASSUME TypeInv, NEW o \in Outcomes, LetGo(o), executed < MaxOps,
         gotNext' \in BOOLEAN, lastEof' \in BOOLEAN
  PROVE  ConTypeOK' /\ ExeTypeOK' /\ CtlTypeOK'
<1>1. /\ asked' \in BOOLEAN /\ ConTypeOK' /\ cb' \in Callee
      /\ pc' \in PCs \ {"handed"} /\ cb'.name # "import_stream"
  <2>1. CASE handed # {} /\ Offers("release_base")
    <3>1. PICK b \in Behaviours(BASE)["release_base"] :
            /\ cb' = [Idle EXCEPT !.name = "release_base", !.acts = b.acts]
            /\ ptr' = b.ptr /\ parsed' = b.parsed
      BY <2>1 DEF LetGo
    <3>2. b \in Behaviour
      BY BehavioursType DEF TypeInv, Callbacks, Nodes
    <3>3. cb' \in Callee /\ cb'.name = "release_base"
      BY <3>1, <3>2, IdleType DEF Callee, Behaviour, Callbacks
    <3> QED BY <2>1, <3>1, <3>2, <3>3 DEF LetGo, TypeInv, ConTypeOK, Behaviour, PCs
  <2>2. CASE ~(handed # {} /\ Offers("release_base"))
    BY <2>2, IdleType DEF LetGo, TypeInv, ConTypeOK, ExeTypeOK, PCs
  <2> QED BY <2>1, <2>2
<1>2. ExeTypeOK'
  BY <1>1 DEF LetGo, TypeInv, ExeTypeOK
<1>3. UnderWay'
  BY <1>1 DEF LetGo, UnderWay
<1> QED BY <1>1, <1>2, <1>3 DEF CtlTypeOK

LEMMA StopWithType ==
  ASSUME TypeInv, NEW o \in Outcomes, StopWith(o), executed < MaxOps, RecTypeOK'
  PROVE  TypeInv'
BY LetGoType DEF StopWith, TypeInv, ExeTypeOK

LEMMA CompletedType ==
  ASSUME TypeInv, Completed, executed < MaxOps
  PROVE  CtlTypeOK' /\ executed' \in 0..MaxOps
BY IdleType, OpsAssumption DEF Completed, TypeInv, ExeTypeOK, CtlTypeOK, UnderWay, PCs

LEMMA RecUnchangedType ==
  ASSUME RecTypeOK, UNCHANGED recVars
  PROVE  RecTypeOK'
BY DEF recVars, RecTypeOK

\* An op that enters a callback and leaves the rest of the executor alone.
LEMMA EnteredType ==
  ASSUME TypeInv, pc = "op" => executed < MaxOps, pc \in {"op", "handed"},
         NEW name \in Callbacks, NEW op \in Ops, NEW node \in Nodes,
         name = "import_stream" => op \in Calls,
         Enter(name, op, node), RecTypeOK', UNCHANGED exeVars
  PROVE  TypeInv'
<1>1. ConTypeOK' /\ CtlTypeOK'
  BY EnterType DEF exeVars
<1>2. ExeTypeOK'
  BY DEF TypeInv, ExeTypeOK, exeVars
<1> QED BY <1>1, <1>2 DEF TypeInv

\* An op that completes and changes nothing of the executor's but its count.
LEMMA CompletedOpType ==
  ASSUME TypeInv, Completed, executed < MaxOps, RecTypeOK',
         asked' \in BOOLEAN, handed' \subseteq Objects, at' \in {"home", "exec"},
         gotNext' \in BOOLEAN, lastEof' \in BOOLEAN,
         UNCHANGED <<conVars, stream, array, dict, outcome, sweep>>
  PROVE  TypeInv'
<1>1. CtlTypeOK' /\ executed' \in 0..MaxOps
  BY CompletedType
<1>2. ConTypeOK'
  BY DEF TypeInv, ConTypeOK, conVars
<1>3. ExeTypeOK'
  BY <1>1 DEF TypeInv, ExeTypeOK
<1> QED BY <1>1, <1>2, <1>3 DEF TypeInv

LEMMA StreamCallType ==
  ASSUME TypeInv, pc = "op" => executed < MaxOps, pc \in {"op", "handed"},
         NEW op \in Calls, StreamCall(op)
  PROVE  TypeInv'
<1>1. RecTypeOK'
  BY RecUnchangedType DEF StreamCall, TypeInv
<1>2. executed < MaxOps
  BY DEF TypeInv, CtlTypeOK, UnderWay
<1>3. CASE Offers(CallbackOf[op])
  <2>1. /\ CallbackOf[op] \in Callbacks /\ CallbackOf[op] # "import_stream"
        /\ op \in Ops /\ BASE \in Nodes
    BY DEF CallbackOf, StreamOps, Callbacks, Calls, Ops, Nodes
  <2> QED BY <1>1, <1>3, <2>1, EnteredType DEF StreamCall
<1>4. CASE ~Offers(CallbackOf[op])
  BY <1>1, <1>2, <1>4, StopWithType DEF StreamCall, Outcomes
<1> QED BY <1>3, <1>4

\* Every op keeps the types.
LEMMA OpType ==
  ASSUME TypeInv, Op
  PROVE  TypeInv'
<1> USE DEF Outcomes
<1>0. /\ UNCHANGED recVars => RecTypeOK'
      /\ AtOp => pc = "op" /\ executed < MaxOps
      /\ BASE \in Nodes /\ DICT \in Nodes
      /\ handed \subseteq Objects /\ at \in {"home", "exec"}
      /\ gotNext \in BOOLEAN /\ lastEof \in BOOLEAN /\ asked \in BOOLEAN
  BY RecUnchangedType DEF TypeInv, ExeTypeOK, AtOp, Nodes
<1>1. CASE Nop
  BY <1>0, <1>1, CompletedOpType DEF Nop
<1>2. CASE PartOfStream
  BY <1>0, <1>2, StopWithType DEF PartOfStream
<1>3. CASE MoveStruct
  <2>1. CASE handed # {}
    BY <1>0, <1>3, <2>1, StopWithType DEF MoveStruct
  <2>2. CASE handed = {}
    <3>1. RecTypeOK'
      BY <1>3, <2>2, MoveType DEF MoveStruct, TypeInv, Places, Locations
    <3> QED BY <1>0, <1>3, <2>2, <3>1, CompletedOpType DEF MoveStruct
  <2> QED BY <2>1, <2>2
<1>4. ASSUME NEW kind \in {"schema", "array"}, NEW op \in Ops, Import(kind, op)
      PROVE  TypeInv'
  <2>1. CASE ImportRefused(kind) /\ UNCHANGED recVars
    BY <1>0, <1>4, <2>1, StopWithType DEF Import, ImportRefused
  <2>2. CASE NoteImport(Root[kind]) /\ Enter(ImportName[kind], op, BASE) /\ UNCHANGED exeVars
    <3>1. /\ Root[kind] \in Structs /\ ImportName[kind] \in Callbacks
          /\ ImportName[kind] # "import_stream"
      BY StructsAre DEF Root, ImportName, Callbacks
    <3>2. RecTypeOK'
      BY <2>2, <3>1, NoteImportType DEF TypeInv
    <3> QED BY <1>0, <1>4, <2>2, <3>1, <3>2, EnteredType DEF Import
  <2> QED BY <1>4, <2>1, <2>2 DEF Import
<1>5. CASE ReleaseBase
  <2>1. RecTypeOK'
    BY <1>0, <1>5 DEF ReleaseBase
  <2>2. CASE StopWith("unsupported") \/ StopWith("invalid")
    BY <1>0, <1>5, <2>1, <2>2, StopWithType DEF ReleaseBase
  <2>3. CASE /\ Enter("release_base", "RELEASE_BASE", BASE)
             /\ asked' = TRUE
             /\ UNCHANGED <<stream, array, dict, executed, at, handed, gotNext, lastEof,
                            outcome, sweep>>
    <3>1. ConTypeOK' /\ CtlTypeOK'
      BY <1>0, <1>5, <2>3, EnterType DEF ReleaseBase, Callbacks, Ops
    <3> QED BY <2>1, <2>3, <3>1 DEF TypeInv, ExeTypeOK
  <2> QED BY <1>5, <2>2, <2>3 DEF ReleaseBase
<1>6. CASE ReleaseDictionary
  <2>1. RecTypeOK' /\ "release_dictionary" \in Callbacks /\ "RELEASE_DICTIONARY" \in Ops
    BY <1>0, <1>6 DEF ReleaseDictionary, Callbacks, Ops
  <2> QED BY <1>0, <1>6, <2>1, StopWithType, EnteredType DEF ReleaseDictionary
<1>7. CASE UseAfterRelease
  BY <1>0, <1>7, StopWithType DEF UseAfterRelease
<1>8. ASSUME NEW i \in Children, ReleaseChild(i) PROVE TypeInv'
  <2>1. /\ RecTypeOK' /\ "release_child" \in Callbacks /\ "RELEASE_CHILD" \in Ops
        /\ i \in Nodes
    BY <1>0, <1>8 DEF ReleaseChild, Callbacks, Ops, Children, Nodes
  <2> QED BY <1>0, <1>8, <2>1, StopWithType, EnteredType DEF ReleaseChild
<1>9. ASSUME NEW op \in Calls, StreamOp(op) PROVE TypeInv'
  <2>1. CASE StreamCall(op)
    BY <1>0, <1>9, <2>1, StreamCallType DEF StreamOp
  <2>2. CASE StopWith("unsupported") /\ UNCHANGED recVars
    BY <1>0, <1>9, <2>2, StopWithType DEF StreamOp
  <2>3. CASE NoteImport(Stream) /\ Enter("import_stream", op, BASE) /\ UNCHANGED exeVars
    <3>1. RecTypeOK'
      BY <2>3, NoteImportType, StructsAre DEF TypeInv
    <3>2. "import_stream" \in Callbacks /\ op \in Ops
      BY DEF Callbacks, Ops, Calls
    <3> QED BY <1>0, <1>9, <2>3, <3>1, <3>2, EnteredType DEF StreamOp
  <2> QED BY <1>9, <2>1, <2>2, <2>3 DEF StreamOp
<1>10. CASE ExpectEof
  <2>1. CASE gotNext /\ lastEof
    BY <1>0, <1>10, <2>1, CompletedOpType DEF ExpectEof
  <2>2. CASE ~(gotNext /\ lastEof)
    BY <1>0, <1>10, <2>2, StopWithType DEF ExpectEof
  <2> QED BY <2>1, <2>2
<1>11. CASE HandedOver
  BY <1>11, StreamCallType DEF HandedOver, TypeInv, CtlTypeOK, UnderWay
<1>12. CASE EndOfSequence
  BY <1>0, <1>12
  DEF EndOfSequence, TypeInv, ConTypeOK, ExeTypeOK, CtlTypeOK, UnderWay, PCs, conVars, exeVars
<1> QED BY <1>1, <1>2, <1>3, <1>4, <1>5, <1>6, <1>7, <1>8, <1>9, <1>10, <1>11, <1>12
        DEF Op, Ops, Calls

\* A step of a callback leaves the executor alone.
CallbackStep ==
  /\ RecTypeOK' /\ UNCHANGED <<conVars, exeVars>>
  /\ \/ UNCHANGED <<pc, cb>>
     \/ pc' = "crashed" /\ UNCHANGED cb
     \/ pc' = pc /\ \E acts \in Seq(Act), refused, eof \in BOOLEAN :
          cb' = [cb EXCEPT !.acts = acts, !.refused = refused, !.eof = eof]

LEMMA CallbackStepType ==
  ASSUME TypeInv, CallbackStep
  PROVE  TypeInv'
<1>1. ConTypeOK' /\ ExeTypeOK'
  BY DEF CallbackStep, TypeInv, ConTypeOK, ExeTypeOK, conVars, exeVars
<1>2. pc' \in PCs /\ (pc' = pc \/ pc' = "crashed")
  BY DEF CallbackStep, TypeInv, CtlTypeOK, PCs
<1>3. cb' \in Callee /\ cb'.name = cb.name /\ cb'.op = cb.op
  <2>1. CASE UNCHANGED cb
    BY <2>1 DEF TypeInv, CtlTypeOK
  <2>2. ASSUME NEW acts \in Seq(Act), NEW refused \in BOOLEAN, NEW eof \in BOOLEAN,
               cb' = [cb EXCEPT !.acts = acts, !.refused = refused, !.eof = eof]
        PROVE  cb' \in Callee /\ cb'.name = cb.name /\ cb'.op = cb.op
    BY <2>2 DEF TypeInv, CtlTypeOK, Callee
  <2> QED BY <2>1, <2>2 DEF CallbackStep
<1>4. UnderWay'
  BY <1>2, <1>3 DEF TypeInv, CtlTypeOK, UnderWay, CallbackStep, exeVars
<1> QED BY <1>1, <1>2, <1>3, <1>4 DEF TypeInv, CtlTypeOK, CallbackStep

\* The act up next, and what is left once it is done.
LEMMA NowType ==
  ASSUME TypeInv, InCallback
  PROVE  /\ Now \in Act /\ Tail(cb.acts) \in Seq(Act)
         /\ cb.refused \in BOOLEAN /\ cb.eof \in BOOLEAN
<1>1. cb.acts \in Seq(Act) /\ cb.acts # <<>> /\ cb.refused \in BOOLEAN /\ cb.eof \in BOOLEAN
  BY DEF TypeInv, CtlTypeOK, Callee, InCallback
<1> QED BY <1>1, HeadTailProperties DEF Now

LEMMA ActedStep ==
  ASSUME TypeInv, InCallback, Acted
  PROVE  \E acts \in Seq(Act), refused, eof \in BOOLEAN :
           cb' = [cb EXCEPT !.acts = acts, !.refused = refused, !.eof = eof]
<1>1. cb' = [cb EXCEPT !.acts = Tail(cb.acts), !.refused = cb.refused, !.eof = cb.eof]
  BY DEF Acted, TypeInv, CtlTypeOK, Callee
<1> QED BY <1>1, NowType

LEMMA CallbackType ==
  ASSUME TypeInv, Callback
  PROVE  TypeInv'
<1> USE DEF CallbackStep
<1>0. (UNCHANGED recVars => RecTypeOK') /\ RecTypeOK
  BY RecUnchangedType DEF TypeInv
<1>1. CASE Crash
  BY <1>0, <1>1, CallbackStepType DEF Crash
<1>2. CASE ActRelease
  <2>1. RecTypeOK'
    <3>1. Now.node \in Nodes /\ Now.s \in Structs /\ <<>> \in Seq(Event)
      BY <1>2, NowType DEF ActRelease, Act
    <3> QED BY <1>0, <1>2, <3>1, ReleaseKidType, ReleaseType DEF ActRelease
  <2> QED BY <1>2, <2>1, ActedStep, CallbackStepType DEF ActRelease
<1>3. CASE ActTake
  <2>1. RecTypeOK'
    <3>1. Now.s \in Structs
      BY <1>3, NowType DEF ActTake, Act
    <3> QED BY <1>0, <1>3, <3>1, TakeType DEF ActTake
  <2> QED BY <1>3, <2>1, ActedStep, CallbackStepType DEF ActTake
<1>4. CASE ActGetSchema
  <2>1. PICK k \in 1..MaxSchemas :
          \/ GetSchema(k) /\ Acted
          \/ /\ GetSchemaRunsOut(k)
             /\ cb' = [cb EXCEPT !.refused = TRUE,
                         !.acts = IF cb.name = "import_stream" THEN <<Rel(Stream)>> ELSE <<>>]
    BY <1>4 DEF ActGetSchema
  <2>2. RecTypeOK'
    BY <1>0, <2>1, GetSchemaType
  <2>3. CASE Acted
    BY <1>4, <2>2, <2>3, ActedStep, CallbackStepType DEF ActGetSchema
  <2>4. CASE cb' = [cb EXCEPT !.refused = TRUE,
                      !.acts = IF cb.name = "import_stream" THEN <<Rel(Stream)>> ELSE <<>>]
    <3> DEFINE acts == IF cb.name = "import_stream" THEN <<Rel(Stream)>> ELSE <<>>
    <3>1. acts \in Seq(Act)
      BY ActsAre, StructsAre
    <3>2. cb' = [cb EXCEPT !.acts = acts, !.refused = TRUE, !.eof = cb.eof]
      BY <2>4 DEF TypeInv, CtlTypeOK, Callee
    <3>3. cb.eof \in BOOLEAN /\ TRUE \in BOOLEAN
      BY <1>4, NowType DEF ActGetSchema
    <3> HIDE DEF acts
    <3> QED BY <1>4, <2>2, <3>1, <3>2, <3>3, CallbackStepType DEF ActGetSchema
  <2> QED BY <2>1, <2>3, <2>4
<1>5. CASE ActGetNext
  <2>1. RecTypeOK'
    BY <1>0, <1>5, GetNextType DEF ActGetNext
  <2>2. cb' = [cb EXCEPT !.acts = Tail(cb.acts), !.refused = cb.refused, !.eof = ~Undelivered]
    BY <1>5 DEF ActGetNext, TypeInv, CtlTypeOK, Callee
  <2>3. (~Undelivered) \in BOOLEAN
    BY DEF Undelivered
  <2> QED BY <1>5, <2>1, <2>2, <2>3, NowType, CallbackStepType DEF ActGetNext
<1>6. CASE ActGetLastError
  BY <1>0, <1>6, ActedStep, CallbackStepType DEF ActGetLastError
<1>7. CASE FreeAct
  <2>1. RecTypeOK'
    <3>1. <<>> \in Seq(Event)
      OBVIOUS
    <3> QED BY <1>0, <1>7, <3>1, ReleaseType, TakeType DEF FreeAct
  <2> QED BY <1>7, <2>1, CallbackStepType DEF FreeAct
<1> QED BY <1>1, <1>2, <1>3, <1>4, <1>5, <1>6, <1>7 DEF Callback

LEMMA ReturnType ==
  ASSUME TypeInv, Return
  PROVE  TypeInv'
<1> USE DEF Outcomes
<1>0. /\ UNCHANGED recVars => RecTypeOK'
      /\ pc = "callback" => executed < MaxOps
      /\ handed \subseteq Objects /\ at \in {"home", "exec"} /\ at \in Places
      /\ gotNext \in BOOLEAN /\ lastEof \in BOOLEAN /\ asked \in BOOLEAN
      /\ cb.eof \in BOOLEAN
  BY RecUnchangedType
  DEF TypeInv, ExeTypeOK, CtlTypeOK, UnderWay, Callee, Places, Locations
<1>1. ASSUME NEW kind \in Objects, ReturnImport(kind) PROVE TypeInv'
  <2>1. CASE cb.refused
    <3>1. Root[kind] \in Structs
      BY StructsAre DEF Root, Objects
    <3>2. RecTypeOK'
      BY <1>0, <1>1, <2>1, <3>1, NoteReturnedType DEF ReturnImport, TypeInv
    <3> QED BY <1>0, <1>1, <2>1, <3>2, StopWithType DEF ReturnImport, Returns
  <2>2. CASE ~cb.refused /\ kind # "stream"
    BY <1>0, <1>1, <2>2, CompletedOpType DEF ReturnImport, Returns
  <2>3. CASE ~cb.refused /\ kind = "stream"
    <3>1. /\ pc' = "handed" /\ pc = "callback" /\ cb.name = "import_stream"
          /\ handed' \subseteq Objects /\ asked' = FALSE
          /\ UNCHANGED <<recVars, conVars, executed, cb, stream, array, dict, at,
                         gotNext, lastEof, outcome, sweep>>
      BY <1>0, <1>1, <2>3 DEF ReturnImport, Returns, ImportName, Objects
    <3>2. RecTypeOK' /\ ConTypeOK' /\ ExeTypeOK'
      BY <1>0, <3>1 DEF TypeInv, ConTypeOK, ExeTypeOK, conVars
    <3>3. CtlTypeOK'
      BY <3>1 DEF TypeInv, CtlTypeOK, UnderWay, PCs
    <3> QED BY <3>2, <3>3 DEF TypeInv
  <2> QED BY <2>1, <2>2, <2>3
<1>2. CASE ReturnReleaseBase
  <2>1. CASE outcome = "accepted"
    BY <1>0, <1>2, <2>1, CompletedOpType DEF ReturnReleaseBase, Returns
  <2>2. CASE outcome # "accepted"
    <3>1. CtlTypeOK'
      BY <1>2, <2>2, IdleType DEF ReturnReleaseBase, CtlTypeOK, UnderWay, PCs
    <3>2. ConTypeOK' /\ ExeTypeOK'
      BY <1>2, <2>2 DEF ReturnReleaseBase, TypeInv, ConTypeOK, ExeTypeOK, conVars
    <3> QED BY <1>0, <1>2, <3>1, <3>2 DEF ReturnReleaseBase, TypeInv
  <2> QED BY <2>1, <2>2
<1>3. CASE ReturnMisuse
  BY <1>0, <1>3, CompletedOpType DEF ReturnMisuse, Returns
<1>4. CASE ReturnStreamCall
  <2>1. CASE cb.refused
    BY <1>0, <1>4, <2>1, StopWithType DEF ReturnStreamCall, Returns
  <2>2. CASE ~cb.refused
    BY <1>0, <1>4, <2>2, CompletedOpType DEF ReturnStreamCall, Returns
  <2> QED BY <2>1, <2>2
<1>5. CASE ReturnGetNext
  <2>1. CASE cb.refused
    <3>1. ConTypeOK' /\ ExeTypeOK' /\ CtlTypeOK'
      BY <1>0, <1>5, <2>1, LetGoType DEF ReturnGetNext, Returns
    <3> QED BY <1>0, <1>5, <3>1 DEF ReturnGetNext, TypeInv
  <2>2. CASE ~cb.refused
    BY <1>0, <1>5, <2>2, CompletedOpType DEF ReturnGetNext, Returns
  <2> QED BY <2>1, <2>2
<1> QED BY <1>1, <1>2, <1>3, <1>4, <1>5 DEF Return

LEMMA FinishType ==
  ASSUME TypeInv, Finish
  PROVE  TypeInv'
<1>0. RecTypeOK /\ (UNCHANGED recVars => RecTypeOK')
  BY RecUnchangedType DEF TypeInv
<1>1. CASE SweepStep
  <2> DEFINE step == SweepSteps[sweep + 1]
  <2>1. sweep \in 0..5 /\ sweep' = sweep + 1 /\ HarnessRelease(step.s, step.at)
    BY <1>1 DEF SweepStep, SweepSteps, TypeInv, ExeTypeOK
  <2>2. step.s \in Structs /\ step.at \in {"home", "exec"}
    BY <2>1, StructsAre DEF SweepSteps, TypeInv, ExeTypeOK
  <2>3. RecTypeOK'
    BY <1>0, <2>1, <2>2, HarnessReleaseType DEF Places, Locations
  <2>4. ConTypeOK' /\ ExeTypeOK' /\ CtlTypeOK'
    BY <1>1, <2>1
    DEF SweepStep, TypeInv, ConTypeOK, ExeTypeOK, CtlTypeOK, UnderWay, conVars
  <2> QED BY <2>3, <2>4 DEF TypeInv
<1>2. CASE Judge
  <2>1. RecTypeOK'
    BY <1>0, <1>2, FreeBackingType DEF Judge
  <2> QED BY <1>2, <2>1
    DEF Judge, TypeInv, ConTypeOK, ExeTypeOK, CtlTypeOK, UnderWay, PCs, conVars, exeVars
<1>3. CASE Report
  BY <1>0, <1>3
  DEF Report, TypeInv, ConTypeOK, ExeTypeOK, CtlTypeOK, UnderWay, PCs, conVars, exeVars
<1>4. CASE ConsumerGone
  <2>1. RecTypeOK'
    BY <1>0, <1>4 DEF ConsumerGone, RecTypeOK, Places
  <2>2. pc' \in {"gone", "crashed"} /\ UNCHANGED <<conVars, exeVars, cb>>
    BY <1>4 DEF ConsumerGone
  <2> QED BY <2>1, <2>2
    DEF TypeInv, ConTypeOK, ExeTypeOK, CtlTypeOK, UnderWay, PCs, conVars, exeVars
<1> QED BY <1>1, <1>2, <1>3, <1>4 DEF Finish

LEMMA TypeInvInit ==
  ASSUME Init
  PROVE  TypeInv
<1>1. PICK nodes \in KidSets : Built(stream, array, nodes) /\ dict = (array /\ DICT \in nodes)
  BY DEF Init
<1>2. nodes \in SUBSET Kids
  BY KidsAssumption
<1>3. RecTypeOK
  BY <1>1, <1>2, BuiltType DEF Init
<1>4. ConTypeOK
  BY DEF Init, ConTypeOK
<1>5. ExeTypeOK
  <2>1. dict \in BOOLEAN
    BY <1>1, Zenon
  <2>2. /\ stream \in BOOLEAN /\ array \in BOOLEAN /\ executed = 0 /\ at = "home"
        /\ handed = {} /\ outcome = "accepted" /\ gotNext = FALSE /\ lastEof = FALSE
        /\ asked = FALSE /\ sweep = 0
    BY DEF Init
  <2>3. executed \in 0..MaxOps /\ sweep \in 0..6
    BY <2>2, OpsAssumption
  <2> QED BY <2>1, <2>2, <2>3 DEF ExeTypeOK, Outcomes
<1>6. CtlTypeOK
  BY IdleType DEF Init, CtlTypeOK, UnderWay, PCs
<1> QED BY <1>3, <1>4, <1>5, <1>6 DEF TypeInv

LEMMA TypeInvStep ==
  ASSUME TypeInv, [Next]_vars
  PROVE  TypeInv'
<1>1. CASE UNCHANGED vars
  BY <1>1, RecUnchangedType
  DEF vars, TypeInv, ConTypeOK, ExeTypeOK, CtlTypeOK, UnderWay, conVars, exeVars
<1> QED BY <1>1, OpType, CallbackType, ReturnType, FinishType DEF Next, Stopped

\* Every variable keeps its type whatever the consumer does: above all, the
\* observer's log never outgrows its array (obs_event()), and what it holds is
\* always a log the judge can read.
THEOREM TypeCorrect == Spec => []TypeOK
BY TypeInvInit, TypeInvStep, TypeInvIs, PTL DEF Spec

-----------------------------------------------------------------------------
(* The buffers outlive the array. *)

BuffersInv ==
  /\ place \in [Structs -> Places]
  /\ BuffersOutliveArray

\* No step brings a dead array back, and one that frees the buffers has ended
\* the array.
ArrayKept ==
  /\ place' \in [Structs -> Places]
  /\ IsLive(Array)' => IsLive(Array) /\ (buffers => buffers')

LEMMA SameArrayKept ==
  ASSUME place \in [Structs -> Places], UNCHANGED <<place, buffers>>
  PROVE  ArrayKept
BY DEF ArrayKept, IsLive

LEMMA ReleaseKept ==
  ASSUME place \in [Structs -> Places], NEW s, NEW harness, NEW before,
         Release(s, harness, before)
  PROVE  ArrayKept
<1>1. CASE Array \in Ended(s)
  <2>1. place'[Array] = "dead" /\ place' \in [Structs -> Places]
    BY <1>1, StructsAre DEF Release, Places
  <2> QED BY <2>1 DEF ArrayKept, IsLive, Locations
<1>2. CASE Array \notin Ended(s)
  BY <1>2, StructsAre DEF Release, ArrayKept, IsLive, Places
<1> QED BY <1>1, <1>2

LEMMA HarnessReleaseKept ==
  ASSUME place \in [Structs -> Places], NEW s, NEW where, HarnessRelease(s, where)
  PROVE  ArrayKept
BY ReleaseKept, SameArrayKept DEF HarnessRelease, recVars

LEMMA TakeKept ==
  ASSUME place \in [Structs -> Places], NEW s \in Structs, Take(s)
  PROVE  ArrayKept
BY StructsAre DEF Take, ArrayKept, IsLive, Places, Locations

LEMMA MoveKept ==
  ASSUME place \in [Structs -> Places], NEW moved, Move(moved, "exec")
  PROVE  ArrayKept
BY StructsAre DEF Move, ArrayKept, IsLive, Places, Locations

LEMMA DeliveryKept ==
  ASSUME place \in [Structs -> Places],
         GetNext \/ \E k \in 1..MaxSchemas : GetSchema(k) \/ GetSchemaRunsOut(k)
  PROVE  ArrayKept
<1>1. CASE GetNext
  BY <1>1, StructsAre DEF GetNext, Undelivered, ArrayKept, IsLive, Places, Locations
<1>2. ASSUME NEW k \in 1..MaxSchemas, GetSchema(k) \/ GetSchemaRunsOut(k)
      PROVE  ArrayKept
  <2>1. Schema(k) \in Schemas /\ Schema(k) # Array
    BY StructsAre DEF Schemas
  <2> QED BY <1>2, <2>1, StructsAre
          DEF GetSchema, GetSchemaRunsOut, ArrayKept, IsLive, Places, Locations
<1> QED BY <1>1, <1>2

LEMMA OpKept ==
  ASSUME place \in [Structs -> Places], Op
  PROVE  ArrayKept
<1> USE SameArrayKept DEF recVars
<1>1. CASE Nop \/ PartOfStream \/ ReleaseBase \/ ReleaseDictionary \/ UseAfterRelease
  BY <1>1 DEF Nop, PartOfStream, ReleaseBase, ReleaseDictionary, UseAfterRelease
<1>2. CASE MoveStruct
  BY <1>2, MoveKept DEF MoveStruct
<1>3. ASSUME NEW kind, NEW op, Import(kind, op) PROVE ArrayKept
  BY <1>3 DEF Import, NoteImport
<1>4. ASSUME NEW i \in Children, ReleaseChild(i) PROVE ArrayKept
  BY <1>4 DEF ReleaseChild
<1>5. ASSUME NEW op, StreamOp(op) PROVE ArrayKept
  BY <1>5 DEF StreamOp, StreamCall, NoteImport
<1>6. CASE ExpectEof \/ HandedOver \/ EndOfSequence
  BY <1>6 DEF ExpectEof, HandedOver, StreamCall, EndOfSequence
<1> QED BY <1>1, <1>2, <1>3, <1>4, <1>5, <1>6 DEF Op

LEMMA CallbackKept ==
  ASSUME TypeInv, Callback
  PROVE  ArrayKept
<1> USE SameArrayKept DEF recVars
<1>0. place \in [Structs -> Places]
  BY DEF TypeInv, RecTypeOK
<1>1. CASE Crash \/ ActGetLastError
  BY <1>0, <1>1 DEF Crash, ActGetLastError
<1>2. CASE ActRelease
  BY <1>0, <1>2, ReleaseKept DEF ActRelease, ReleaseKid
<1>3. CASE ActTake
  <2>1. Now.s \in Structs
    BY <1>3, NowType DEF ActTake, Act
  <2> QED BY <1>0, <1>3, <2>1, TakeKept DEF ActTake
<1>4. CASE ActGetSchema
  BY <1>0, <1>4, DeliveryKept DEF ActGetSchema
<1>5. CASE ActGetNext
  BY <1>0, <1>5, DeliveryKept DEF ActGetNext
<1>6. CASE FreeAct
  BY <1>0, <1>6, ReleaseKept, TakeKept DEF FreeAct
<1> QED BY <1>1, <1>2, <1>3, <1>4, <1>5, <1>6 DEF Callback

LEMMA ReturnKept ==
  ASSUME place \in [Structs -> Places], Return
  PROVE  ArrayKept
<1> USE SameArrayKept DEF recVars
<1>1. ASSUME NEW kind, ReturnImport(kind) PROVE ArrayKept
  BY <1>1 DEF ReturnImport, NoteReturned
<1> QED BY <1>1
        DEF Return, ReturnReleaseBase, ReturnMisuse, ReturnStreamCall, ReturnGetNext

\* Nothing returns to the sequence once its cleanup is over.
Over == {"judged", "freed", "gone", "crashed"}

LEMMA BuffersStep ==
  ASSUME BuffersInv, TypeInv, [Next]_vars
  PROVE  BuffersInv'
<1>0. place \in [Structs -> Places]
  BY DEF BuffersInv
<1>1. CASE Judge \/ Report \/ ConsumerGone
  <2>1. pc' \in Over
    BY <1>1 DEF Judge, Report, ConsumerGone, Over
  <2>2. place' \in [Structs -> Places]
    BY <1>0, <1>1 DEF Judge, FreeBacking, Report, ConsumerGone, recVars, Places
  <2> QED BY <2>1, <2>2 DEF BuffersInv, BuffersOutliveArray, Over
<1>2. CASE Op \/ Callback \/ Return \/ SweepStep
  <2>1. ArrayKept
    BY <1>0, <1>2, OpKept, CallbackKept, ReturnKept, HarnessReleaseKept DEF SweepStep
  <2>2. pc \notin Over
    BY <1>2
    DEF Op, Nop, PartOfStream, MoveStruct, Import, ReleaseBase, ReleaseDictionary,
        UseAfterRelease, ReleaseChild, StreamOp, ExpectEof, HandedOver, EndOfSequence,
        AtOp, Callback, Crash, ActRelease, ActTake, ActGetSchema, ActGetNext,
        ActGetLastError, FreeAct, InCallback, Return, Returns, ReturnImport,
        ReturnReleaseBase, ReturnMisuse, ReturnStreamCall, ReturnGetNext, SweepStep, Over
  <2> QED BY <2>1, <2>2 DEF BuffersInv, BuffersOutliveArray, ArrayKept, Over
<1>3. CASE UNCHANGED vars
  BY <1>3 DEF vars, recVars, BuffersInv, BuffersOutliveArray, IsLive
<1> QED BY <1>1, <1>2, <1>3 DEF Next, Finish, Stopped

\* An array somebody may still read has its buffers until the cleanup ends,
\* whatever the consumer releases, moves or keeps (array_release()).
THEOREM BuffersKept == Spec => []BuffersOutliveArray
<1>1. Init => BuffersInv
  <2> SUFFICES ASSUME Init PROVE BuffersInv
    OBVIOUS
  <2>1. place \in [Structs -> Places]
    BY TypeInvInit DEF TypeInv, RecTypeOK
  <2>2. buffers = TRUE
    BY DEF Init, Built
  <2> QED BY <2>1, <2>2 DEF BuffersInv, BuffersOutliveArray
<1>2. BuffersInv => BuffersOutliveArray
  BY DEF BuffersInv
<1> QED BY <1>1, <1>2, TypeInvInit, TypeInvStep, BuffersStep, PTL DEF Spec

-----------------------------------------------------------------------------
(* The verdict is exact. *)

\* What the consumer has been shown: what it took, and what it is being shown.
Given ==
  handed \cup (IF pc = "callback" THEN {kind \in Objects : cb.name = ImportName[kind]} ELSE {})

\* The kinds a case hands over itself.
Due(kind) ==
  IF stream THEN kind = "stream" ELSE kind = "schema" \/ (kind = "array" /\ array)

\* Live, where the harness can reach it, and the harness's.
Intact(kind) ==
  LET s == Root[kind] IN IsLive(s) /\ place[s] # "own" /\ owner[s] = "harness"

\* What a consumer that keeps to what it was given may release or take.
Allowed(given, s) == s.obj \in given \/ (stream /\ s # Stream)
Rightful(given) ==
  {a \in Act : a.do = "take" \/ (a.do = "release" /\ a.node = BASE) => Allowed(given, a.s)}

ShapeInv ==
  /\ (place[Stream] # "unborn") <=> stream
  /\ (place[Array] # "unborn") <=> array
  /\ ~stream => place[Schema(1)] # "unborn" /\ \A s \in Schemas : s # Schema(1) => place[s] = "unborn"
  /\ stream => \A s \in Schemas : place[s] \in {"unborn", "own", "dead"}
  /\ place[Schema(1)] = "unborn" => \A s \in Schemas : place[s] = "unborn"
  /\ \A s \in Structs : place[s] = "unborn" => owner[s] = "harness"
  /\ stream /\ place[Array] = "home" => owner[Array] = "harness"

Running == pc \in {"op", "callback", "handed"}

Untouched(given) == \A kind \in Objects \ given : Due(kind) => Intact(kind)

GivenInv ==
  /\ outcome # "accepted" => pc \notin {"op", "handed"} /\ (pc = "callback" => cb.name = "release_base")
  /\ stream => handed \subseteq {"stream"}
  /\ ~stream => "stream" \notin handed
  /\ pc = "handed" => stream
  /\ pc = "callback" => (cb.name = "import_stream" => stream)
  /\ pc = "callback" /\ stream => cb.name \notin {"import_schema", "import_array"}
  /\ outcome = "accepted" /\ Running => ptr \subseteq Given /\ Untouched(Given)
  /\ outcome = "accepted" /\ pc = "callback" => cb.acts \in Seq(Rightful(Given))

\* What a step does to the reconstruction.
RecStep ==
  \/ UNCHANGED recVars
  \/ FreeBacking
  \/ \E s \in Structs : IsLive(s) /\ Release(s, FALSE, <<>>)
  \/ \E s \in Structs : IsLive(s) /\ Release(s, TRUE, <<Note("harness", s, place[s])>>)
  \/ \E k \in Kids : k \in kids /\ ReleaseKid(k)
  \/ \E kind \in Objects : Due(kind) /\ Intact(kind) /\ NoteImport(Root[kind])
  \/ \E kind \in Objects : place[Root[kind]] = at /\ NoteReturned(Root[kind], at)
  \/ /\ ~stream /\ Intact("schema") /\ (array => Intact("array"))
     /\ Move({Schema(1)} \cup (IF array THEN {Array} ELSE {}), "exec")
  \/ \E s \in Structs : Take(s)
  \/ /\ stream
     /\ \E k \in 1..MaxSchemas : NextSchema(k) /\ (GetSchema(k) \/ GetSchemaRunsOut(k))
  \/ stream /\ GetNext
  \/ /\ pc' = "gone"
     /\ place' = [s \in Structs |-> IF place[s] = "own" THEN "dead" ELSE place[s]]
     /\ UNCHANGED <<kids, buffers, log, dropped, owner, givenAt, sins>>

SameCase == UNCHANGED <<stream, array, consumer>>

LEMMA RootsAre ==
  /\ Root["schema"] = Schema(1) /\ Root["array"] = Array /\ Root["stream"] = Stream
  /\ \A kind \in Objects : Root[kind] \in Structs /\ Root[kind].obj = kind
  /\ Schema(1).obj = "schema" /\ Array.obj = "array" /\ Stream.obj = "stream"
  /\ \A s \in Schemas : s.obj = "schema"
BY StructsAre DEF Root, Objects, Schema, Array, Stream, Schemas

LEMMA LetGoSame == ASSUME NEW o, LetGo(o) PROVE SameCase
BY DEF LetGo, SameCase

LEMMA EnterSame == ASSUME NEW name, NEW op, NEW node, Enter(name, op, node) PROVE UNCHANGED consumer
BY DEF Enter

LEMMA OpRec ==
  ASSUME TypeInv, ShapeInv, GivenInv, Op
  PROVE  RecStep /\ SameCase
<1> USE LetGoSame, EnterSame DEF StopWith, exeVars, conVars, SameCase
<1>0. (UNCHANGED recVars => RecStep)
  BY DEF RecStep
<1>00. pc = "op" => outcome = "accepted" /\ Given = handed /\ Untouched(Given)
  BY DEF GivenInv, Given, Running
<1>1. CASE Nop \/ PartOfStream \/ ReleaseBase \/ ReleaseDictionary \/ UseAfterRelease
  BY <1>0, <1>1 DEF Nop, PartOfStream, ReleaseBase, ReleaseDictionary, UseAfterRelease
<1>2. CASE MoveStruct
  <2>1. CASE handed # {}
    BY <1>0, <1>2, <2>1 DEF MoveStruct
  <2>2. CASE handed = {}
    <3>1. /\ Move({Schema(1)} \cup (IF array THEN {Array} ELSE {}), "exec")
          /\ ~stream /\ SameCase
      BY <1>2, <2>2 DEF MoveStruct
    <3>2. Intact("schema") /\ (array => Intact("array"))
      BY <1>00, <1>2, <2>2, <3>1 DEF MoveStruct, AtOp, Untouched, Due, Objects
    <3> QED BY <3>1, <3>2 DEF RecStep
  <2> QED BY <2>1, <2>2
<1>3. ASSUME NEW kind \in {"schema", "array"}, NEW op, Import(kind, op)
      PROVE  RecStep /\ SameCase
  <2>1. CASE UNCHANGED recVars /\ ImportRefused(kind)
    BY <1>0, <2>1 DEF ImportRefused
  <2>2. CASE Importable(kind) /\ NoteImport(Root[kind]) /\ Enter(ImportName[kind], op, BASE) /\ UNCHANGED exeVars
    <3>1. Due(kind) /\ Intact(kind)
      BY <1>00, <1>3, <2>2 DEF Import, AtOp, Importable, Untouched, Due, Objects
    <3> QED BY <2>2, <3>1 DEF RecStep, Objects
  <2> QED BY <1>3, <2>1, <2>2 DEF Import
<1>4. ASSUME NEW i \in Children, ReleaseChild(i) PROVE RecStep /\ SameCase
  BY <1>0, <1>4 DEF ReleaseChild
<1>5. ASSUME NEW op, StreamCall(op) PROVE RecStep /\ SameCase
  BY <1>0, <1>5 DEF StreamCall
<1>6. ASSUME NEW op, StreamOp(op) PROVE RecStep /\ SameCase
  <2>1. CASE StreamCall(op)
    BY <1>5, <2>1
  <2>2. CASE StopWith("unsupported") /\ UNCHANGED recVars
    BY <1>0, <2>2
  <2>3. CASE "stream" \notin handed /\ NoteImport(Stream) /\ Enter("import_stream", op, BASE) /\ UNCHANGED exeVars
    <3>1. Due("stream") /\ Intact("stream")
      BY <1>00, <1>6, <2>3 DEF StreamOp, AtOp, Untouched, Due, Objects
    <3> QED BY <2>3, <3>1, RootsAre DEF RecStep, Objects
  <2> QED BY <1>6, <2>1, <2>2, <2>3 DEF StreamOp
<1>7. CASE ExpectEof \/ EndOfSequence
  BY <1>0, <1>7 DEF ExpectEof, EndOfSequence
<1>8. CASE HandedOver
  BY <1>5, <1>8 DEF HandedOver
<1> QED BY <1>1, <1>2, <1>3, <1>4, <1>6, <1>7, <1>8 DEF Op

LEMMA CallbackRec ==
  ASSUME TypeInv, ShapeInv, GivenInv, Callback
  PROVE  RecStep /\ SameCase
<1> USE DEF exeVars, conVars, SameCase
<1>0. (UNCHANGED recVars => RecStep)
  BY DEF RecStep
<1>1. CASE Crash \/ ActGetLastError
  BY <1>0, <1>1 DEF Crash, ActGetLastError
<1>2. CASE ActRelease
  <2>1. Now.s \in Structs /\ Now.node \in Nodes
    BY <1>2, NowType DEF ActRelease, Act
  <2>2. CASE Now.node # BASE /\ ReleaseKid(Now.node)
    <3>1. Now.node \in Kids
      BY <2>1, <2>2 DEF Nodes, Kids
    <3>2. CASE Now.node \in kids
      BY <1>2, <2>2, <3>1, <3>2 DEF RecStep, ActRelease
    <3>3. CASE Now.node \notin kids
      <4>1. kids' = kids
        BY <2>2, <3>3 DEF ReleaseKid
      <4>2. UNCHANGED recVars
        BY <2>2, <3>3, <4>1 DEF ReleaseKid, recVars
      <4> QED BY <1>0, <1>2, <4>2 DEF ActRelease
    <3> QED BY <3>2, <3>3
  <2>3. CASE IsLive(Now.s) /\ Release(Now.s, FALSE, <<>>)
    BY <1>2, <2>1, <2>3 DEF RecStep, ActRelease
  <2>4. CASE UNCHANGED recVars
    BY <1>0, <1>2, <2>4 DEF ActRelease
  <2> QED BY <1>2, <2>2, <2>3, <2>4 DEF ActRelease
<1>3. CASE ActTake
  <2>1. Now.s \in Structs
    BY <1>3, NowType DEF ActTake, Act
  <2> QED BY <1>3, <2>1 DEF RecStep, ActTake
<1>4. CASE ActGetSchema
  <2>1. IsLive(Stream)
    BY <1>4 DEF ActGetSchema, Crashes
  <2>2. stream
    BY <2>1 DEF ShapeInv, IsLive, Locations
  <2>3. PICK k \in 1..MaxSchemas : NextSchema(k) /\ (GetSchema(k) \/ GetSchemaRunsOut(k))
    BY <1>4 DEF ActGetSchema
  <2>4. RecStep
    BY <2>2, <2>3 DEF RecStep
  <2> QED BY <1>4, <2>4 DEF ActGetSchema
<1>5. CASE ActGetNext
  <2>1. IsLive(Stream)
    BY <1>5 DEF ActGetNext, Crashes
  <2>2. stream
    BY <2>1 DEF ShapeInv, IsLive, Locations
  <2> QED BY <1>5, <2>2 DEF RecStep, ActGetNext
<1>7. CASE FreeAct
  BY <1>7 DEF FreeAct, RecStep, Held
<1> QED BY <1>1, <1>2, <1>3, <1>4, <1>5, <1>7 DEF Callback

LEMMA ReturnRec ==
  ASSUME TypeInv, ShapeInv, GivenInv, Return
  PROVE  RecStep /\ SameCase
<1> USE LetGoSame DEF exeVars, conVars, SameCase, StopWith
<1>0. (UNCHANGED recVars => RecStep)
  BY DEF RecStep
<1>1. ASSUME NEW kind \in Objects, ReturnImport(kind) PROVE RecStep /\ SameCase
  <2>1. CASE cb.refused
    <3>1. NoteReturned(Root[kind], at) /\ StopWith("rejected")
      BY <1>1, <2>1 DEF ReturnImport
    <3>2. CASE place[Root[kind]] = at
      BY <3>1, <3>2 DEF RecStep
    <3>3. CASE place[Root[kind]] # at
      BY <1>0, <3>1, <3>3 DEF NoteReturned
    <3> QED BY <3>1, <3>2, <3>3
  <2>2. CASE ~cb.refused
    BY <1>0, <1>1, <2>2 DEF ReturnImport
  <2> QED BY <2>1, <2>2
<1>2. CASE ReturnReleaseBase \/ ReturnMisuse \/ ReturnStreamCall \/ ReturnGetNext
  BY <1>0, <1>2 DEF ReturnReleaseBase, ReturnMisuse, ReturnStreamCall, ReturnGetNext
<1> QED BY <1>1, <1>2 DEF Return

LEMMA FinishRec ==
  ASSUME TypeInv, ShapeInv, GivenInv, Finish
  PROVE  RecStep /\ SameCase
<1> USE DEF exeVars, conVars, SameCase
<1>0. (UNCHANGED recVars => RecStep)
  BY DEF RecStep
<1>1. CASE SweepStep
  <2> DEFINE step == SweepSteps[sweep + 1]
  <2>1. sweep \in 0..5 /\ HarnessRelease(step.s, step.at)
    BY <1>1 DEF SweepStep, SweepSteps, TypeInv, ExeTypeOK
  <2>2. step.s \in Structs /\ step.at \in {"home", "exec"}
    BY <2>1, StructsAre DEF SweepSteps, TypeInv, ExeTypeOK
  <2> HIDE DEF step
  <2>3. CASE place[step.s] = step.at
    <3>1. Release(step.s, TRUE, <<Note("harness", step.s, place[step.s])>>) /\ IsLive(step.s)
      BY <2>1, <2>2, <2>3 DEF HarnessRelease, IsLive, Locations
    <3>2. \E s \in Structs : IsLive(s) /\ Release(s, TRUE, <<Note("harness", s, place[s])>>)
      BY <2>2, <3>1
    <3> QED BY <1>1, <3>2 DEF RecStep, SweepStep
  <2>4. CASE place[step.s] # step.at
    BY <1>0, <1>1, <2>1, <2>4 DEF HarnessRelease, SweepStep
  <2> QED BY <2>3, <2>4
<1>2. CASE Judge
  BY <1>2 DEF Judge, RecStep
<1>3. CASE Report
  BY <1>0, <1>3 DEF Report
<1>4. CASE ConsumerGone
  <2>1. CASE UNCHANGED place
    BY <1>0, <1>4, <2>1 DEF ConsumerGone, recVars
  <2>2. CASE pc' = "gone" /\ place' = [s \in Structs |-> IF place[s] = "own" THEN "dead" ELSE place[s]]
    BY <1>4, <2>2 DEF ConsumerGone, RecStep
  <2> QED BY <1>4, <2>1, <2>2 DEF ConsumerGone
<1> QED BY <1>1, <1>2, <1>3, <1>4 DEF Finish

\* Every step is one entry point of the reconstruction, or none.
LEMMA EveryStepRec ==
  ASSUME TypeInv, ShapeInv, GivenInv, [Next]_vars
  PROVE  RecStep /\ SameCase
<1>1. CASE UNCHANGED vars
  BY <1>1 DEF vars, exeVars, conVars, SameCase, RecStep
<1> QED BY <1>1, OpRec, CallbackRec, ReturnRec, FinishRec DEF Next, Stopped

-----------------------------------------------------------------------------
(* Which structures a case has. *)

\* A step that only takes live structures out of the harness's reach.
Leaves ==
  /\ place' \in [Structs -> Places]
  /\ \A s \in Structs : place'[s] = place[s] \/ (IsLive(s) /\ place'[s] \in {"own", "dead"})
  /\ owner' = owner

LEMMA LeavesShape ==
  ASSUME ShapeInv, Leaves, SameCase, RecTypeOK
  PROVE  ShapeInv'
BY StructsAre DEF ShapeInv, Leaves, SameCase, IsLive, Locations, RecTypeOK

LEMMA EndedLive ==
  ASSUME NEW s \in Structs, IsLive(s), ShapeInv
  PROVE  \A x \in Ended(s) : x \in Structs /\ IsLive(x)
BY StructsAre DEF Ended, Undelivered, IsLive, Locations

LEMMA ReleaseLeaves ==
  ASSUME RecTypeOK, ShapeInv, NEW s \in Structs, IsLive(s), NEW harness, NEW before,
         Release(s, harness, before)
  PROVE  Leaves
BY EndedLive DEF Release, Leaves, RecTypeOK, Places

LEMMA ShapeStep ==
  ASSUME RecTypeOK, ShapeInv, at \in {"home", "exec"}, RecStep, SameCase
  PROVE  ShapeInv'
<1> USE DEF recVars
<1>0. (UNCHANGED <<place, owner>>) => ShapeInv'
  BY DEF ShapeInv, SameCase
<1>1. CASE UNCHANGED recVars \/ FreeBacking \/ \E k \in Kids : k \in kids /\ ReleaseKid(k)
  BY <1>0, <1>1 DEF FreeBacking, ReleaseKid
<1>2. CASE \E s \in Structs : IsLive(s) /\ Release(s, FALSE, <<>>)
  BY <1>2, ReleaseLeaves, LeavesShape
<1>3. CASE \E s \in Structs : IsLive(s) /\ Release(s, TRUE, <<Note("harness", s, place[s])>>)
  BY <1>3, ReleaseLeaves, LeavesShape
<1>4. ASSUME NEW kind \in Objects, Due(kind), Intact(kind), NoteImport(Root[kind]) PROVE ShapeInv'
  <2> DEFINE s == Root[kind]
  <2>1. /\ s \in Structs /\ IsLive(s) /\ place' = place /\ owner' = [owner EXCEPT ![s] = "consumer"]
        /\ (stream => s = Stream)
    BY <1>4, RootsAre DEF Intact, Due, NoteImport
  <2> HIDE DEF s
  <2>2. \A x \in Structs : x # s => owner'[x] = owner[x]
    BY <2>1 DEF RecTypeOK
  <2>3. place[s] # "unborn"
    BY <2>1 DEF IsLive, Locations
  <2> QED BY <2>1, <2>2, <2>3, StructsAre DEF ShapeInv, SameCase
<1>5. ASSUME NEW kind \in Objects, NoteReturned(Root[kind], at) PROVE ShapeInv'
  <2>1. CASE UNCHANGED recVars
    BY <1>0, <2>1
  <2>2. CASE place' = place /\ owner' = [owner EXCEPT ![Root[kind]] = "harness"]
    <3>1. \A x \in Structs : owner'[x] = owner[x] \/ owner'[x] = "harness"
      BY <2>2 DEF RecTypeOK
    <3> QED BY <2>2, <3>1, StructsAre DEF ShapeInv, SameCase
  <2> QED BY <1>5, <2>1, <2>2 DEF NoteReturned
<1>6. CASE ~stream /\ Move({Schema(1)} \cup (IF array THEN {Array} ELSE {}), "exec")
  <2>1. /\ \A s \in Structs : place'[s] = place[s] \/ (IsLive(s) /\ place'[s] = "exec")
        /\ owner' = owner
    BY <1>6 DEF Move
  <2> QED BY <1>6, <2>1, StructsAre DEF ShapeInv, SameCase, IsLive, Locations
<1>7. ASSUME NEW s \in Structs, Take(s) PROVE ShapeInv'
  <2>1. Leaves
    BY <1>7 DEF Take, Leaves, RecTypeOK, Places, Locations
  <2> QED BY <2>1, LeavesShape
<1>8. ASSUME stream, NEW k \in 1..MaxSchemas, NextSchema(k), GetSchema(k) \/ GetSchemaRunsOut(k)
      PROVE  ShapeInv'
  <2>1. CASE UNCHANGED <<place, owner>>
    BY <1>0, <2>1
  <2>2. CASE place' = [place EXCEPT ![Schema(k)] = "own"]
    <3> DEFINE s == Schema(k)
    <3>1. s \in Schemas /\ s \in Structs /\ s # Array /\ s # Stream
      BY StructsAre DEF Schemas
    <3>2. \A x \in Structs : x # s => owner'[x] = owner[x] /\ place'[x] = place[x]
      BY <1>8, <2>2, <3>1 DEF GetSchema, GetSchemaRunsOut, RecTypeOK
    <3>3. place'[s] = "own"
      BY <2>2, <3>1 DEF RecTypeOK
    <3>4. place[Schema(1)] = "unborn" => s = Schema(1)
      <4>1. SUFFICES ASSUME place[Schema(1)] = "unborn" PROVE k = 1
        OBVIOUS
      <4>2. 1 \in 1..MaxSchemas
        BY SchemasAssumption
      <4>3. k <= 1
        BY <1>8, <4>1, <4>2 DEF NextSchema, Unborn
      <4> QED BY <4>3
    <3> HIDE DEF s
    <3> QED BY <1>8, <3>1, <3>2, <3>3, <3>4, StructsAre DEF ShapeInv, SameCase
  <2> QED BY <1>8, <2>1, <2>2 DEF GetSchema, GetSchemaRunsOut
<1>9. CASE stream /\ GetNext
  <2>1. CASE UNCHANGED <<place, owner>>
    BY <1>0, <2>1
  <2>2. CASE Undelivered /\ place' = [place EXCEPT ![Array] = "own"]
             /\ owner' = [owner EXCEPT ![Array] = "consumer"]
    <3>1. \A x \in Structs : x # Array => owner'[x] = owner[x] /\ place'[x] = place[x]
      BY <2>2 DEF RecTypeOK
    <3>2. place'[Array] = "own" /\ place[Array] = "home"
      BY <2>2, StructsAre DEF RecTypeOK, Undelivered
    <3> QED BY <1>9, <3>1, <3>2, StructsAre DEF ShapeInv, SameCase
  <2> QED BY <1>9, <2>1, <2>2 DEF GetNext
<1>10. CASE /\ place' = [s \in Structs |-> IF place[s] = "own" THEN "dead" ELSE place[s]]
            /\ owner' = owner
  <2>1. Leaves
    BY <1>10 DEF Leaves, IsLive, Locations, RecTypeOK, Places
  <2> QED BY <2>1, LeavesShape
<1> QED BY <1>1, <1>2, <1>3, <1>4, <1>5, <1>6, <1>7, <1>8, <1>9, <1>10 DEF RecStep

LEMMA ShapeInit ==
  ASSUME Init
  PROVE  ShapeInv
<1>1. PICK nodes \in KidSets : Built(stream, array, nodes)
  BY DEF Init
<1>2. stream \in BOOLEAN /\ array \in BOOLEAN
  BY DEF Init
<1>3. /\ place[Stream] = (IF stream THEN "home" ELSE "unborn")
      /\ place[Array] = (IF array THEN "home" ELSE "unborn")
      /\ place[Schema(1)] = (IF stream THEN "unborn" ELSE "home")
      /\ \A s \in Schemas : s # Schema(1) => place[s] = "unborn"
      /\ \A s \in Structs : owner[s] = "harness"
  BY <1>1, <1>2, StructsAre DEF Built
<1> QED BY <1>2, <1>3, StructsAre DEF ShapeInv

-----------------------------------------------------------------------------
(* What the behaviours of the consumers leave alone. *)

-----------------------------------------------------------------------------
(* Every consumer keeps to what it was given. *)

\* What a callback that keeps to `given` may do and remember.
Keeping(given) ==
  [acts : Seq(Rightful(given)), refused : BOOLEAN, ptr : SUBSET given, parsed : BOOLEAN]

\* What holds when a callback is entered that has been given those kinds.
Minding(given) ==
  /\ ShapeInv /\ RecTypeOK /\ ConTypeOK
  /\ given \subseteq Objects /\ ptr \subseteq given
  /\ "stream" \in given => stream
  /\ Untouched(given)

\* What a consumer holds it was given, or the stream gave it.
LEMMA HeldAllowed ==
  ASSUME NEW given, Minding(given), NEW s \in Structs, Held(s)
  PROVE  Allowed(given, s)
<1>1. CASE s.obj \in ptr
  BY <1>1 DEF Minding, Allowed
<1>2. CASE place[s] = "own"
  <2> SUFFICES ASSUME s.obj \notin given, ~(stream /\ s # Stream) PROVE FALSE
    BY DEF Allowed
  <2>1. s.obj \in Objects
    BY StructsAre
  <2>2. s = Root[s.obj] /\ Due(s.obj)
    BY <1>2, StructsAre, RootsAre DEF Minding, ShapeInv, Due, Structs
  <2>3. Intact(s.obj)
    BY <2>1, <2>2 DEF Minding, Untouched
  <2> QED BY <1>2, <2>2, <2>3 DEF Intact
<1> QED BY <1>1, <1>2 DEF Held

LEMMA OwnAllowed ==
  ASSUME NEW given, Minding(given), NEW s \in Structs, place[s] = "own"
  PROVE  Allowed(given, s)
BY HeldAllowed DEF Held, IsLive, Locations

LEMMA RightfulActs ==
  ASSUME NEW given
  PROVE  /\ \A s \in Structs : Allowed(given, s) => Rel(s) \in Rightful(given) /\ TakeIt(s) \in Rightful(given)
         /\ \A k \in Nodes : k # BASE => RelKid(k) \in Rightful(given)
         /\ Call("get_schema") \in Rightful(given) /\ Call("get_next") \in Rightful(given)
         /\ Call("get_last_error") \in Rightful(given) /\ Fault \in Rightful(given)
<1>1. \A s \in Structs : Allowed(given, s) => Rel(s) \in Rightful(given) /\ TakeIt(s) \in Rightful(given)
  BY ActsAre DEF Rel, TakeIt, Rightful
<1>2. \A k \in Nodes : k # BASE => RelKid(k) \in Rightful(given)
  BY ActsAre DEF RelKid, Rightful
<1>3. /\ Call("get_schema") \in Rightful(given) /\ Call("get_next") \in Rightful(given)
      /\ Call("get_last_error") \in Rightful(given) /\ Fault \in Rightful(given)
  BY ActsAre DEF Call, Fault, Rightful
<1> QED BY <1>1, <1>2, <1>3

LEMMA RightfulPieces ==
  ASSUME NEW given, Minding(given)
  PROVE  /\ \A s \in Structs : IfHeld(s) \in Seq(Rightful(given)) /\ IfOwn(s) \in Seq(Rightful(given))
         /\ HeldSchema \in Seq(Rightful(given)) /\ OwnSchema \in Seq(Rightful(given))
<1>1. \A s \in Structs : Allowed(given, s) => <<Rel(s)>> \in Seq(Rightful(given))
  BY RightfulActs
<1>2. \A s \in Structs : IfHeld(s) \in Seq(Rightful(given)) /\ IfOwn(s) \in Seq(Rightful(given))
  BY <1>1, HeldAllowed, OwnAllowed DEF IfHeld, IfOwn
<1>3. HeldSchema \in Seq(Rightful(given))
  <2>1. CASE \E s \in Schemas : Held(s)
    <3> DEFINE c == CHOOSE s \in Schemas : Held(s)
    <3>1. c \in Structs /\ Held(c)
      BY <2>1, StructsAre
    <3>2. HeldSchema = <<Rel(c)>>
      BY <2>1 DEF HeldSchema
    <3> HIDE DEF c
    <3> QED BY <1>1, <3>1, <3>2, HeldAllowed
  <2>2. CASE ~\E s \in Schemas : Held(s)
    BY <2>2 DEF HeldSchema
  <2> QED BY <2>1, <2>2
<1>4. OwnSchema \in Seq(Rightful(given))
  <2>1. CASE \E s \in Schemas : place[s] = "own"
    <3> DEFINE c == CHOOSE s \in Schemas : place[s] = "own"
    <3>1. c \in Structs /\ place[c] = "own"
      BY <2>1, StructsAre
    <3>2. OwnSchema = <<Rel(c)>>
      BY <2>1 DEF OwnSchema
    <3> HIDE DEF c
    <3> QED BY <1>1, <3>1, <3>2, OwnAllowed
  <2>2. CASE ~\E s \in Schemas : place[s] = "own"
    BY <2>2 DEF OwnSchema
  <2> QED BY <2>1, <2>2
<1> QED BY <1>2, <1>3, <1>4

\* The scripts anybody may follow.
LEMMA RightfulScripts ==
  ASSUME NEW given, Minding(given), NEW node \in Nodes
  PROVE  /\ <<>> \in Seq(Rightful(given))
         /\ IfHeld(Array) \o HeldSchema \o IfHeld(Stream) \in Seq(Rightful(given))
         /\ IfOwn(Array) \o IfOwn(Stream) \in Seq(Rightful(given))
         /\ IfOwn(Array) \o IfHeld(Schema(1)) \in Seq(Rightful(given))
         /\ OwnSchema \o <<Call("get_schema")>> \in Seq(Rightful(given))
         /\ IfOwn(Array) \o <<Call("get_next")>> \in Seq(Rightful(given))
         /\ IfOwn(Array) \o <<IF "stream" \in ptr THEN Call("get_next") ELSE Fault>> \in Seq(Rightful(given))
         /\ node # BASE => <<RelKid(node)>> \in Seq(Rightful(given))
         /\ <<Fault>> \in Seq(Rightful(given))
         /\ <<Call("get_schema")>> \in Seq(Rightful(given)) /\ <<Call("get_next")>> \in Seq(Rightful(given))
         /\ <<Call("get_last_error")>> \in Seq(Rightful(given))
<1> DEFINE R == Rightful(given)
<1>1. /\ node # BASE => <<RelKid(node)>> \in Seq(R)
      /\ <<Fault>> \in Seq(R) /\ <<>> \in Seq(R)
      /\ <<Call("get_schema")>> \in Seq(R) /\ <<Call("get_next")>> \in Seq(R)
      /\ <<Call("get_last_error")>> \in Seq(R)
      /\ <<IF "stream" \in ptr THEN Call("get_next") ELSE Fault>> \in Seq(R)
  <2>1. /\ node # BASE => RelKid(node) \in R
        /\ Fault \in R /\ Call("get_schema") \in R
        /\ Call("get_next") \in R /\ Call("get_last_error") \in R
    BY RightfulActs
  <2> HIDE DEF R
  <2> QED BY <2>1
<1>2. /\ IfHeld(Array) \in Seq(R) /\ IfHeld(Stream) \in Seq(R) /\ IfHeld(Schema(1)) \in Seq(R)
      /\ IfOwn(Array) \in Seq(R) /\ IfOwn(Stream) \in Seq(R)
      /\ HeldSchema \in Seq(R) /\ OwnSchema \in Seq(R)
  BY RightfulPieces, StructsAre
<1> HIDE DEF R
<1>3. IfHeld(Array) \o HeldSchema \in Seq(R)
  BY <1>2, ConcatProperties
<1>4. /\ IfHeld(Array) \o HeldSchema \o IfHeld(Stream) \in Seq(R)
      /\ IfOwn(Array) \o IfOwn(Stream) \in Seq(R)
      /\ IfOwn(Array) \o IfHeld(Schema(1)) \in Seq(R)
      /\ OwnSchema \o <<Call("get_schema")>> \in Seq(R)
      /\ IfOwn(Array) \o <<Call("get_next")>> \in Seq(R)
      /\ IfOwn(Array) \o <<IF "stream" \in ptr THEN Call("get_next") ELSE Fault>> \in Seq(R)
  BY <1>1, <1>2, <1>3, ConcatProperties
<1> QED BY <1>1, <1>4 DEF R

\* The scripts of a consumer that has been given a structure, or a stream.
LEMMA GivenScripts ==
  ASSUME NEW given, Minding(given)
  PROVE  /\ "schema" \in given => <<Rel(Schema(1))>> \in Seq(Rightful(given))
         /\ "array" \in given => /\ <<TakeIt(Array)>> \in Seq(Rightful(given))
                                 /\ <<TakeIt(Array), Rel(Array)>> \in Seq(Rightful(given))
         /\ "stream" \in given =>
              /\ <<Call("get_next"), Rel(Array)>> \in Seq(Rightful(given))
              /\ \A s \in Coming :
                   /\ <<TakeIt(Stream), Call("get_schema"), Rel(s)>> \in Seq(Rightful(given))
                   /\ <<TakeIt(Stream), Call("get_schema"), Rel(s), Rel(Stream)>> \in Seq(Rightful(given))
<1>1. ASSUME "schema" \in given PROVE <<Rel(Schema(1))>> \in Seq(Rightful(given))
  <2>1. Rel(Schema(1)) \in Rightful(given)
    BY <1>1, RightfulActs, StructsAre, RootsAre DEF Allowed
  <2> QED BY <2>1
<1>2. ASSUME "array" \in given
      PROVE  /\ <<TakeIt(Array)>> \in Seq(Rightful(given))
             /\ <<TakeIt(Array), Rel(Array)>> \in Seq(Rightful(given))
  <2>1. Rel(Array) \in Rightful(given) /\ TakeIt(Array) \in Rightful(given)
    BY <1>2, RightfulActs, StructsAre, RootsAre DEF Allowed
  <2> QED BY <2>1
<1>3. ASSUME "stream" \in given
      PROVE  /\ <<Call("get_next"), Rel(Array)>> \in Seq(Rightful(given))
             /\ \A s \in Coming :
                  /\ <<TakeIt(Stream), Call("get_schema"), Rel(s)>> \in Seq(Rightful(given))
                  /\ <<TakeIt(Stream), Call("get_schema"), Rel(s), Rel(Stream)>> \in Seq(Rightful(given))
  <2>1. stream
    BY <1>3 DEF Minding
  <2>2. /\ Rel(Array) \in Rightful(given) /\ TakeIt(Stream) \in Rightful(given)
        /\ Rel(Stream) \in Rightful(given) /\ Call("get_next") \in Rightful(given)
        /\ Call("get_schema") \in Rightful(given)
    BY <1>3, <2>1, RightfulActs, StructsAre, RootsAre DEF Allowed
  <2>3. \A s \in Coming : Rel(s) \in Rightful(given)
    <3>1. \A s \in Coming : s \in Structs /\ s # Stream
      BY StructsAre DEF Coming, Schemas
    <3> QED BY <2>1, <3>1, RightfulActs DEF Allowed
  <2> QED BY <2>2, <2>3
<1> QED BY <1>1, <1>2, <1>3

LEMMA DoesKeeping ==
  ASSUME NEW given, NEW acts \in Seq(Rightful(given)), NEW refused \in BOOLEAN,
         NEW points \in SUBSET given, NEW parses \in BOOLEAN
  PROVE  Does(acts, refused, points, parses) \in Keeping(given)
BY DEF Does, Keeping

LEMMA JustKeeping ==
  ASSUME NEW given, Minding(given), NEW acts \in Seq(Rightful(given)), NEW refused \in BOOLEAN
  PROVE  Just(acts, refused) \in Keeping(given)
BY DoesKeeping DEF Just, Minding, ConTypeOK

\* A callback that takes a structure has been given it.
Shown(given, name) == \A kind \in Objects : name = ImportName[kind] => kind \in given

\* A callback that releases one node is told which.
Aimed(node, name) == name \in {"release_child", "release_dictionary"} => node # BASE

KeepingTable(given, node, t) ==
  /\ DOMAIN t = Callbacks
  /\ \A name \in Callbacks : Shown(given, name) /\ Aimed(node, name) => t[name] \subseteq Keeping(given)

LEMMA ShownKinds ==
  ASSUME NEW given
  PROVE  /\ Shown(given, "import_schema") => "schema" \in given
         /\ Shown(given, "import_array") => "array" \in given
         /\ Shown(given, "import_stream") => "stream" \in given
BY DEF Shown, ImportName, Objects

LEMMA NullKeeps ==
  ASSUME NEW given, Minding(given), NEW node \in Nodes
  PROVE  KeepingTable(given, node, NullDoes(node))
<1> DEFINE t == NullDoes(node)
<1>1. DOMAIN t = Callbacks
  BY DEF NullDoes, Callbacks
<1>2. /\ "schema" \in given => Points("schema") \in SUBSET given
      /\ "array" \in given => Points("array") \in SUBSET given
      /\ "stream" \in given => Points("stream") \in SUBSET given
      /\ parsed \in BOOLEAN
  BY DEF Points, Minding, ConTypeOK
<1>3. "schema" \in given => t["import_schema"] \subseteq Keeping(given)
  BY <1>2, RightfulScripts, DoesKeeping DEF NullDoes
<1>4. "array" \in given => t["import_array"] \subseteq Keeping(given)
  BY <1>2, RightfulScripts, DoesKeeping DEF NullDoes
<1>5. "stream" \in given => t["import_stream"] \subseteq Keeping(given)
  BY <1>2, RightfulScripts, DoesKeeping DEF NullDoes
<1>6. t["release_base"] \subseteq Keeping(given)
  BY RightfulScripts, JustKeeping DEF NullDoes
<1>7. node # BASE => t["release_child"] \subseteq Keeping(given)
  BY RightfulScripts, JustKeeping DEF NullDoes
<1>8. node # BASE => t["release_dictionary"] \subseteq Keeping(given)
  BY RightfulScripts, JustKeeping DEF NullDoes
<1>9. t["stream_get_schema"] \subseteq Keeping(given)
  BY RightfulScripts, JustKeeping DEF NullDoes
<1>10. t["stream_get_next"] \subseteq Keeping(given)
  BY RightfulScripts, JustKeeping DEF NullDoes
<1>11. t["stream_get_last_error"] \subseteq Keeping(given)
  BY RightfulScripts, JustKeeping DEF NullDoes
<1> HIDE DEF t
<1>12. ASSUME NEW name \in Callbacks, Shown(given, name), Aimed(node, name) PROVE t[name] \subseteq Keeping(given)
  BY <1>3, <1>4, <1>5, <1>6, <1>7, <1>8, <1>9, <1>10, <1>11, <1>12, ShownKinds DEF Callbacks, Aimed
<1> QED BY <1>1, <1>12 DEF KeepingTable, t

LEMMA RefvalKeeps ==
  ASSUME NEW given, Minding(given), NEW node \in Nodes
  PROVE  KeepingTable(given, node, RefvalDoes(node))
<1> DEFINE n == NullDoes(node)
           a == {Just(<<>>, TRUE)}
                \cup {b \in {Does(<<>>, FALSE, Points("array"), parsed)} :
                        "schema" \in ptr /\ IsLive(Schema(1))}
           s == {Just(OwnSchema \o <<Call("get_schema")>>, refused) : refused \in BOOLEAN}
           g == {Just(IfOwn(Array) \o <<Call("get_next")>>, refused) : refused \in
                  {r \in BOOLEAN : (r => Undelivered) /\ (~r /\ Undelivered => OwnSchema # <<>>)}}
<1>1. KeepingTable(given, node, n)
  BY NullKeeps
<1>2. "array" \in given => a \subseteq Keeping(given)
  <2>1. "array" \in given => Points("array") \in SUBSET given
    BY DEF Points, Minding
  <2>2. parsed \in BOOLEAN
    BY DEF Minding, ConTypeOK
  <2>3. Just(<<>>, TRUE) \in Keeping(given)
    BY RightfulScripts, JustKeeping
  <2>4. "array" \in given => Does(<<>>, FALSE, Points("array"), parsed) \in Keeping(given)
    BY <2>1, <2>2, RightfulScripts, DoesKeeping
  <2> QED BY <2>3, <2>4
<1>3. s \subseteq Keeping(given)
  BY RightfulScripts, JustKeeping
<1>4. g \subseteq Keeping(given)
  BY RightfulScripts, JustKeeping
<1>5. RefvalDoes(node) = [n EXCEPT !.import_array = a, !.stream_get_schema = s,
                                   !.stream_get_next = g]
  BY DEF RefvalDoes
<1> HIDE DEF n, a, s, g
<1> QED BY <1>1, <1>2, <1>3, <1>4, <1>5, ShownKinds DEF KeepingTable

LEMMA ArrowKeeps ==
  ASSUME NEW given, Minding(given), NEW node \in Nodes
  PROVE  KeepingTable(given, node, ArrowDoes(node))
<1> DEFINE n == NullDoes(node)
           is == {Does(<<Rel(Schema(1))>>, refused, ptr, parsed \/ ~refused) : refused \in BOOLEAN}
           ia == IF parsed
                 THEN {Just(<<TakeIt(Array)>>, FALSE), Just(<<TakeIt(Array), Rel(Array)>>, TRUE)}
                 ELSE {Just(<<>>, TRUE)}
           it == {Does(<<TakeIt(Stream), Call("get_schema"), Rel(s)>>, FALSE, Points("stream"), parsed) :
                    s \in Coming}
                 \cup {Just(<<TakeIt(Stream), Call("get_schema"), Rel(s), Rel(Stream)>>, TRUE) :
                         s \in Coming}
           gs == {Just(IF "stream" \in ptr THEN <<>> ELSE <<Fault>>, FALSE)}
           gn == {Just(IfOwn(Array) \o <<IF "stream" \in ptr THEN Call("get_next") ELSE Fault>>, FALSE)}
                 \cup {b \in {Just(<<Call("get_next"), Rel(Array)>>, TRUE)} :
                         "stream" \in ptr /\ Undelivered}
           rb == {Does(IfOwn(Array) \o IfOwn(Stream), FALSE, ptr \ {"stream"}, FALSE)}
<1>1. KeepingTable(given, node, n)
  BY NullKeeps
<1>2. /\ "stream" \in given => Points("stream") \in SUBSET given
      /\ ptr \in SUBSET given /\ ptr \ {"stream"} \in SUBSET given
      /\ \A refused \in BOOLEAN : (parsed \/ ~refused) \in BOOLEAN
      /\ parsed \in BOOLEAN
  BY DEF Points, Minding, ConTypeOK
<1>3. "schema" \in given => is \subseteq Keeping(given)
  <2>1. ASSUME "schema" \in given, NEW refused \in BOOLEAN
        PROVE  Does(<<Rel(Schema(1))>>, refused, ptr, parsed \/ ~refused) \in Keeping(given)
    <3>1. <<Rel(Schema(1))>> \in Seq(Rightful(given)) /\ (parsed \/ ~refused) \in BOOLEAN
      BY <1>2, <2>1, GivenScripts
    <3> QED BY <1>2, <3>1, DoesKeeping
  <2> QED BY <2>1
<1>4. "array" \in given => ia \subseteq Keeping(given)
  BY RightfulScripts, GivenScripts, JustKeeping
<1>5. "stream" \in given => it \subseteq Keeping(given)
  <2> SUFFICES ASSUME "stream" \in given, NEW s \in Coming
               PROVE  /\ Does(<<TakeIt(Stream), Call("get_schema"), Rel(s)>>, FALSE,
                              Points("stream"), parsed) \in Keeping(given)
                      /\ Just(<<TakeIt(Stream), Call("get_schema"), Rel(s), Rel(Stream)>>, TRUE)
                           \in Keeping(given)
    OBVIOUS
  <2>1. /\ <<TakeIt(Stream), Call("get_schema"), Rel(s)>> \in Seq(Rightful(given))
        /\ <<TakeIt(Stream), Call("get_schema"), Rel(s), Rel(Stream)>> \in Seq(Rightful(given))
    BY GivenScripts
  <2>2. Points("stream") \in SUBSET given /\ parsed \in BOOLEAN
    BY <1>2
  <2> QED BY <2>1, <2>2, JustKeeping, DoesKeeping
<1>6. gs \subseteq Keeping(given)
  BY RightfulScripts, JustKeeping
<1>7. gn \subseteq Keeping(given)
  <2>1. "stream" \in ptr => "stream" \in given
    BY <1>2
  <2> QED BY <2>1, RightfulScripts, GivenScripts, JustKeeping
<1>8. rb \subseteq Keeping(given)
  BY <1>2, RightfulScripts, DoesKeeping
<1>9. ArrowDoes(node) = [n EXCEPT !.import_schema = is, !.import_array = ia,
                           !.import_stream = it, !.stream_get_schema = gs,
                           !.stream_get_next = gn, !.release_base = rb]
  BY DEF ArrowDoes
<1> HIDE DEF n, is, ia, it, gs, gn, rb
<1>10. DOMAIN n = Callbacks /\ DOMAIN ArrowDoes(node) = Callbacks
  BY <1>1, <1>9 DEF KeepingTable
<1>11. ASSUME NEW name \in Callbacks, Shown(given, name), Aimed(node, name)
       PROVE  ArrowDoes(node)[name] \subseteq Keeping(given)
  <2>1. CASE name \notin {"import_schema", "import_array", "import_stream",
                         "stream_get_schema", "stream_get_next", "release_base"}
    BY <1>1, <1>9, <1>10, <1>11, <2>1 DEF KeepingTable
  <2>2. CASE name = "import_schema"
    BY <1>3, <1>9, <1>10, <1>11, <2>2, ShownKinds
  <2>3. CASE name = "import_array"
    BY <1>4, <1>9, <1>10, <1>11, <2>3, ShownKinds
  <2>4. CASE name = "import_stream"
    BY <1>5, <1>9, <1>10, <1>11, <2>4, ShownKinds
  <2>5. CASE name = "stream_get_schema"
    BY <1>6, <1>9, <1>10, <1>11, <2>5
  <2>6. CASE name = "stream_get_next"
    BY <1>7, <1>9, <1>10, <1>11, <2>6
  <2>7. CASE name = "release_base"
    BY <1>8, <1>9, <1>10, <1>11, <2>7
  <2> QED BY <2>1, <2>2, <2>3, <2>4, <2>5, <2>6, <2>7
<1> QED BY <1>10, <1>11 DEF KeepingTable

LEMMA DuckKeeps ==
  ASSUME NEW given, Minding(given), NEW node \in Nodes
  PROVE  KeepingTable(given, node, DuckDoes(node))
<1> DEFINE n == NullDoes(node)
           is == {Just(<<>>, TRUE), Does(<<>>, FALSE, Points("schema"), TRUE)}
           ia == {Just(<<>>, TRUE)}
                 \cup {b \in {Just(<<TakeIt(Array)>>, FALSE),
                              Just(<<TakeIt(Array), Rel(Array)>>, TRUE)} : parsed}
           rb == {Does(IfOwn(Array) \o IfHeld(Schema(1)), FALSE, ptr, FALSE)}
<1>1. KeepingTable(given, node, n)
  BY NullKeeps
<1>2. ("schema" \in given => Points("schema") \in SUBSET given) /\ ptr \in SUBSET given
  BY DEF Points, Minding
<1>3. "schema" \in given => is \subseteq Keeping(given)
  BY <1>2, RightfulScripts, JustKeeping, DoesKeeping
<1>4. "array" \in given => ia \subseteq Keeping(given)
  BY RightfulScripts, GivenScripts, JustKeeping
<1>5. rb \subseteq Keeping(given)
  BY <1>2, RightfulScripts, DoesKeeping
<1>6. DuckDoes(node) = [n EXCEPT !.import_schema = is, !.import_array = ia,
                                 !.release_base = rb]
  BY DEF DuckDoes
<1> HIDE DEF n, is, ia, rb
<1> QED BY <1>1, <1>3, <1>4, <1>5, <1>6, ShownKinds DEF KeepingTable

LEMMA FreeKeeps ==
  ASSUME NEW given, Minding(given), NEW node \in Nodes
  PROVE  KeepingTable(given, node, FreeDoes(node))
<1> DEFINE n == NullDoes(node)
           is == {Does(<<>>, refused, Points("schema"), parsed) : refused \in BOOLEAN}
           ia == {Does(<<>>, refused, Points("array"), parsed) : refused \in BOOLEAN}
           it == {Does(<<>>, refused, Points("stream"), parsed) : refused \in BOOLEAN}
           rb == {Just(<<>>, FALSE)}
           gs == {Just(<<Call("get_schema")>>, refused) : refused \in BOOLEAN}
           gn == {Just(<<Call("get_next")>>, refused) : refused \in BOOLEAN}
<1>1. KeepingTable(given, node, n)
  BY NullKeeps
<1>2. /\ "schema" \in given => Points("schema") \in SUBSET given
      /\ "array" \in given => Points("array") \in SUBSET given
      /\ "stream" \in given => Points("stream") \in SUBSET given
      /\ parsed \in BOOLEAN
  BY DEF Points, Minding, ConTypeOK
<1>3. /\ "schema" \in given => is \subseteq Keeping(given)
      /\ "array" \in given => ia \subseteq Keeping(given)
      /\ "stream" \in given => it \subseteq Keeping(given)
  <2>1. ASSUME NEW points \in SUBSET given, NEW refused \in BOOLEAN
        PROVE  Does(<<>>, refused, points, parsed) \in Keeping(given)
    BY <1>2, RightfulScripts, DoesKeeping
  <2>2. "schema" \in given => is \subseteq Keeping(given)
    BY <1>2, <2>1
  <2>3. "array" \in given => ia \subseteq Keeping(given)
    BY <1>2, <2>1
  <2>4. "stream" \in given => it \subseteq Keeping(given)
    BY <1>2, <2>1
  <2> QED BY <2>2, <2>3, <2>4
<1>4. rb \subseteq Keeping(given) /\ gs \subseteq Keeping(given) /\ gn \subseteq Keeping(given)
  BY RightfulScripts, JustKeeping
<1>5. FreeDoes(node) = [n EXCEPT !.import_schema = is, !.import_array = ia,
                          !.import_stream = it, !.release_base = rb,
                          !.stream_get_schema = gs, !.stream_get_next = gn]
  BY DEF FreeDoes
<1> DEFINE t == FreeDoes(node)
           changed == {"import_schema", "import_array", "import_stream", "release_base",
                       "stream_get_schema", "stream_get_next"}
<1> HIDE DEF n, is, ia, it, rb, gs, gn
<1>6. DOMAIN t = Callbacks /\ \A name \in Callbacks \ changed : t[name] = n[name]
  BY <1>1, <1>5 DEF KeepingTable
<1>7. /\ t["import_schema"] = is /\ t["import_array"] = ia /\ t["import_stream"] = it
      /\ t["release_base"] = rb /\ t["stream_get_schema"] = gs /\ t["stream_get_next"] = gn
  BY <1>1, <1>5 DEF KeepingTable, Callbacks
<1> HIDE DEF t
<1>8. ASSUME NEW name \in Callbacks, Shown(given, name), Aimed(node, name)
      PROVE  t[name] \subseteq Keeping(given)
  <2>1. CASE name \in changed
    BY <1>3, <1>4, <1>7, <1>8, <2>1, ShownKinds
  <2>2. CASE name \notin changed
    BY <1>1, <1>6, <1>8, <2>2 DEF KeepingTable
  <2> QED BY <2>1, <2>2
<1> QED BY <1>6, <1>8 DEF KeepingTable, t

\* No consumer, free or shipped, reaches past what it was given.
LEMMA BehavioursKeep ==
  ASSUME NEW given, Minding(given), NEW node \in Nodes,
         NEW name \in Callbacks, Shown(given, name), Aimed(node, name)
  PROVE  Behaviours(node)[name] \subseteq Keeping(given)
BY NullKeeps, RefvalKeeps, ArrowKeeps, DuckKeeps, FreeKeeps DEF Behaviours, KeepingTable

-----------------------------------------------------------------------------
(* What the consumer was given, and what it was not. *)

\* A step leaves alone what the consumer was not given.
Spares == \A kind \in Objects \ Given : Due(kind) /\ Intact(kind) => Intact(kind)'

LEMMA GivenHas ==
  ASSUME TypeInv, GivenInv
  PROVE  Given \subseteq Objects /\ ("stream" \in Given => stream)
<1>1. handed \subseteq Objects
  BY DEF TypeInv, ExeTypeOK
<1> QED BY <1>1 DEF GivenInv, Given, ImportName, Objects

LEMMA MindingGiven ==
  ASSUME TypeInv, ShapeInv, GivenInv, outcome = "accepted", Running
  PROVE  Minding(Given)
BY GivenHas DEF TypeInv, GivenInv, Minding

LEMMA SameSpares ==
  ASSUME UNCHANGED <<place, owner>>
  PROVE  Spares
BY DEF Spares, Intact, IsLive

LEMMA AwayGiven ==
  ASSUME GivenInv, pc' \notin {"op", "callback", "handed"}, UNCHANGED <<handed, stream>>
  PROVE  GivenInv'
BY DEF GivenInv, Running

LEMMA LetGoGiven ==
  ASSUME GivenInv, NEW o, o # "accepted", LetGo(o)
  PROVE  GivenInv'
<1>1. outcome' # "accepted" /\ UNCHANGED <<handed, stream>>
  BY DEF LetGo
<1>2. pc' = "sweep" \/ (pc' = "callback" /\ cb'.name = "release_base")
  BY DEF LetGo, Idle
<1> QED BY <1>1, <1>2 DEF GivenInv

LEMMA ResumeGiven ==
  ASSUME TypeInv, ShapeInv, GivenInv, outcome = "accepted", Running,
         outcome' = outcome, pc' \in {"op", "handed"}, Given \subseteq handed', ptr' = ptr,
         SameCase, Spares, stream => handed' \subseteq {"stream"},
         ~stream => "stream" \notin handed', pc' = "handed" => stream
  PROVE  GivenInv'
<1>1. Given' = handed'
  BY DEF Given
<1>2. ptr' \subseteq Given'
  BY <1>1 DEF GivenInv
<1>3. Untouched(Given)'
  <2> SUFFICES ASSUME NEW kind \in Objects \ handed', Due(kind)' PROVE Intact(kind)'
    BY <1>1 DEF Untouched
  <2>1. Due(kind) /\ kind \in Objects \ Given
    BY DEF Due, SameCase
  <2>2. Intact(kind)
    BY <2>1 DEF GivenInv, Untouched
  <2> QED BY <2>1, <2>2 DEF Spares
<1>4. stream' = stream
  BY DEF SameCase
<1> QED BY <1>2, <1>3, <1>4 DEF GivenInv

LEMMA EnterGiven ==
  ASSUME TypeInv, ShapeInv, GivenInv, outcome = "accepted", pc \in {"op", "handed"},
         NEW name \in Callbacks, NEW op, NEW node \in Nodes, Aimed(node, name),
         Enter(name, op, node), UNCHANGED <<outcome, handed, stream, array, place>>,
         name = "import_stream" => stream,
         stream => name \notin {"import_schema", "import_array"},
         \A kind \in Objects : name # ImportName[kind] => owner'[Root[kind]] = owner[Root[kind]]
  PROVE  GivenInv'
<1> DEFINE given == handed \cup {kind \in Objects : name = ImportName[kind]}
<1>0. handed \subseteq Objects
  BY DEF TypeInv, ExeTypeOK
<1>1. Given = handed
  BY DEF Given
<1>2. ptr \subseteq handed /\ Untouched(handed)
  BY <1>1 DEF GivenInv, Running
<1>3. "stream" \in given => stream
  BY DEF GivenInv, ImportName, Objects
<1>4. Minding(given)
  BY <1>0, <1>2, <1>3 DEF Minding, TypeInv, Untouched
<1>5. Shown(given, name)
  BY DEF Shown
<1>6. PICK b \in Behaviours(node)[name] :
         /\ cb' = [name |-> name, op |-> op, acts |-> b.acts, refused |-> b.refused, eof |-> FALSE]
         /\ ptr' = b.ptr
  BY DEF Enter
<1>7. pc' = "callback" /\ cb'.name = name
  BY <1>6 DEF Enter
<1>8. Given' = given
  BY <1>7 DEF Given
<1> HIDE DEF given
<1>9. b \in Keeping(given)
  BY <1>4, <1>5, <1>6, BehavioursKeep
<1>10. ptr' \subseteq given /\ cb'.acts \in Seq(Rightful(given))
  BY <1>6, <1>9 DEF Keeping
<1>11. Rightful(Given)' = Rightful(given)
  BY <1>8 DEF Rightful, Allowed
<1>12. Untouched(Given)'
  <2> SUFFICES ASSUME NEW kind \in Objects \ given, Due(kind)' PROVE Intact(kind)'
    BY <1>8 DEF Untouched
  <2>1. Due(kind) /\ Intact(kind)
    BY <1>4 DEF Due, Minding, Untouched
  <2>2. owner'[Root[kind]] = owner[Root[kind]]
    BY DEF given
  <2> QED BY <2>1, <2>2 DEF Intact, IsLive
<1> QED BY <1>7, <1>8, <1>10, <1>11, <1>12 DEF GivenInv

LEMMA ActGiven ==
  ASSUME TypeInv, ShapeInv, GivenInv, pc = "callback", pc' = "callback",
         cb'.name = cb.name, UNCHANGED <<handed, outcome, ptr>>, SameCase,
         outcome = "accepted" => cb'.acts \in Seq(Rightful(Given)) /\ Spares
  PROVE  GivenInv'
<1>1. Given' = Given
  BY DEF Given
<1>2. CASE outcome # "accepted"
  BY <1>2 DEF GivenInv, SameCase
<1>3. CASE outcome = "accepted"
  <2>1. Rightful(Given)' = Rightful(Given)
    BY <1>1 DEF Rightful, Allowed, SameCase
  <2>2. ptr' \subseteq Given'
    BY <1>1, <1>3 DEF GivenInv, Running
  <2>3. Untouched(Given)'
    <3> SUFFICES ASSUME NEW kind \in Objects \ Given, Due(kind)' PROVE Intact(kind)'
      BY <1>1 DEF Untouched
    <3>1. Due(kind) /\ Intact(kind)
      BY <1>3 DEF Due, SameCase, GivenInv, Running, Untouched
    <3> QED BY <1>3, <3>1 DEF Spares
  <2> QED BY <1>3, <2>1, <2>2, <2>3 DEF GivenInv, SameCase
<1> QED BY <1>2, <1>3

\* What a rightful release or move takes was given.
LEMMA TakenSpares ==
  ASSUME TypeInv, ShapeInv, GivenInv, NEW s \in Structs, Allowed(Given, s),
         \A x \in Structs : x # s /\ ~(s = Stream /\ x = Array) => place'[x] = place[x],
         owner' = owner, IsLive(s)
  PROVE  Spares
<1> SUFFICES ASSUME NEW kind \in Objects \ Given, Due(kind), Intact(kind) PROVE Intact(kind)'
  BY DEF Spares
<1>1. Root[kind] \in Structs /\ Root[kind].obj = kind
  BY RootsAre
<1>2. Root[kind] # s
  <2>1. CASE s.obj \in Given
    BY <1>1, <2>1
  <2>2. CASE stream /\ s # Stream
    BY <2>2, RootsAre DEF Due
  <2> QED BY <2>1, <2>2 DEF Allowed
<1>3. ~(s = Stream /\ Root[kind] = Array)
  <2>1. SUFFICES ASSUME s = Stream, Root[kind] = Array PROVE FALSE
    OBVIOUS
  <2>2. stream
    BY <2>1 DEF ShapeInv, IsLive, Locations
  <2>3. kind = "stream"
    BY <2>2 DEF Due
  <2> QED BY <2>1, <2>3, RootsAre, StructsAre
<1>4. place'[Root[kind]] = place[Root[kind]]
  BY <1>1, <1>2, <1>3
<1> QED BY <1>4 DEF Intact, IsLive

LEMMA ReleaseSpares ==
  ASSUME TypeInv, ShapeInv, GivenInv, NEW s \in Structs, Allowed(Given, s), IsLive(s),
         NEW harness, NEW before, Release(s, harness, before)
  PROVE  Spares
BY TakenSpares DEF Release, Ended

LEMMA TakeSpares ==
  ASSUME TypeInv, ShapeInv, GivenInv, NEW s \in Structs, Allowed(Given, s), Take(s)
  PROVE  Spares
<1>1. CASE IsLive(s)
  BY <1>1, TakenSpares DEF Take, TypeInv, RecTypeOK
<1>2. CASE ~IsLive(s)
  <2>1. \A x \in Structs : place'[x] = place[x]
    BY <1>2 DEF Take, TypeInv, RecTypeOK
  <2> QED BY <2>1, RootsAre DEF Take, Spares, Intact, IsLive
<1> QED BY <1>1, <1>2

LEMMA DeliverySpares ==
  ASSUME TypeInv, stream,
         GetNext \/ \E k \in 1..MaxSchemas : GetSchema(k) \/ GetSchemaRunsOut(k)
  PROVE  Spares
<1> SUFFICES ASSUME NEW kind \in Objects \ Given, Due(kind), Intact(kind) PROVE Intact(kind)'
  BY DEF Spares
<1>1. Root[kind] = Stream
  BY RootsAre DEF Due
<1>2. \A k \in 1..MaxSchemas : Schema(k) # Stream
  BY StructsAre DEF Schemas
<1>3. place'[Stream] = place[Stream] /\ owner'[Stream] = owner[Stream]
  BY <1>2, StructsAre DEF GetNext, GetSchema, GetSchemaRunsOut, TypeInv, RecTypeOK
<1> QED BY <1>1, <1>3 DEF Intact, IsLive

LEMMA NowRightful ==
  ASSUME GivenInv, TypeInv, InCallback, outcome = "accepted"
  PROVE  Now \in Rightful(Given) /\ Tail(cb.acts) \in Seq(Rightful(Given))
<1>1. cb.acts \in Seq(Rightful(Given)) /\ cb.acts # <<>>
  BY DEF GivenInv, InCallback
<1> QED BY <1>1, HeadTailProperties DEF Now

LEMMA CallbackGiven ==
  ASSUME TypeInv, ShapeInv, GivenInv, Callback, SameCase
  PROVE  GivenInv'
<1> USE DEF exeVars, conVars
<1>0. InCallback => pc = "callback"
  BY DEF InCallback
<1>a. Acted => cb'.name = cb.name /\ cb'.acts = Tail(cb.acts)
  BY DEF Acted, TypeInv, CtlTypeOK, Callee
<1>1. CASE Crash
  BY <1>1, AwayGiven DEF Crash
<1>2. CASE ActRelease
  <2>1. Now.s \in Structs
    BY <1>2, NowType DEF ActRelease, Act
  <2>2. outcome = "accepted" => Spares
    <3>1. CASE UNCHANGED <<place, owner>>
      BY <3>1, SameSpares
    <3>2. CASE Now.node = BASE /\ IsLive(Now.s) /\ Release(Now.s, FALSE, <<>>)
      <4>1. ASSUME outcome = "accepted" PROVE Allowed(Given, Now.s)
        BY <1>2, <3>2, <4>1, NowRightful DEF ActRelease, Rightful
      <4> QED BY <2>1, <3>2, <4>1, ReleaseSpares
    <3> QED BY <1>2, <3>1, <3>2 DEF ActRelease, ReleaseKid, recVars
  <2> QED BY <1>0, <1>2, <1>a, <2>2, NowRightful, ActGiven DEF ActRelease
<1>3. CASE ActTake
  <2>1. Now.s \in Structs
    BY <1>3, NowType DEF ActTake, Act
  <2>2. outcome = "accepted" => Spares
    <3>1. ASSUME outcome = "accepted" PROVE Allowed(Given, Now.s)
      <4>1. Now \in Rightful(Given) /\ Now.do = "take"
        BY <1>3, <3>1, NowRightful DEF ActTake
      <4> QED BY <4>1 DEF Rightful
    <3> QED BY <1>3, <2>1, <3>1, TakeSpares DEF ActTake
  <2> QED BY <1>0, <1>3, <1>a, <2>2, NowRightful, ActGiven DEF ActTake
<1>4. CASE ActGetSchema
  <2>1. stream
    BY <1>4 DEF ActGetSchema, Crashes, ShapeInv, IsLive, Locations
  <2>2. PICK k \in 1..MaxSchemas :
          \/ GetSchema(k) /\ Acted
          \/ /\ GetSchemaRunsOut(k)
             /\ cb' = [cb EXCEPT !.refused = TRUE,
                         !.acts = IF cb.name = "import_stream" THEN <<Rel(Stream)>> ELSE <<>>]
    BY <1>4 DEF ActGetSchema
  <2>3. Spares
    BY <2>1, <2>2, DeliverySpares
  <2>4. CASE Acted
    BY <1>0, <1>4, <1>a, <2>3, <2>4, NowRightful, ActGiven DEF ActGetSchema
  <2>5. CASE cb' = [cb EXCEPT !.refused = TRUE,
                      !.acts = IF cb.name = "import_stream" THEN <<Rel(Stream)>> ELSE <<>>]
    <3>1. /\ cb'.name = cb.name
          /\ cb'.acts = IF cb.name = "import_stream" THEN <<Rel(Stream)>> ELSE <<>>
      BY <2>5 DEF TypeInv, CtlTypeOK, Callee
    <3>2. cb.name = "import_stream" => "stream" \in Given
      BY <1>0, <1>4 DEF ActGetSchema, Given, ImportName, Objects
    <3>3. cb.name = "import_stream" => Rel(Stream) \in Rightful(Given)
      BY <3>2, RightfulActs, RootsAre, StructsAre DEF Allowed
    <3>4. cb'.acts \in Seq(Rightful(Given))
      BY <3>1, <3>3
    <3> QED BY <1>0, <1>4, <2>3, <3>1, <3>4, ActGiven DEF ActGetSchema
  <2> QED BY <2>2, <2>4, <2>5
<1>5. CASE ActGetNext
  <2>1. stream
    BY <1>5 DEF ActGetNext, Crashes, ShapeInv, IsLive, Locations
  <2>2. Spares
    BY <1>5, <2>1, DeliverySpares DEF ActGetNext
  <2>3. cb'.name = cb.name /\ cb'.acts = Tail(cb.acts)
    BY <1>5 DEF ActGetNext, TypeInv, CtlTypeOK, Callee
  <2> QED BY <1>0, <1>5, <2>2, <2>3, NowRightful, ActGiven DEF ActGetNext
<1>6. CASE ActGetLastError
  <2>1. Spares
    BY <1>6, SameSpares DEF ActGetLastError, recVars
  <2> QED BY <1>0, <1>6, <1>a, <2>1, NowRightful, ActGiven DEF ActGetLastError
<1>7. CASE FreeAct
  <2>1. outcome = "accepted" => Spares
    <3> SUFFICES ASSUME outcome = "accepted" PROVE Spares
      OBVIOUS
    <3>1. Minding(Given)
      BY <1>7, MindingGiven DEF FreeAct, Running
    <3>2. PICK s \in Structs : Held(s) /\ (Release(s, FALSE, <<>>) \/ Take(s))
      BY <1>7 DEF FreeAct
    <3>3. Allowed(Given, s)
      BY <3>1, <3>2, HeldAllowed
    <3> QED BY <3>2, <3>3, ReleaseSpares, TakeSpares DEF Held
  <2>2. outcome = "accepted" => cb.acts \in Seq(Rightful(Given))
    BY <1>7 DEF FreeAct, GivenInv
  <2> QED BY <1>7, <2>1, <2>2, ActGiven DEF FreeAct
<1> QED BY <1>1, <1>2, <1>3, <1>4, <1>5, <1>6, <1>7 DEF Callback

LEMMA StreamCallGiven ==
  ASSUME TypeInv, ShapeInv, GivenInv, outcome = "accepted", pc \in {"op", "handed"},
         stream, NEW op \in Calls, StreamCall(op), SameCase
  PROVE  GivenInv'
<1>1. CASE StopWith("unsupported")
  BY <1>1, LetGoGiven DEF StopWith
<1>2. CASE Enter(CallbackOf[op], op, BASE) /\ UNCHANGED exeVars /\ UNCHANGED recVars
  <2>1. CallbackOf[op] \in {"stream_get_schema", "stream_get_next", "stream_get_last_error"}
    BY DEF Calls, StreamOps, CallbackOf
  <2>2. CallbackOf[op] \in Callbacks /\ BASE \in Nodes /\ Aimed(BASE, CallbackOf[op])
    BY <2>1 DEF Callbacks, Nodes, Aimed
  <2>3. UNCHANGED <<outcome, handed, stream, array, place, owner>>
    BY <1>2 DEF exeVars, recVars
  <2> DEFINE name == CallbackOf[op]
  <2> HIDE DEF name
  <2>4. name \in Callbacks /\ Aimed(BASE, name) /\ Enter(name, op, BASE) /\ BASE \in Nodes
    BY <1>2, <2>2 DEF name
  <2>5. name \notin {"import_schema", "import_array", "import_stream"}
    BY <2>1 DEF name
  <2> QED BY <2>3, <2>4, <2>5, EnterGiven
<1> QED BY <1>1, <1>2 DEF StreamCall

LEMMA OpGiven ==
  ASSUME TypeInv, ShapeInv, GivenInv, Op, SameCase
  PROVE  GivenInv'
<1> USE DEF exeVars, conVars, recVars, AtOp, StopWith
<1>0. pc \in {"op", "handed"} => outcome = "accepted" /\ Given = handed /\ Running
  BY DEF GivenInv, Given, Running
<1>a. pc = "op" => (stream => handed \subseteq {"stream"}) /\ (~stream => "stream" \notin handed)
  BY DEF GivenInv
<1>1. ASSUME pc = "op", Completed, UNCHANGED <<place, owner, ptr, handed, outcome>>
      PROVE  GivenInv'
  BY <1>0, <1>a, <1>1, SameSpares, ResumeGiven DEF Completed
<1>2. CASE Nop
  BY <1>1, <1>2 DEF Nop
<1>3. CASE PartOfStream \/ UseAfterRelease
  BY <1>3, LetGoGiven DEF PartOfStream, UseAfterRelease
<1>4. CASE MoveStruct
  <2>1. CASE handed # {}
    BY <1>4, <2>1, LetGoGiven DEF MoveStruct
  <2>2. CASE handed = {}
    <3>1. /\ Move({Schema(1)} \cup (IF array THEN {Array} ELSE {}), "exec")
          /\ Completed /\ UNCHANGED <<ptr, handed, outcome>> /\ pc = "op"
      BY <1>4, <2>2 DEF MoveStruct
    <3>2. \A s \in Structs : place'[s] = place[s] \/ (IsLive(s) /\ place'[s] = "exec")
      BY <3>1 DEF Move
    <3>3. owner' = owner
      BY <3>1 DEF Move
    <3>4. Spares
      BY <3>2, <3>3, RootsAre DEF Spares, Intact, IsLive, Locations
    <3> QED BY <1>0, <1>a, <3>1, <3>4, ResumeGiven DEF Completed
  <2> QED BY <2>1, <2>2
<1>5. ASSUME NEW kind \in {"schema", "array"}, NEW op, Import(kind, op) PROVE GivenInv'
  <2>1. CASE ImportRefused(kind)
    BY <2>1, LetGoGiven DEF ImportRefused
  <2>2. CASE NoteImport(Root[kind]) /\ Enter(ImportName[kind], op, BASE) /\ UNCHANGED exeVars
    <3> DEFINE name == ImportName[kind]
    <3>1. name \in {"import_schema", "import_array"}
      BY DEF ImportName
    <3>2. name \in Callbacks /\ BASE \in Nodes /\ Aimed(BASE, name) /\ name # "import_stream"
      BY <3>1 DEF Callbacks, Nodes, Aimed
    <3>3. \A other \in Objects : name # ImportName[other] => owner'[Root[other]] = owner[Root[other]]
      <4>1. ASSUME NEW other \in Objects, name # ImportName[other]
            PROVE  owner'[Root[other]] = owner[Root[other]]
        <5>1. Root[other] # Root[kind] /\ Root[other] \in Structs
          BY <4>1, RootsAre DEF Objects
        <5> QED BY <2>2, <5>1 DEF NoteImport, TypeInv, RecTypeOK
      <4> QED BY <4>1
    <3>4. UNCHANGED <<outcome, handed, stream, array, place>>
      BY <2>2 DEF NoteImport
    <3>5. Enter(name, op, BASE) /\ pc = "op" /\ ~stream
      BY <1>5, <2>2 DEF Import
    <3> HIDE DEF name
    <3> QED BY <1>0, <3>2, <3>3, <3>4, <3>5, EnterGiven
  <2> QED BY <1>5, <2>1, <2>2 DEF Import
<1>6. CASE ReleaseBase
  <2>1. CASE \E o : o # "accepted" /\ LetGo(o)
    BY <2>1, LetGoGiven
  <2>2. CASE Enter("release_base", "RELEASE_BASE", BASE) /\ UNCHANGED <<handed, outcome, stream, array, recVars>>
    <3>1. "release_base" \in Callbacks /\ BASE \in Nodes /\ Aimed(BASE, "release_base")
      BY DEF Callbacks, Nodes, Aimed
    <3> QED BY <1>0, <1>6, <2>2, <3>1, EnterGiven DEF ReleaseBase
  <2> QED BY <1>6, <2>1, <2>2 DEF ReleaseBase
<1>7. ASSUME NEW i \in Children, ReleaseChild(i) PROVE GivenInv'
  <2>1. CASE \E o : o # "accepted" /\ LetGo(o)
    BY <2>1, LetGoGiven
  <2>2. CASE Enter("release_child", "RELEASE_CHILD", i) /\ UNCHANGED <<exeVars, recVars>>
    <3>1. "release_child" \in Callbacks /\ i \in Nodes /\ Aimed(i, "release_child")
      BY DEF Callbacks, Nodes, Aimed, Children, BASE
    <3> QED BY <1>0, <1>7, <2>2, <3>1, EnterGiven DEF ReleaseChild
  <2> QED BY <1>7, <2>1, <2>2 DEF ReleaseChild
<1>8. CASE ReleaseDictionary
  <2>1. CASE \E o : o # "accepted" /\ LetGo(o)
    BY <2>1, LetGoGiven
  <2>2. CASE Enter("release_dictionary", "RELEASE_DICTIONARY", DICT) /\ UNCHANGED <<exeVars, recVars>>
    <3>1. "release_dictionary" \in Callbacks /\ DICT \in Nodes /\ Aimed(DICT, "release_dictionary")
      BY DEF Callbacks, Nodes, Aimed, DICT, BASE
    <3> QED BY <1>0, <1>8, <2>2, <3>1, EnterGiven DEF ReleaseDictionary
  <2> QED BY <1>8, <2>1, <2>2 DEF ReleaseDictionary
<1>9. ASSUME NEW op \in Calls, StreamOp(op) PROVE GivenInv'
  <2>1. CASE StreamCall(op)
    BY <1>0, <1>9, <2>1, StreamCallGiven DEF StreamOp
  <2>2. CASE LetGo("unsupported")
    BY <2>2, LetGoGiven
  <2>3. CASE NoteImport(Stream) /\ Enter("import_stream", op, BASE) /\ UNCHANGED exeVars
    <3>1. "import_stream" \in Callbacks /\ BASE \in Nodes /\ Aimed(BASE, "import_stream")
      BY DEF Callbacks, Nodes, Aimed
    <3>2. \A other \in Objects : "import_stream" # ImportName[other] => owner'[Root[other]] = owner[Root[other]]
      <4>1. ASSUME NEW other \in Objects, "import_stream" # ImportName[other]
            PROVE  owner'[Root[other]] = owner[Root[other]]
        <5>1. other # "stream"
          BY <4>1 DEF ImportName
        <5>2. Root[other] # Stream /\ Root[other] \in Structs
          BY <5>1, RootsAre, StructsAre
        <5> QED BY <2>3, <5>2 DEF NoteImport, TypeInv, RecTypeOK
      <4> QED BY <4>1
    <3>3. UNCHANGED <<outcome, handed, stream, array, place>>
      BY <2>3 DEF NoteImport
    <3>4. stream /\ pc = "op"
      BY <1>9 DEF StreamOp
    <3> QED BY <1>0, <2>3, <3>1, <3>2, <3>3, <3>4, EnterGiven
  <2> QED BY <1>9, <2>1, <2>2, <2>3 DEF StreamOp
<1>10. CASE ExpectEof
  BY <1>1, <1>10, LetGoGiven DEF ExpectEof
<1>11. CASE HandedOver
  <2>1. cb.op \in Calls /\ pc = "handed" /\ StreamCall(cb.op)
    BY <1>11 DEF HandedOver, TypeInv, CtlTypeOK, UnderWay
  <2>2. stream
    BY <2>1 DEF GivenInv
  <2> QED BY <1>0, <2>1, <2>2, StreamCallGiven
<1>12. CASE EndOfSequence
  BY <1>12, AwayGiven DEF EndOfSequence
<1> QED BY <1>2, <1>3, <1>4, <1>5, <1>6, <1>7, <1>8, <1>9, <1>10, <1>11, <1>12 DEF Op, Calls

LEMMA ReturnGiven ==
  ASSUME TypeInv, ShapeInv, GivenInv, Return, SameCase
  PROVE  GivenInv'
<1> USE DEF exeVars, conVars, recVars, StopWith, Returns, Completed
<1>0. /\ stream => handed \subseteq {"stream"}
      /\ ~stream => "stream" \notin handed
      /\ handed \subseteq Given
  BY DEF GivenInv, Given
<1>a. pc = "callback" /\ cb.name # "release_base" => outcome = "accepted" /\ Running
  BY DEF GivenInv, Running
<1>b. pc = "callback" /\ cb.name \notin {"import_schema", "import_array", "import_stream"} => Given = handed
  BY DEF Given, ImportName, Objects
<1>1. ASSUME NEW kind \in Objects, ReturnImport(kind) PROVE GivenInv'
  <2>1. CASE cb.refused
    BY <1>1, <2>1, LetGoGiven DEF ReturnImport
  <2>2. CASE ~cb.refused
    <3>1. /\ handed' = handed \cup {kind} /\ pc' \in {"op", "handed"}
          /\ pc' = "handed" => kind = "stream"
          /\ UNCHANGED <<place, owner, ptr, outcome>>
          /\ pc = "callback" /\ cb.name = ImportName[kind]
      BY <1>1, <2>2 DEF ReturnImport
    <3>2. cb.name # "release_base"
      BY <3>1 DEF ImportName, Objects
    <3>3. Given = handed \cup {kind}
      BY <3>1 DEF Given, ImportName, Objects
    <3>4. stream => handed' \subseteq {"stream"}
      BY <1>0, <1>1, <3>1 DEF GivenInv, ImportName, Objects
    <3>5. /\ ~stream => "stream" \notin handed'
          /\ pc' = "handed" => stream
      BY <1>0, <3>1, <3>3, GivenHas
    <3> QED BY <1>a, <3>1, <3>2, <3>3, <3>4, <3>5, SameSpares, ResumeGiven
  <2> QED BY <2>1, <2>2
<1>2. CASE ReturnReleaseBase
  <2>1. CASE outcome = "accepted"
    BY <1>0, <1>b, <1>2, <2>1, SameSpares, ResumeGiven DEF ReturnReleaseBase, Running
  <2>2. CASE outcome # "accepted"
    BY <1>2, <2>2, AwayGiven DEF ReturnReleaseBase
  <2> QED BY <2>1, <2>2
<1>3. CASE ReturnMisuse
  BY <1>0, <1>a, <1>b, <1>3, SameSpares, ResumeGiven DEF ReturnMisuse
<1>4. CASE ReturnStreamCall
  <2>1. CASE cb.refused
    BY <1>4, <2>1, LetGoGiven DEF ReturnStreamCall
  <2>2. CASE ~cb.refused
    BY <1>0, <1>a, <1>b, <1>4, <2>2, SameSpares, ResumeGiven DEF ReturnStreamCall
  <2> QED BY <2>1, <2>2
<1>5. CASE ReturnGetNext
  <2>1. CASE cb.refused
    BY <1>5, <2>1, LetGoGiven DEF ReturnGetNext
  <2>2. CASE ~cb.refused
    BY <1>0, <1>a, <1>b, <1>5, <2>2, SameSpares, ResumeGiven DEF ReturnGetNext
  <2> QED BY <2>1, <2>2
<1> QED BY <1>1, <1>2, <1>3, <1>4, <1>5 DEF Return

LEMMA FinishGiven ==
  ASSUME TypeInv, ShapeInv, GivenInv, Finish, SameCase
  PROVE  GivenInv'
<1>1. pc' \notin {"op", "callback", "handed"} /\ UNCHANGED <<handed, stream>>
  BY DEF Finish, SweepStep, Judge, Report, ConsumerGone, exeVars
<1> QED BY <1>1, AwayGiven

LEMMA GivenInit == Init => GivenInv
<1> SUFFICES ASSUME Init PROVE GivenInv
  OBVIOUS
<1>1. Untouched({})
  <2> SUFFICES ASSUME NEW kind \in Objects, Due(kind) PROVE Intact(kind)
    BY DEF Untouched
  <2>1. place[Root[kind]] = "home" /\ owner[Root[kind]] = "harness"
    BY RootsAre DEF Init, Built, Due, Objects
  <2> QED BY <2>1 DEF Intact, IsLive, Locations
<1> QED BY <1>1 DEF Init, GivenInv, Given

LEMMA GivenStep ==
  ASSUME TypeInv, ShapeInv, GivenInv, [Next]_vars
  PROVE  GivenInv'
<1>0. SameCase
  BY EveryStepRec
<1>1. CASE UNCHANGED vars
  BY <1>1 DEF vars, exeVars, conVars, recVars, GivenInv, Given, Running, Untouched, Due,
              Intact, IsLive, Rightful, Allowed
<1> QED BY <1>0, <1>1, OpGiven, CallbackGiven, ReturnGiven, FinishGiven DEF Next, Stopped

-----------------------------------------------------------------------------
(* What the log says of each structure. *)

\* The machine the log leaves a structure's kind in says how it stands.
Heard(kind) ==
  LET s == Root[kind]
      mc == Mach(log)[kind]
  IN  /\ place[s] = "unborn" => mc.state = "absent"
      /\ place[s] = "dead" => mc.state = "released"
      /\ IsLive(s) /\ owner[s] = "consumer" => mc.state = "imported" /\ mc.loc = givenAt[s]
      /\ IsLive(s) /\ owner[s] = "harness" =>
           mc.state = IF stream /\ kind = "schema" THEN "absent" ELSE "exported"

HeardNow ==
  /\ Mach(log) \in [Objects -> Machine]
  /\ Heard("array") /\ Heard("stream")
  /\ OneSchema => Heard("schema") /\ Found(log, Strict) = Told(sins, Strict)

HeardInv == pc # "gone" /\ ~dropped => HeardNow

\* What did not change is heard as it was.
LEMMA StillHeard ==
  ASSUME NEW kind \in Objects, Heard(kind), stream' = stream,
         Mach(log')[kind] = Mach(log)[kind],
         place'[Root[kind]] = place[Root[kind]], owner'[Root[kind]] = owner[Root[kind]],
         givenAt'[Root[kind]] = givenAt[Root[kind]]
  PROVE  Heard(kind)'
BY DEF Heard, IsLive

LEMMA OneBorn ==
  ASSUME ShapeInv, OneSchema, NEW s \in Schemas, place[s] # "unborn"
  PROVE  s = Schema(1)
<1>1. Schema(1) \in Schemas
  BY SchemasAssumption DEF Schemas
<1> QED BY <1>1 DEF ShapeInv, OneSchema

LEMMA KindsAre ==
  \A s \in Structs : /\ s.obj = "array" => s = Array
                     /\ s.obj = "stream" => s = Stream
                     /\ s.obj = "schema" => s \in Schemas
BY RootsAre DEF Structs

LEMMA ReleaseHeard ==
  ASSUME RecTypeOK, ShapeInv, HeardNow, SameCase, ~dropped', NEW s \in Structs, IsLive(s),
         NEW harness \in BOOLEAN, NEW before \in Seq(Event), Silent(before),
         Release(s, harness, before)
  PROVE  HeardNow'
<1> DEFINE k == s.obj
           inner == s = Stream /\ Undelivered
           fits == /\ owner[s] = "consumer" =>
                        Mach(log)[k].state = "imported" /\ Mach(log)[k].loc = givenAt[s]
                   /\ owner[s] = "harness" => Mach(log)[k].state \in {"absent", "exported"}
<1>4. Mach(log) \in [Objects -> Machine] /\ Heard("array") /\ Heard("stream") /\ k \in Objects
  BY StructsAre DEF HeardNow
<1>5. inner => owner[Array] = "harness" /\ Mach(log)["array"].state = "exported"
  BY <1>4, RootsAre DEF Heard, ShapeInv, Undelivered, IsLive, Locations
<1>6. /\ Mach(log') \in [Objects -> Machine]
      /\ Mach(log')[k].state = "released"
      /\ inner => Mach(log')["array"].state = "released"
      /\ \A obj \in Objects : obj # k /\ ~(inner /\ obj = "array") => Mach(log')[obj] = Mach(log)[obj]
      /\ fits => \A st \in BOOLEAN :
           Found(log', st) = Found(log, st) \cup Told(SinOf(s, harness), st)
  BY <1>4, <1>5, ReleaseTold
<1> HIDE DEF fits
<1>7. \A x \in Structs : place'[x] = IF x \in Ended(s) THEN "dead" ELSE place[x]
  BY DEF Release
<1>8. ASSUME NEW kind \in Objects, Heard(kind), kind = k => Root[kind] = s PROVE Heard(kind)'
  <2>1. CASE kind = k
    BY <1>6, <1>7, <1>8, <2>1, RootsAre DEF Heard, Ended, IsLive, Locations
  <2>2. CASE inner /\ kind = "array"
    <3>1. Root[kind] = Array /\ Array \in Ended(s) /\ Array \in Structs
      BY <2>2, RootsAre, StructsAre DEF Ended
    <3> QED BY <1>6, <1>7, <2>2, <3>1 DEF Heard, IsLive, Locations
  <2>3. CASE kind # k /\ ~(inner /\ kind = "array")
    <3>1. Root[kind] \in Structs /\ Root[kind].obj = kind
      BY RootsAre
    <3>2. Root[kind] \notin Ended(s)
      BY <2>3, <3>1, RootsAre DEF Ended
    <3>3. place'[Root[kind]] = place[Root[kind]]
      BY <1>7, <3>1, <3>2
    <3> QED BY <1>6, <1>8, <2>3, <3>3, StillHeard DEF Release, SameCase
  <2> QED BY <2>1, <2>2, <2>3
<1>9. "array" = k => Root["array"] = s
  BY KindsAre, RootsAre
<1>10. "stream" = k => Root["stream"] = s
  BY KindsAre, RootsAre
<1>11. ASSUME OneSchema' PROVE Heard("schema")' /\ (Found(log, Strict) = Told(sins, Strict))'
  <2>1. OneSchema
    <3> SUFFICES ASSUME NEW x \in Schemas, NEW y \in Schemas, place[x] # "unborn", place[y] # "unborn"
                 PROVE  x = y
      BY DEF OneSchema
    <3>1. place'[x] # "unborn" /\ place'[y] # "unborn"
      BY <1>7, StructsAre
    <3> QED BY <1>11, <3>1 DEF OneSchema
  <2>2. "schema" = k => s = Schema(1)
    <3> SUFFICES ASSUME "schema" = k PROVE s = Schema(1)
      OBVIOUS
    <3>1. s \in Schemas
      BY KindsAre
    <3>2. place[s] # "unborn"
      BY DEF IsLive, Locations
    <3> QED BY <2>1, <3>1, <3>2, OneBorn
  <2>3. Heard("schema")'
    BY <1>8, <2>1, <2>2, RootsAre DEF HeardNow, Objects
  <2>4. Strict \in BOOLEAN /\ Strict' = Strict
    BY DEF Strict, SameCase
  <2> DEFINE st == Strict
  <2>5. st \in BOOLEAN
    BY <2>4
  <2> HIDE DEF st
  <2>6. Heard(k) /\ Root[k] = s
    BY <1>4, <1>9, <1>10, <2>1, <2>2, RootsAre DEF HeardNow, Objects
  <2>7. fits
    BY <1>4, <2>6 DEF Heard, fits
  <2>8. Found(log', st) = Found(log, st) \cup Told(SinOf(s, harness), st)
    BY <1>6, <2>5, <2>7
  <2>10. Found(log, st) = Told(sins, st)
    BY <2>1 DEF HeardNow, st
  <2>11. sins' = sins \cup SinOf(s, harness)
    BY DEF Release
  <2>12. Found(log', st) = Told(sins', st)
    BY <2>8, <2>10, <2>11, ToldBoth
  <2> QED BY <2>3, <2>4, <2>12 DEF st
<1> QED BY <1>4, <1>6, <1>8, <1>9, <1>10, <1>11 DEF HeardNow, Objects

LEMMA BornBefore ==
  ASSUME OneSchema', \A s \in Schemas : place[s] # "unborn" => place'[s] # "unborn"
  PROVE  OneSchema
<1> SUFFICES ASSUME NEW x \in Schemas, NEW y \in Schemas, place[x] # "unborn", place[y] # "unborn"
             PROVE  x = y
  BY DEF OneSchema
<1>1. place'[x] # "unborn" /\ place'[y] # "unborn"
  OBVIOUS
<1> QED BY <1>1 DEF OneSchema

LEMMA StrictStays ==
  ASSUME SameCase
  PROVE  Strict \in BOOLEAN /\ Strict' = Strict
BY DEF Strict, SameCase

\* A step that touches one kind, and breaks nothing.
LEMMA OneKindHeard ==
  ASSUME HeardNow, SameCase, NEW k \in Objects,
         Mach(log') \in [Objects -> Machine],
         \A obj \in Objects : obj # k => Mach(log')[obj] = Mach(log)[obj],
         \A x \in Structs : x.obj # k => /\ place'[x] = place[x]
                                       /\ owner'[x] = owner[x]
                                       /\ givenAt'[x] = givenAt[x],
         \A x \in Schemas : place[x] # "unborn" => place'[x] # "unborn",
         k = "schema" /\ OneSchema' => Heard(k)', k # "schema" => Heard(k)',
         \A strict : Found(log', strict) = Found(log, strict), sins' = sins
  PROVE  HeardNow'
<1>1. ASSUME NEW kind \in Objects, kind # k, Heard(kind) PROVE Heard(kind)'
  <2>1. Root[kind] \in Structs /\ Root[kind].obj # k
    BY <1>1, RootsAre
  <2> QED BY <1>1, <2>1, StillHeard DEF SameCase
<1>2. Heard("array")' /\ Heard("stream")'
  BY <1>1 DEF HeardNow, Objects
<1>3. ASSUME OneSchema' PROVE Heard("schema")' /\ (Found(log, Strict) = Told(sins, Strict))'
  <2>1. OneSchema
    BY <1>3, BornBefore
  <2>2. Heard("schema")'
    BY <1>1, <1>3, <2>1 DEF HeardNow, Objects
  <2>3. Found(log', Strict) = Told(sins', Strict)
    BY <2>1 DEF HeardNow
  <2> QED BY <2>2, <2>3, StrictStays
<1> QED BY <1>2, <1>3 DEF HeardNow

\* A step the log does not mention.
LEMMA UnloggedHeard ==
  ASSUME HeardNow, SameCase, UNCHANGED <<log, owner, givenAt, sins>>,
         \A x \in Structs : place'[x] = place[x] \/ (IsLive(x) /\ place'[x] = "own")
  PROVE  HeardNow'
<1>1. ASSUME NEW kind \in Objects, Heard(kind) PROVE Heard(kind)'
  <2>1. Root[kind] \in Structs
    BY RootsAre
  <2> QED BY <1>1, <2>1 DEF Heard, IsLive, Locations, SameCase
<1>2. ASSUME OneSchema' PROVE OneSchema
  BY <1>2, BornBefore, StructsAre DEF IsLive, Locations
<1>3. ASSUME OneSchema' PROVE Heard("schema")' /\ (Found(log, Strict) = Told(sins, Strict))'
  <2>1. Heard("schema")'
    BY <1>1, <1>2, <1>3 DEF HeardNow, Objects
  <2>2. Found(log', Strict) = Told(sins', Strict)
    BY <1>2, <1>3 DEF HeardNow
  <2> QED BY <2>1, <2>2, StrictStays
<1> QED BY <1>1, <1>3 DEF HeardNow, Objects

LEMMA ImportHeard ==
  ASSUME RecTypeOK, ShapeInv, HeardNow, SameCase, ~dropped', NEW kind \in Objects,
         Due(kind), Intact(kind), NoteImport(Root[kind])
  PROVE  HeardNow'
<1> DEFINE s == Root[kind]
<1>1. s \in Structs /\ s.obj = kind
  BY RootsAre
<1>2. Heard(kind) /\ Mach(log) \in [Objects -> Machine]
  <2>1. kind = "schema" => OneSchema
    BY DEF Due, ShapeInv, OneSchema
  <2> QED BY <2>1 DEF HeardNow, Objects
<1>3. Mach(log)[s.obj].state = "exported"
  BY <1>1, <1>2 DEF Heard, Intact, Due
<1>4. /\ Mach(log') \in [Objects -> Machine]
      /\ \A obj \in Objects : obj # kind => Mach(log')[obj] = Mach(log)[obj]
      /\ Mach(log')[kind].state = "imported" /\ Mach(log')[kind].loc = place[s]
      /\ \A strict : Found(log', strict) = Found(log, strict)
  BY <1>1, <1>2, <1>3, ImportTold
<1>5. /\ UNCHANGED <<place, sins>>
      /\ owner'[s] = "consumer" /\ givenAt'[s] = place[s]
      /\ \A x \in Structs : x # s => owner'[x] = owner[x] /\ givenAt'[x] = givenAt[x]
  BY <1>1 DEF NoteImport, RecTypeOK
<1>6. Heard(kind)'
  BY <1>4, <1>5 DEF Heard, IsLive, Intact, Locations
<1> QED BY <1>1, <1>4, <1>5, <1>6, OneKindHeard

LEMMA ReturnedHeard ==
  ASSUME RecTypeOK, ShapeInv, HeardNow, SameCase, ~dropped', NEW kind \in Objects,
         at \in {"home", "exec"}, place[Root[kind]] = at, NoteReturned(Root[kind], at)
  PROVE  HeardNow'
<1> DEFINE s == Root[kind]
<1>1. s \in Structs /\ s.obj = kind /\ at \in Places /\ IsLive(s)
  BY RootsAre DEF IsLive, Locations, Places
<1>2. kind = "schema" => ~stream
  BY RootsAre, StructsAre, SchemasAssumption DEF ShapeInv, Schemas
<1>3. Heard(kind) /\ Mach(log) \in [Objects -> Machine]
  <2>1. kind = "schema" => OneSchema
    BY <1>2 DEF ShapeInv, OneSchema
  <2> QED BY <2>1 DEF HeardNow, Objects
<1>4. Mach(log)[s.obj].state \in {"imported", "exported"}
  BY <1>1, <1>2, <1>3 DEF Heard, RecTypeOK
<1>5. /\ Mach(log') \in [Objects -> Machine]
      /\ \A obj \in Objects : obj # kind => Mach(log')[obj] = Mach(log)[obj]
      /\ Mach(log')[kind].state = "exported"
      /\ \A strict : Found(log', strict) = Found(log, strict)
  BY <1>1, <1>3, <1>4, ReturnedTold
<1>6. /\ UNCHANGED <<place, sins, givenAt>>
      /\ owner'[s] = "harness"
      /\ \A x \in Structs : x # s => owner'[x] = owner[x]
  BY <1>1 DEF NoteReturned, RecTypeOK
<1>7. Heard(kind)'
  BY <1>1, <1>2, <1>5, <1>6 DEF Heard, IsLive, Locations, SameCase
<1> QED BY <1>1, <1>5, <1>6, <1>7, OneKindHeard

LEMMA KidHeard ==
  ASSUME RecTypeOK, HeardNow, SameCase, ~dropped', NEW k \in Kids, k \in kids, ReleaseKid(k)
  PROVE  HeardNow'
<1> DEFINE broken == {<<"child-released-by-consumer", "array">>}
<1>10. Mach(log) \in [Objects -> Machine]
  BY DEF HeardNow
<1>11. /\ Mach(log') = Mach(log)
       /\ \A strict : Found(log', strict) = Found(log, strict) \cup broken
  BY <1>10, KidTold
<1>13. UNCHANGED <<place, owner, givenAt>> /\ sins' = sins \cup broken
  BY DEF ReleaseKid
<1>14. ASSUME NEW kind \in Objects, Heard(kind) PROVE Heard(kind)'
  BY <1>11, <1>13, <1>14, StillHeard DEF SameCase
<1>15. ASSUME OneSchema' PROVE Heard("schema")' /\ (Found(log, Strict) = Told(sins, Strict))'
  <2>1. OneSchema
    BY <1>13, <1>15 DEF OneSchema
  <2>2. Told(broken, Strict) = broken
    BY DEF Told
  <2>3. Found(log', Strict) = Told(sins', Strict)
    <3> DEFINE st == Strict
    <3>1. Found(log, st) = Told(sins, st) /\ Told(broken, st) = broken
      BY <2>1, <2>2 DEF HeardNow
    <3> HIDE DEF st, broken
    <3>2. Found(log', st) = Told(sins', st)
      BY <1>11, <1>13, <3>1, ToldBoth
    <3> QED BY <3>2 DEF st
  <2> QED BY <1>14, <2>1, <2>3, StrictStays DEF HeardNow, Objects
<1> QED BY <1>10, <1>11, <1>14, <1>15 DEF HeardNow, Objects

\* Nothing the case hands over is the consumer's yet, and the log says of each
\* kind what it said.
LEMMA MovedHeard ==
  ASSUME ShapeInv, HeardNow, SameCase, ~stream,
         \A kind \in Objects : owner[Root[kind]] = "harness",
         UNCHANGED <<owner, givenAt, sins>>,
         \A x \in Structs : place'[x] = place[x] \/ (IsLive(x) /\ place'[x] = "exec"),
         Mach(log') \in [Objects -> Machine],
         \A kind \in Objects : Mach(log')[kind].state = Mach(log)[kind].state,
         \A strict : Found(log', strict) = Found(log, strict)
  PROVE  HeardNow'
<1>1. OneSchema
  BY DEF ShapeInv, OneSchema
<1>2. ASSUME NEW kind \in Objects PROVE Heard(kind)'
  <2>1. Heard(kind)
    BY <1>1 DEF HeardNow, Objects
  <2>2. Root[kind] \in Structs
    BY RootsAre
  <2> QED BY <2>1, <2>2 DEF Heard, IsLive, Locations, SameCase
<1>3. Found(log', Strict) = Told(sins', Strict)
  BY <1>1 DEF HeardNow
<1> QED BY <1>2, <1>3, StrictStays DEF HeardNow, Objects

LEMMA MoveHeard ==
  ASSUME RecTypeOK, ShapeInv, HeardNow, SameCase, ~dropped', ~stream,
         Intact("schema"), array => Intact("array"),
         Move({Schema(1)} \cup (IF array THEN {Array} ELSE {}), "exec")
  PROVE  HeardNow'
<1>1. /\ Mach(log') \in [Objects -> Machine]
      /\ \A kind \in Objects : Mach(log')[kind].state = Mach(log)[kind].state
      /\ \A strict : Found(log', strict) = Found(log, strict)
  BY MoveTold DEF HeardNow
<1>2. \A kind \in Objects : owner[Root[kind]] = "harness"
  BY RootsAre, StructsAre DEF Intact, ShapeInv, Objects
<1>3. /\ UNCHANGED <<owner, givenAt, sins>>
      /\ \A x \in Structs : place'[x] = place[x] \/ (IsLive(x) /\ place'[x] = "exec")
  BY DEF Move
<1> QED BY <1>1, <1>2, <1>3, MovedHeard

LEMMA GetSchemaHeard ==
  ASSUME RecTypeOK, ShapeInv, HeardNow, SameCase, ~dropped', stream,
         NEW k \in 1..MaxSchemas, NextSchema(k), GetSchema(k)
  PROVE  HeardNow'
<1> DEFINE s == Schema(k)
<1>0. s \in Structs /\ s \in Schemas /\ s.obj = "schema" /\ "schema" \in Objects
  BY RootsAre, StructsAre DEF Objects, Schemas
<1>1. /\ Mach(log') \in [Objects -> Machine]
      /\ \A obj \in Objects : obj # "schema" => Mach(log')[obj] = Mach(log)[obj]
      /\ Mach(log')["schema"].state = "imported" /\ Mach(log')["schema"].loc = "own"
      /\ \A strict : Found(log', strict) = Found(log, strict)
  BY GetSchemaTold DEF HeardNow
<1>2. /\ \A x \in Structs : x # s => /\ place'[x] = place[x] /\ owner'[x] = owner[x]
                                     /\ givenAt'[x] = givenAt[x]
      /\ place'[s] = "own" /\ owner'[s] = "consumer" /\ givenAt'[s] = "own" /\ sins' = sins
  BY <1>0 DEF GetSchema, RecTypeOK
<1>3. ASSUME OneSchema' PROVE Heard("schema")'
  <2>1. k = 1
    <3> SUFFICES ASSUME k # 1 PROVE FALSE
      OBVIOUS
    <3>1. 1 \in 1..MaxSchemas /\ ~(k <= 1)
      BY SchemasAssumption
    <3>2. place[Schema(1)] # "unborn"
      BY <3>1 DEF NextSchema, Unborn
    <3>3. Schema(1) # s /\ Schema(1) \in Schemas /\ Schema(1) \in Structs
      BY <3>1, StructsAre DEF Schema, Schemas
    <3>4. place'[Schema(1)] # "unborn" /\ place'[s] # "unborn"
      BY <1>2, <3>2, <3>3
    <3> QED BY <1>0, <1>3, <3>3, <3>4 DEF OneSchema
  <2>2. Root["schema"] = s
    BY <2>1, RootsAre
  <2> QED BY <1>1, <1>2, <2>2 DEF Heard, IsLive, Locations
<1>4. \A x \in Schemas : place[x] # "unborn" => place'[x] # "unborn"
  BY <1>2, StructsAre
<1> HIDE DEF s
<1> QED BY <1>0, <1>1, <1>2, <1>3, <1>4, OneKindHeard

LEMMA GetSchemaOutHeard ==
  ASSUME RecTypeOK, ShapeInv, HeardNow, SameCase, ~dropped', stream,
         NEW k \in 1..MaxSchemas, NextSchema(k), GetSchemaRunsOut(k)
  PROVE  HeardNow'
<1> DEFINE s == Schema(k)
<1>0. s \in Structs /\ s \in Schemas /\ s.obj = "schema" /\ "schema" \in Objects
  BY RootsAre, StructsAre DEF Objects, Schemas
<1>1. UNCHANGED <<log, owner, givenAt, sins>>
  BY DEF GetSchemaRunsOut
<1>2. CASE place' = place
  BY <1>1, <1>2, UnloggedHeard
<1>3. CASE place' = [place EXCEPT ![s] = "own"]
  <2>1. \A x \in Structs : x # s => place'[x] = place[x]
    BY <1>3 DEF RecTypeOK
  <2>2. place'[s] = "own" /\ place[s] = "unborn" /\ owner[s] = "harness"
    BY <1>0, <1>3 DEF RecTypeOK, ShapeInv, NextSchema, Unborn
  <2>3. ASSUME OneSchema' PROVE Heard("schema")'
    <3>1. k = 1
      <4> SUFFICES ASSUME k # 1 PROVE FALSE
        OBVIOUS
      <4>1. 1 \in 1..MaxSchemas /\ ~(k <= 1)
        BY SchemasAssumption
      <4>2. place[Schema(1)] # "unborn"
        BY <4>1 DEF NextSchema, Unborn
      <4>3. Schema(1) # s /\ Schema(1) \in Schemas /\ Schema(1) \in Structs
        BY <4>1, StructsAre DEF Schema, Schemas
      <4>4. place'[Schema(1)] # "unborn" /\ place'[s] # "unborn"
        BY <2>1, <2>2, <4>2, <4>3
      <4> QED BY <1>0, <2>3, <4>3, <4>4 DEF OneSchema
    <3>2. Root["schema"] = s
      BY <3>1, RootsAre
    <3>3. OneSchema
      BY <2>1, <2>2, <2>3, BornBefore, StructsAre
    <3>4. Mach(log)["schema"].state = "absent"
      BY <2>2, <3>2, <3>3 DEF HeardNow, Heard
    <3> QED BY <1>1, <2>2, <3>2, <3>4 DEF Heard, IsLive, Locations, SameCase
  <2>4. \A x \in Schemas : place[x] # "unborn" => place'[x] # "unborn"
    BY <2>1, <2>2, StructsAre
  <2>5. Mach(log') \in [Objects -> Machine]
    BY <1>1 DEF HeardNow
  <2> HIDE DEF s
  <2> QED BY <1>0, <1>1, <2>1, <2>3, <2>4, <2>5, OneKindHeard
<1> QED BY <1>2, <1>3 DEF GetSchemaRunsOut

LEMMA GetNextHeard ==
  ASSUME RecTypeOK, ShapeInv, HeardNow, SameCase, ~dropped', stream, GetNext
  PROVE  HeardNow'
<1>0. /\ Array \in Structs /\ Array.obj = "array" /\ "array" \in Objects
      /\ Root["array"] = Array
  BY RootsAre, StructsAre DEF Objects
<1>1. Mach(log) \in [Objects -> Machine] /\ Heard("array")
  BY DEF HeardNow
<1>2. Undelivered => Mach(log)["array"].state = "exported"
  BY <1>0, <1>1 DEF Heard, ShapeInv, Undelivered, IsLive, Locations
<1>3. /\ Mach(log') \in [Objects -> Machine]
      /\ \A obj \in Objects : obj # "array" => Mach(log')[obj] = Mach(log)[obj]
      /\ Undelivered => Mach(log')["array"].state = "imported" /\ Mach(log')["array"].loc = "own"
      /\ ~Undelivered => Mach(log')["array"] = Mach(log)["array"]
      /\ \A strict : Found(log', strict) = Found(log, strict)
  BY <1>1, <1>2, GetNextTold
<1>4. \A x \in Structs : x.obj # "array" => x # Array
  BY <1>0
<1>5. CASE Undelivered
  <2>1. /\ \A x \in Structs : x # Array => /\ place'[x] = place[x] /\ owner'[x] = owner[x]
                                          /\ givenAt'[x] = givenAt[x]
        /\ place'[Array] = "own" /\ owner'[Array] = "consumer" /\ givenAt'[Array] = "own"
        /\ sins' = sins
    BY <1>0, <1>5 DEF GetNext, RecTypeOK
  <2>2. Heard("array")'
    BY <1>0, <1>3, <1>5, <2>1 DEF Heard, IsLive, Locations
  <2>3. \A x \in Schemas : place[x] # "unborn" => place'[x] # "unborn"
    BY <2>1, StructsAre
  <2> QED BY <1>0, <1>3, <1>4, <2>1, <2>2, <2>3, OneKindHeard
<1>6. CASE ~Undelivered
  <2>1. UNCHANGED <<place, owner, givenAt, sins>>
    BY <1>6 DEF GetNext
  <2>2. Heard("array")'
    BY <1>0, <1>1, <1>3, <1>6, <2>1, StillHeard DEF SameCase
  <2> QED BY <1>0, <1>3, <2>1, <2>2, OneKindHeard
<1> QED BY <1>5, <1>6

LEMMA Forgotten ==
  ASSUME NEW evs, Observe(evs), ~dropped'
  PROVE  ~dropped
BY Zenon DEF Observe

LEMMA HeardStep ==
  ASSUME RecTypeOK, at \in {"home", "exec"}, ShapeInv, HeardInv, RecStep, SameCase,
         pc = "gone" => pc' = "gone"
  PROVE  HeardInv'
<1> SUFFICES ASSUME pc' # "gone", ~dropped' PROVE HeardNow'
  BY DEF HeardInv
<1>0. ~dropped => HeardNow
  BY DEF HeardInv
<1>1. CASE UNCHANGED recVars \/ FreeBacking \/ \E s \in Structs : Take(s)
  <2>1. /\ UNCHANGED <<log, owner, givenAt, sins, dropped>>
        /\ \A x \in Structs : place'[x] = place[x] \/ (IsLive(x) /\ place'[x] = "own")
    BY <1>1 DEF recVars, FreeBacking, Take, RecTypeOK
  <2> QED BY <1>0, <2>1, UnloggedHeard
<1>2. ASSUME NEW s \in Structs, IsLive(s), Release(s, FALSE, <<>>) PROVE HeardNow'
  <2>1. ~dropped
    BY <1>2, Forgotten DEF Release
  <2> DEFINE before == <<>>
             h == FALSE
  <2>2. before \in Seq(Event) /\ Silent(before) /\ h \in BOOLEAN /\ Release(s, h, before)
    BY <1>2, QuietNone
  <2> HIDE DEF before, h
  <2> QED BY <1>0, <1>2, <2>1, <2>2, ReleaseHeard
<1>3. ASSUME NEW s \in Structs, IsLive(s), Release(s, TRUE, <<Note("harness", s, place[s])>>)
      PROVE  HeardNow'
  <2>1. ~dropped
    BY <1>3, Forgotten DEF Release
  <2> DEFINE before == <<Note("harness", s, place[s])>>
             h == TRUE
  <2>2. before \in Seq(Event) /\ Silent(before)
    <3>1. BASE \in Nodes /\ place[s] \in Places
      BY DEF Nodes, RecTypeOK
    <3> QED BY <3>1, QuietNotes DEF Note
  <2>3. h \in BOOLEAN /\ Release(s, h, before)
    BY <1>3
  <2> HIDE DEF before, h
  <2> QED BY <1>0, <1>3, <2>1, <2>2, <2>3, ReleaseHeard
<1>4. ASSUME NEW k \in Kids, k \in kids, ReleaseKid(k) PROVE HeardNow'
  BY <1>0, <1>4, Forgotten, KidHeard DEF ReleaseKid
<1>5. ASSUME NEW kind \in Objects, Due(kind), Intact(kind), NoteImport(Root[kind]) PROVE HeardNow'
  BY <1>0, <1>5, Forgotten, ImportHeard DEF NoteImport
<1>6. ASSUME NEW kind \in Objects, place[Root[kind]] = at, NoteReturned(Root[kind], at)
      PROVE  HeardNow'
  BY <1>0, <1>6, Forgotten, ReturnedHeard DEF NoteReturned
<1>7. CASE /\ ~stream /\ Intact("schema") /\ (array => Intact("array"))
           /\ Move({Schema(1)} \cup (IF array THEN {Array} ELSE {}), "exec")
  <2>1. ~dropped
    BY <1>7, Forgotten DEF Move
  <2> QED BY <1>0, <1>7, <2>1, MoveHeard
<1>8. ASSUME stream, NEW k \in 1..MaxSchemas, NextSchema(k), GetSchema(k) PROVE HeardNow'
  BY <1>0, <1>8, Forgotten, GetSchemaHeard DEF GetSchema
<1>9. ASSUME stream, NEW k \in 1..MaxSchemas, NextSchema(k), GetSchemaRunsOut(k) PROVE HeardNow'
  BY <1>0, <1>9, GetSchemaOutHeard DEF GetSchemaRunsOut
<1>10. CASE stream /\ GetNext
  <2>1. ~dropped
    BY <1>10, Forgotten DEF GetNext
  <2> QED BY <1>0, <1>10, <2>1, GetNextHeard
<1> QED BY <1>1, <1>2, <1>3, <1>4, <1>5, <1>6, <1>7, <1>8, <1>9, <1>10 DEF RecStep

LEMMA HeardInit ==
  ASSUME Init
  PROVE  HeardInv
<1>1. PICK nodes \in KidSets : Built(stream, array, nodes)
  BY DEF Init
<1>2. stream \in BOOLEAN /\ array \in BOOLEAN
  BY DEF Init
<1> DEFINE s == Note("exported", Schema(1), "home")
           a == Note("exported", Array, "home")
           t == Note("exported", Stream, "home")
<1>3. /\ s \in Event /\ s.kind = "exported" /\ s.obj = "schema"
      /\ a \in Event /\ a.kind = "exported" /\ a.obj = "array"
      /\ t \in Event /\ t.kind = "exported" /\ t.obj = "stream"
  <2>1. BASE \in Nodes /\ FALSE \in BOOLEAN /\ "home" \in Places /\ "exported" \in Kinds
    BY DEF Nodes, Places, Locations, Kinds
  <2>2. Schema(1) \in Structs /\ Array \in Structs /\ Stream \in Structs
    BY RootsAre, StructsAre DEF Objects
  <2>3. s \in Event /\ a \in Event /\ t \in Event
    BY <2>1, <2>2, EvType DEF Note
  <2>4. s.kind = "exported" /\ a.kind = "exported" /\ t.kind = "exported"
    BY DEF Note, Ev
  <2>5. s.obj = "schema" /\ a.obj = "array" /\ t.obj = "stream"
    BY RootsAre DEF Note, Ev
  <2> QED BY <2>3, <2>4, <2>5
<1>4. log = (IF stream THEN <<>> ELSE <<s>>) \o (IF array THEN <<a>> ELSE <<>>)
            \o (IF stream THEN <<t>> ELSE <<>>)
  BY <1>1 DEF Built
<1> HIDE DEF s, a, t
<1> DEFINE home(kind) == IF stream THEN kind = "stream" \/ (kind = "array" /\ array)
                         ELSE kind = "schema" \/ (kind = "array" /\ array)
<1>5. /\ Mach(log) \in [Objects -> Machine]
      /\ \A kind \in Objects : Mach(log)[kind].state = IF home(kind) THEN "exported" ELSE "absent"
      /\ \A strict : Found(log, strict) = {}
  <2>1. CASE stream /\ array
    <3>1. log = <<a, t>>
      <4>1. log = (<<>> \o <<a>>) \o <<t>>
        BY <1>4, <2>1
      <4>2. <<>> \o <<a>> = <<a>>
        BY <1>3
      <4> QED BY <1>3, <4>1, <4>2, TwoEvents
    <3> QED BY <1>3, <2>1, <3>1, HearTwoExports DEF Objects
  <2>2. CASE stream /\ ~array
    <3>1. log = <<t>>
      <4>1. log = (<<>> \o <<>>) \o <<t>>
        BY <1>4, <2>2
      <4> QED BY <1>3, <4>1
    <3> QED BY <1>3, <2>2, <3>1, HearOneExport DEF Objects
  <2>3. CASE ~stream /\ array
    <3>1. log = <<s, a>>
      <4>1. log = (<<s>> \o <<a>>) \o <<>>
        BY <1>4, <2>3
      <4>2. <<s, a>> \in Seq(Event) /\ <<s>> \o <<a>> = <<s, a>>
        BY <1>3, TwoEvents
      <4> DEFINE l == <<s, a>>
      <4>3. l \o <<>> = l
        BY <4>2, ConcatEmptySeq
      <4> QED BY <4>1, <4>2, <4>3
    <3>2. \A kind \in Objects : home(kind) <=> kind \in {"schema", "array"}
      BY <2>3
    <3> HIDE DEF home
    <3> QED BY <1>3, <3>1, <3>2, HearTwoExports DEF Objects
  <2>4. CASE ~stream /\ ~array
    <3>1. log = <<s>>
      <4>1. log = (<<s>> \o <<>>) \o <<>>
        BY <1>4, <2>4
      <4> QED BY <1>3, <4>1
    <3> QED BY <1>3, <2>4, <3>1, HearOneExport DEF Objects
  <2> QED BY <1>2, <2>1, <2>2, <2>3, <2>4
<1>6. \A kind \in Objects : /\ place[Root[kind]] = IF home(kind) THEN "home" ELSE "unborn"
                            /\ owner[Root[kind]] = "harness"
  BY <1>1, <1>2, RootsAre, StructsAre DEF Built, Objects
<1>7. \A kind \in Objects : Heard(kind)
  BY <1>2, <1>5, <1>6 DEF Heard, IsLive, Locations
<1>8. sins = {}
  BY <1>1 DEF Built
<1> QED BY <1>5, <1>7, <1>8 DEF HeardInv, HeardNow, Told, Objects

LEMMA JudgedExactly ==
  ASSUME RecTypeOK, ShapeInv, HeardInv
  PROVE  VerdictExact
<1> SUFFICES ASSUME pc = "judged", ~dropped, OneSchema PROVE Blamed = Truth
  BY DEF VerdictExact
<1> DEFINE live == {o \in Objects : Mach(log)[o].state \in {"exported", "imported"}}
           standing == {x \in Live : ~Unannounced(x)}
<1>1. log \in Seq(Event)
  BY DEF RecTypeOK
<1>2. Blamed = Found(log, Strict) \cup {<<"never-released", obj>> : obj \in live}
  BY <1>1, VerdictIs DEF Blamed, Verdict
<1>3. Found(log, Strict) = Told(sins, Strict) /\ \A kind \in Objects : Heard(kind)
  BY DEF HeardInv, HeardNow, Objects
<1>4. Truth = Told(sins, Strict) \cup {<<"never-released", x.obj>> : x \in standing}
  BY DEF Truth, Told
<1>5. ASSUME NEW x \in standing PROVE x.obj \in live
  <2>1. x \in Structs /\ IsLive(x) /\ ~Unannounced(x)
    BY DEF Live, IsLive
  <2>2. x.obj \in Objects /\ Root[x.obj] = x
    <3>1. CASE x \in Schemas
      <4>1. x = Schema(1)
        BY <2>1, <3>1, OneBorn DEF IsLive, Locations
      <4> QED BY <4>1, RootsAre DEF Objects
    <3>2. CASE x \notin Schemas
      BY <2>1, <3>2, RootsAre DEF Structs, Objects
    <3> QED BY <3>1, <3>2
  <2>3. owner[x] = "harness" => ~(stream /\ x.obj = "schema")
    BY <2>1, KindsAre DEF Unannounced
  <2>4. owner[x] \in {"harness", "consumer"}
    BY <2>1 DEF RecTypeOK
  <2> QED BY <1>3, <2>1, <2>2, <2>3, <2>4 DEF Heard
<1>6. ASSUME NEW obj \in live PROVE \E x \in standing : x.obj = obj
  <2>1. Root[obj] \in Structs /\ Root[obj].obj = obj
    BY RootsAre
  <2>2. place[Root[obj]] \in Places /\ Heard(obj)
    BY <1>3, <2>1 DEF RecTypeOK
  <2>3. IsLive(Root[obj])
    BY <2>2 DEF Heard, IsLive, Places
  <2>4. ~Unannounced(Root[obj])
    BY <2>1, <2>2, <2>3, RootsAre DEF Unannounced, Heard
  <2> QED BY <2>1, <2>3, <2>4 DEF Live, IsLive
<1>7. {<<"never-released", obj>> : obj \in live} = {<<"never-released", x.obj>> : x \in standing}
  <2> HIDE DEF live, standing
  <2> QED BY <1>5, <1>6
<1> HIDE DEF live, standing
<1> QED BY <1>2, <1>3, <1>4, <1>7

ExactInv == ShapeInv /\ GivenInv /\ HeardInv

LEMMA ExactStep ==
  ASSUME TypeInv, ExactInv, [Next]_vars
  PROVE  ExactInv'
<1>1. RecStep /\ SameCase
  BY EveryStepRec DEF ExactInv
<1>2. RecTypeOK /\ at \in {"home", "exec"}
  BY DEF TypeInv, ExeTypeOK
<1>3. pc = "gone" => pc' = "gone"
  BY DEF Next, Op, Callback, Return, Finish, Stopped, vars, Nop, PartOfStream, MoveStruct, Import,
     ReleaseBase, ReleaseChild, ReleaseDictionary, UseAfterRelease, StreamOp, ExpectEof,
     HandedOver, EndOfSequence, AtOp, Crash, ActRelease, ActTake, ActGetSchema, ActGetNext,
     ActGetLastError, FreeAct, InCallback, ReturnImport, ReturnReleaseBase, ReturnMisuse,
     ReturnStreamCall, ReturnGetNext, Returns, SweepStep, Judge, Report, ConsumerGone
<1>4. HeardInv'
  BY <1>1, <1>2, <1>3, HeardStep DEF ExactInv
<1>5. ShapeInv'
  BY <1>1, <1>2, ShapeStep DEF ExactInv
<1>6. GivenInv'
  BY GivenStep DEF ExactInv
<1> QED BY <1>4, <1>5, <1>6 DEF ExactInv

\* The verdict of a complete log names exactly what went wrong (callseq.c and
\* reconstruct.c note enough, and note it in time, for lifecycle.c to tell),
\* whatever the consumer does and wherever the sequence stops.
THEOREM VerdictsAreExact == Spec => []VerdictExact
<1>1. Init => ExactInv
  BY ShapeInit, GivenInit, HeardInit DEF ExactInv
<1>2. TypeInv /\ ExactInv => VerdictExact
  BY JudgedExactly DEF TypeInv, ExactInv
<1> QED BY <1>1, <1>2, TypeInvInit, TypeInvStep, ExactStep, PTL DEF Spec

-----------------------------------------------------------------------------
(* What the log shows follows the protocol. *)

\* Where a stream announces every schema it builds, the log has heard of a
\* schema that is live.
Announced ==
  stream =>
    /\ Mach(log)["schema"].state \in {"absent", "imported", "released"}
    /\ (\E s \in Schemas : IsLive(s)) => Mach(log)["schema"].state # "absent"

AnnouncedInv == pc # "gone" /\ ~dropped => Announced

LEMMA StagesAre == Stages = [obj \in Objects |-> Mach(log)[obj].state]
BY DEF Stages, Mach

\* One stage moves, or none.
LEMMA OneStage ==
  ASSUME NEW k \in Objects, Mach(log') \in [Objects -> Machine],
         \A obj \in Objects : obj # k => Mach(log')[obj].state = Mach(log)[obj].state
  PROVE  Stages' = [Stages EXCEPT ![k] = Mach(log')[k].state]
<1>1. Stages = [obj \in Objects |-> Mach(log)[obj].state]
  BY StagesAre
<1>2. Stages' = [obj \in Objects |-> Mach(log')[obj].state]
  BY DEF Stages, Mach
<1> QED BY <1>1, <1>2

LEMMA SameStages ==
  ASSUME \A obj \in Objects : Mach(log')[obj].state = Mach(log)[obj].state
  PROVE  Stages' = Stages
<1>1. Stages = [obj \in Objects |-> Mach(log)[obj].state]
  BY StagesAre
<1>2. Stages' = [obj \in Objects |-> Mach(log')[obj].state]
  BY DEF Stages, Mach
<1> QED BY <1>1, <1>2

\* A live structure is in a stage it can be released from, unless it is a
\* schema the stream has asked for another of.
LEMMA LiveStage ==
  ASSUME RecTypeOK, ShapeInv, HeardNow, Announced, NEW s \in Structs, IsLive(s)
  PROVE  \/ Mach(log)[s.obj].state \in {"exported", "imported"}
         \/ stream /\ s \in Schemas /\ Mach(log)[s.obj].state = "released"
<1>1. owner[s] \in {"harness", "consumer"}
  BY DEF RecTypeOK
<1>2. CASE s = Array \/ s = Stream
  BY <1>1, <1>2, RootsAre DEF HeardNow, Heard
<1>3. CASE s \in Schemas /\ stream
  BY <1>3, RootsAre DEF Announced
<1>4. CASE s \in Schemas /\ ~stream
  <2>1. OneSchema /\ s = Schema(1)
    BY <1>4 DEF ShapeInv, OneSchema, IsLive, Locations
  <2>2. Heard("schema") /\ ~stream
    BY <1>4, <2>1 DEF HeardNow
  <2> QED BY <1>1, <2>1, <2>2, RootsAre DEF Heard
<1> QED BY <1>2, <1>3, <1>4 DEF Structs

\* A release is the protocol's, with the batch inside it if there is one.
LEMMA ReleaseFollows ==
  ASSUME RecTypeOK, ShapeInv, HeardNow, Announced, ~dropped', SameCase,
         NEW s \in Structs, IsLive(s), NEW harness \in BOOLEAN,
         NEW before \in Seq(Event), Silent(before), Release(s, harness, before)
  PROVE  [Handoff!Next]_Stages /\ Announced'
<1> DEFINE k == s.obj
           inner == s = Stream /\ Undelivered
<1>1. Mach(log) \in [Objects -> Machine] /\ Heard("array") /\ k \in Objects
  BY StructsAre DEF HeardNow
<1>2. inner => owner[Array] = "harness" /\ Mach(log)["array"].state = "exported"
  BY <1>1, RootsAre DEF Heard, ShapeInv, Undelivered, IsLive, Locations
<1>3. /\ Mach(log') \in [Objects -> Machine]
      /\ Mach(log')[k].state = "released"
      /\ inner => Mach(log')["array"].state = "released"
      /\ \A obj \in Objects : obj # k /\ ~(inner /\ obj = "array") => Mach(log')[obj] = Mach(log)[obj]
  BY <1>1, <1>2, ReleaseTold
<1>4. \/ Mach(log)[k].state \in {"exported", "imported"}
      \/ stream /\ s \in Schemas /\ Mach(log)[k].state = "released"
  BY LiveStage
<1>5. [Handoff!Next]_Stages
  <2>1. CASE inner
    <3>1. k = "stream" /\ "array" \in Objects /\ "stream" \in Objects
      BY <2>1, RootsAre DEF Objects
    <3>2. Mach(log)["stream"].state \in {"exported", "imported"}
      BY <1>4, <2>1, <3>1, StructsAre
    <3>3. Stages' = [Stages EXCEPT !["stream"] = "released", !["array"] = "released"]
      <4>1. Stages = [obj \in Objects |-> Mach(log)[obj].state]
        BY StagesAre
      <4>2. Stages' = [obj \in Objects |-> Mach(log')[obj].state]
        BY DEF Stages, Mach
      <4> QED BY <1>3, <2>1, <3>1, <4>1, <4>2
    <3>4. Stages["stream"] \in {"exported", "imported"} /\ Stages["array"] = "exported"
      BY <1>2, <2>1, <3>1, <3>2, StagesAre
    <3> QED BY <3>3, <3>4 DEF Handoff!Next, Handoff!ReleaseWithBatch
  <2>2. CASE ~inner /\ Mach(log)[k].state \in {"exported", "imported"}
    <3>1. Stages' = [Stages EXCEPT ![k] = "released"]
      BY <1>1, <1>3, <2>2, OneStage
    <3>2. Stages[k] \in {"exported", "imported"}
      BY <1>1, <2>2, StagesAre
    <3> QED BY <1>1, <3>1, <3>2
            DEF Handoff!Next, Handoff!Release, Handoff!Goes, Handoff!Kind, Objects
  <2>3. CASE ~inner /\ Mach(log)[k].state = "released"
    BY <1>3, <2>3, SameStages
  <2> QED BY <1>4, <2>1, <2>2, <2>3
<1>6. Announced'
  <2> SUFFICES ASSUME stream
               PROVE  /\ Mach(log')["schema"].state \in {"absent", "imported", "released"}
                      /\ (\E x \in Schemas : IsLive(x)') => Mach(log')["schema"].state # "absent"
    BY DEF Announced, SameCase
  <2>1. \A x \in Schemas : IsLive(x)' => IsLive(x)
    BY StructsAre DEF Release, IsLive, Locations
  <2>2. CASE k = "schema"
    BY <1>3, <2>2
  <2>3. CASE k # "schema"
    BY <1>3, <2>1, <2>3 DEF Announced, Objects
  <2> QED BY <2>2, <2>3
<1> QED BY <1>5, <1>6

\* A step that moves no stage, and brings no schema to life.
LEMMA QuietFollows ==
  ASSUME Announced, SameCase, \A obj \in Objects : Mach(log')[obj].state = Mach(log)[obj].state,
         \A x \in Schemas : IsLive(x)' => IsLive(x)
  PROVE  [Handoff!Next]_Stages /\ Announced'
BY SameStages DEF Announced, SameCase, Objects

\* A step that moves one stage, not the schema's of a stream.
LEMMA StageFollows ==
  ASSUME Announced, SameCase, NEW k \in Objects, k = "schema" => ~stream,
         Mach(log') \in [Objects -> Machine],
         \A obj \in Objects : obj # k => Mach(log')[obj] = Mach(log)[obj],
         \/ Mach(log)[k].state = "exported" /\ Mach(log')[k].state = "imported"
         \/ Mach(log)[k].state = "imported" /\ Mach(log')[k].state = "exported",
         \A x \in Schemas : IsLive(x)' => IsLive(x)
  PROVE  [Handoff!Next]_Stages /\ Announced'
<1>1. Stages' = [Stages EXCEPT ![k] = Mach(log')[k].state]
  BY OneStage
<1>2. Stages[k] = Mach(log)[k].state
  BY StagesAre
<1>3. Handoff!HandOver(k) \/ Handoff!HandBack(k)
  BY <1>1, <1>2 DEF Handoff!HandOver, Handoff!HandBack, Handoff!Goes
<1>4. Announced'
  BY DEF Announced, SameCase, Objects
<1> QED BY <1>3, <1>4 DEF Handoff!Next, Handoff!Kind, Objects

\* The log knows what the case hands over, and what it may hand back.
LEMMA DueStage ==
  ASSUME RecTypeOK, ShapeInv, HeardNow, NEW kind \in Objects,
         Due(kind) \/ place[Root[kind]] \in {"home", "exec"}, IsLive(Root[kind])
  PROVE  /\ kind = "schema" => ~stream
         /\ owner[Root[kind]] = "harness" => Mach(log)[kind].state = "exported"
         /\ owner[Root[kind]] = "consumer" => Mach(log)[kind].state = "imported"
<1>1. kind = "schema" => ~stream
  BY RootsAre, StructsAre DEF ShapeInv, Due
<1>2. kind = "schema" => OneSchema
  BY <1>1 DEF ShapeInv, OneSchema
<1> QED BY <1>1, <1>2 DEF HeardNow, Heard, Objects

LEMMA FollowsStep ==
  ASSUME RecTypeOK, at \in {"home", "exec"}, ~MayRunOut, ShapeInv, HeardNow, Announced,
         RecStep, SameCase, ~dropped'
  PROVE  [Handoff!Next]_Stages /\ Announced'
<1>0. Mach(log) \in [Objects -> Machine] /\ at \in Places
  BY DEF HeardNow, Places, Locations
<1>1. CASE \/ UNCHANGED recVars \/ FreeBacking \/ \E s \in Structs : Take(s)
           \/ /\ place' = [s \in Structs |-> IF place[s] = "own" THEN "dead" ELSE place[s]]
              /\ log' = log
  <2>1. log' = log /\ \A x \in Schemas : IsLive(x)' => IsLive(x)
    BY <1>1, StructsAre DEF recVars, FreeBacking, Take, RecTypeOK, IsLive, Locations
  <2> QED BY <2>1, QuietFollows
<1>2. ASSUME NEW s \in Structs, IsLive(s), Release(s, FALSE, <<>>)
      PROVE  [Handoff!Next]_Stages /\ Announced'
  <2> DEFINE before == <<>>
             h == FALSE
  <2>2. before \in Seq(Event) /\ Silent(before) /\ h \in BOOLEAN /\ Release(s, h, before)
    BY <1>2, QuietNone
  <2> HIDE DEF before, h
  <2> QED BY <1>2, <2>2, ReleaseFollows
<1>3. ASSUME NEW s \in Structs, IsLive(s), Release(s, TRUE, <<Note("harness", s, place[s])>>)
      PROVE  [Handoff!Next]_Stages /\ Announced'
  <2> DEFINE before == <<Note("harness", s, place[s])>>
             h == TRUE
  <2>2. before \in Seq(Event) /\ Silent(before)
    <3>1. BASE \in Nodes /\ place[s] \in Places
      BY DEF Nodes, RecTypeOK
    <3> QED BY <3>1, QuietNotes DEF Note
  <2>3. h \in BOOLEAN /\ Release(s, h, before)
    BY <1>3
  <2> HIDE DEF before, h
  <2> QED BY <1>3, <2>2, <2>3, ReleaseFollows
<1>4. ASSUME NEW k \in Kids, k \in kids, ReleaseKid(k) PROVE [Handoff!Next]_Stages /\ Announced'
  <2>1. Mach(log') = Mach(log)
    BY <1>0, <1>4, KidTold
  <2>2. place' = place
    BY <1>4 DEF ReleaseKid
  <2> QED BY <2>1, <2>2, QuietFollows DEF IsLive
<1>5. ASSUME NEW kind \in Objects, Due(kind), Intact(kind), NoteImport(Root[kind])
      PROVE  [Handoff!Next]_Stages /\ Announced'
  <2>1. Mach(log)[kind].state = "exported" /\ (kind = "schema" => ~stream)
    BY <1>5, DueStage DEF Intact
  <2>2. Root[kind] \in Structs /\ Root[kind].obj = kind
    BY RootsAre
  <2>3. /\ Mach(log') \in [Objects -> Machine]
        /\ \A obj \in Objects : obj # kind => Mach(log')[obj] = Mach(log)[obj]
        /\ Mach(log')[kind].state = "imported"
    <3> DEFINE s == Root[kind]
    <3>1. s \in Structs /\ s.obj = kind /\ NoteImport(s)
      BY <1>5, <2>2
    <3> HIDE DEF s
    <3> QED BY <1>0, <2>1, <3>1, ImportTold
  <2>4. place' = place
    BY <1>5 DEF NoteImport
  <2> QED BY <2>1, <2>3, <2>4, StageFollows DEF IsLive
<1>6. ASSUME NEW kind \in Objects, place[Root[kind]] = at, NoteReturned(Root[kind], at)
      PROVE  [Handoff!Next]_Stages /\ Announced'
  <2>1. IsLive(Root[kind]) /\ Root[kind] \in Structs /\ Root[kind].obj = kind
    BY <1>6, RootsAre DEF IsLive, Locations
  <2>2. /\ kind = "schema" => ~stream
        /\ Mach(log)[kind].state \in {"imported", "exported"}
    BY <1>6, <2>1, DueStage DEF RecTypeOK
  <2>3. /\ Mach(log') \in [Objects -> Machine]
        /\ \A obj \in Objects : obj # kind => Mach(log')[obj] = Mach(log)[obj]
        /\ Mach(log')[kind].state = "exported"
    <3> DEFINE s == Root[kind]
    <3>1. s \in Structs /\ s.obj = kind /\ NoteReturned(s, at) /\ place[s] = at
      BY <1>6, <2>1
    <3> HIDE DEF s
    <3> QED BY <1>0, <2>2, <3>1, ReturnedTold
  <2>4. place' = place
    BY <1>6 DEF NoteReturned, recVars
  <2>5. CASE Mach(log)[kind].state = "imported"
    BY <2>2, <2>3, <2>4, <2>5, StageFollows DEF IsLive
  <2>6. CASE Mach(log)[kind].state = "exported"
    BY <2>3, <2>4, <2>6, QuietFollows DEF IsLive
  <2> QED BY <2>2, <2>5, <2>6
<1>7. CASE ~stream /\ Move({Schema(1)} \cup (IF array THEN {Array} ELSE {}), "exec")
  <2>1. \A kind \in Objects : Mach(log')[kind].state = Mach(log)[kind].state
    BY <1>0, <1>7, MoveTold
  <2>2. \A x \in Schemas : IsLive(x)' => IsLive(x)
    BY <1>7, StructsAre DEF Move, IsLive
  <2> QED BY <2>1, <2>2, QuietFollows
<1>8. ASSUME stream, NEW k \in 1..MaxSchemas, GetSchema(k)
      PROVE  [Handoff!Next]_Stages /\ Announced'
  <2>1. /\ Mach(log') \in [Objects -> Machine] /\ "schema" \in Objects
        /\ \A obj \in Objects : obj # "schema" => Mach(log')[obj] = Mach(log)[obj]
        /\ Mach(log')["schema"].state = "imported"
    BY <1>0, <1>8, GetSchemaTold DEF Objects
  <2>0. Mach(log)["schema"].state \in {"absent", "imported", "released"}
    BY <1>8 DEF Announced
  <2>2. Announced'
    BY <2>1 DEF Announced
  <2>3. CASE Mach(log)["schema"].state = "imported"
    BY <2>1, <2>2, <2>3, SameStages
  <2>4. CASE Mach(log)["schema"].state \in {"absent", "released"}
    <3>1. Stages' = [Stages EXCEPT !["schema"] = "imported"]
      BY <2>1, OneStage
    <3>2. Stages["schema"] \in {"absent", "released"}
      BY <2>1, <2>4, StagesAre
    <3> QED BY <2>2, <3>1, <3>2 DEF Handoff!Next, Handoff!Deliver, Handoff!Goes
  <2> QED BY <2>0, <2>3, <2>4
<1>9. CASE stream /\ GetNext
  <2>1. Undelivered => Mach(log)["array"].state = "exported"
    <3>1. Heard("array") /\ (Undelivered => IsLive(Array) /\ owner[Array] = "harness")
      BY <1>9 DEF HeardNow, ShapeInv, Undelivered, IsLive, Locations
    <3> QED BY <1>9, <3>1, RootsAre DEF Heard
  <2>2. /\ Mach(log') \in [Objects -> Machine]
        /\ \A obj \in Objects : obj # "array" => Mach(log')[obj] = Mach(log)[obj]
        /\ Undelivered => Mach(log')["array"].state = "imported"
        /\ ~Undelivered => Mach(log')["array"] = Mach(log)["array"]
    BY <1>0, <1>9, <2>1, GetNextTold
  <2>3. \A x \in Schemas : IsLive(x)' => IsLive(x)
    BY <1>9, StructsAre DEF GetNext, IsLive, RecTypeOK
  <2> QED BY <2>1, <2>2, <2>3, QuietFollows, StageFollows DEF Objects
<1> QED BY <1>1, <1>2, <1>3, <1>4, <1>5, <1>6, <1>7, <1>8, <1>9 DEF RecStep, GetSchemaRunsOut

LEMMA GoneForGood ==
  ASSUME pc = "gone", [Next]_vars
  PROVE  UNCHANGED vars
BY DEF Next, Op, Callback, Return, Finish, Stopped, Nop, PartOfStream, MoveStruct, Import,
   ReleaseBase, ReleaseChild, ReleaseDictionary, UseAfterRelease, StreamOp, ExpectEof,
   HandedOver, EndOfSequence, AtOp, Crash, ActRelease, ActTake, ActGetSchema, ActGetNext,
   ActGetLastError, FreeAct, InCallback, ReturnImport, ReturnReleaseBase, ReturnMisuse,
   ReturnStreamCall, ReturnGetNext, Returns, SweepStep, Judge, Report, ConsumerGone

LEMMA NotForgotten ==
  ASSUME TypeInv, ExactInv, [Next]_vars, ~dropped'
  PROVE  ~dropped
<1>1. RecStep
  BY EveryStepRec DEF ExactInv
<1> QED BY <1>1, Forgotten
        DEF RecStep, recVars, FreeBacking, Release, ReleaseKid, NoteImport, NoteReturned, Move,
            Take, GetSchema, GetSchemaRunsOut, GetNext

LEMMA FollowsNext ==
  ASSUME ~MayRunOut, TypeInv, ExactInv, AnnouncedInv, [Next]_vars
  PROVE  AnnouncedInv' /\ (~dropped' => [Handoff!Next]_Stages)
<1>1. RecStep /\ SameCase
  BY EveryStepRec DEF ExactInv
<1>2. CASE pc = "gone"
  <2>1. UNCHANGED vars
    BY <1>2, GoneForGood
  <2>2. pc' = pc /\ log' = log
    BY <2>1 DEF vars, recVars
  <2> QED BY <1>2, <2>2, SameStages DEF AnnouncedInv
<1>3. CASE pc # "gone"
  <2> SUFFICES ASSUME ~dropped' PROVE [Handoff!Next]_Stages /\ Announced'
    BY DEF AnnouncedInv
  <2>1. HeardNow /\ Announced
    BY <1>3, NotForgotten DEF ExactInv, HeardInv, AnnouncedInv
  <2> QED BY <1>1, <2>1, FollowsStep DEF TypeInv, ExeTypeOK, ExactInv
<1> QED BY <1>2, <1>3

LEMMA FollowsInit ==
  ASSUME Init
  PROVE  Handoff!Init /\ AnnouncedInv
<1>1. HeardInv /\ ShapeInv /\ RecTypeOK
  BY HeardInit, ShapeInit, TypeInvInit DEF TypeInv
<1>2. PICK nodes \in KidSets : Built(stream, array, nodes)
  BY DEF Init
<1>3. /\ \A s \in Structs : place[s] \in {"home", "unborn"} /\ owner[s] = "harness"
      /\ stream => \A s \in Schemas : place[s] = "unborn"
      /\ ~stream => \A s \in Schemas : s # Schema(1) => place[s] = "unborn"
      /\ pc # "gone" /\ ~dropped
  BY <1>2, StructsAre DEF Init, Built
<1>4. HeardNow /\ OneSchema
  BY <1>1, <1>3 DEF HeardInv, OneSchema
<1>5. ASSUME NEW kind \in Objects
      PROVE  /\ Mach(log)[kind].state \in {"absent", "exported"}
             /\ stream /\ kind = "schema" => Mach(log)[kind].state = "absent"
  <2>1. Heard(kind)
    BY <1>4 DEF HeardNow, Objects
  <2>2. Root[kind] \in Structs
    BY RootsAre
  <2> QED BY <1>3, <2>1, <2>2, RootsAre, StructsAre DEF Heard, IsLive, Locations
<1>6. Handoff!Init
  BY <1>5, StagesAre DEF Handoff!Init, Handoff!Kind, Objects
<1>7. AnnouncedInv
  BY <1>3, <1>5 DEF AnnouncedInv, Announced, IsLive, Locations, Objects
<1> QED BY <1>6, <1>7

\* What a log that lost nothing shows is the ownership protocol of the C Data
\* Interface, whatever the consumer does (reconstruct.c and callseq.c between
\* them): no structure is handed over twice, back or released out of turn, where
\* no schema is left behind unannounced.
THEOREM LogsFollowProtocol ==
  ASSUME ~MayRunOut
  PROVE  Spec /\ []~dropped => FollowsProtocol
<1>1. Init => TypeInv /\ ExactInv /\ AnnouncedInv /\ Handoff!Init
  BY TypeInvInit, ShapeInit, GivenInit, HeardInit, FollowsInit DEF ExactInv
<1>2. TypeInv /\ ExactInv /\ AnnouncedInv /\ [Next]_vars
        => TypeInv' /\ ExactInv' /\ AnnouncedInv' /\ (~dropped' => [Handoff!Next]_Stages)
  BY TypeInvStep, ExactStep, FollowsNext
<1> QED BY <1>1, <1>2, PTL DEF Spec, FollowsProtocol, Handoff!Spec

=============================================================================
