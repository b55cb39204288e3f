------------------------------- MODULE Callseq --------------------------------
(***************************************************************************)
(* One case in a worker: abi_callseq_run() drives a consumer through the   *)
(* case's call sequence (libabi/src/callseq.c), the harness cleans up, the *)
(* log is judged, the result is reported and the reconstruction is freed   *)
(* (abi_worker_run_case() in adapters/common/worker.c).                    *)
(*                                                                         *)
(* Everything runs in one thread, so control is a program counter; what is *)
(* open is which sequence the case holds, what the consumer does with each *)
(* callback, and which of the library calls under it fail.                 *)
(***************************************************************************)
EXTENDS Consumers

CONSTANTS
  MaxOps,     \* bound: ops in a sequence
  KidSets     \* the sets of releasable nodes a case's array may have

ASSUME OpsAssumption == MaxOps \in Nat \ {0}
ASSUME KidsAssumption == KidSets \subseteq SUBSET Kids

VARIABLES
  stream,     \* whether the case is a stream case
  array,      \* whether it has an array
  dict,       \* whether the array was built with a dictionary
  pc, cb,     \* where the worker is, and the callback it is in
  executed,   \* ops completed
  at,         \* the structures the executor's own pointers lead to
  handed,     \* Exec.schema_imported, array_imported, stream_imported
  gotNext, lastEof,
  outcome,
  sweep,      \* cleanup steps done
  asked       \* history: RELEASE_BASE ran after the last hand-over

exeVars == <<stream, array, dict, executed, at, handed, gotNext, lastEof,
             outcome, sweep, asked>>
vars == <<recVars, conVars, exeVars, pc, cb>>

Outcomes == {"accepted", "rejected", "unsupported", "invalid"}

StreamOps == {"STREAM_GET_SCHEMA", "STREAM_GET_NEXT", "STREAM_GET_LAST_ERROR",
              "EXPECT_EOF"}
Ops == StreamOps \cup {"NOP", "IMPORT_SCHEMA", "IMPORT_ARRAY", "RELEASE_BASE",
                       "RELEASE_CHILD", "RELEASE_DICTIONARY"}
Children == {1, 2}   \* RELEASE_CHILD's argument, counted from one

Idle == [name |-> "none", op |-> "NOP", acts |-> <<>>, refused |-> FALSE,
         eof |-> FALSE]

\* The case's root structures: what a hand-over of each kind is of.
Root == [schema |-> Schema(1), array |-> Array, stream |-> Stream]

-----------------------------------------------------------------------------
(* How an op ends *)

\* A stop that leaves the consumer holding what it was handed.
KeepsHold(o) ==
  /\ outcome' = o
  /\ pc' = "sweep" /\ cb' = Idle
  /\ UNCHANGED <<stream, array, dict, executed, at, handed, sweep, asked, conVars>>

\* The sequence ends here, and a consumer that had taken something is asked to
\* let go of it, which the sequence did not ask for.
LetGo(o) ==
  /\ outcome' = o
  /\ IF handed # {} /\ Offers("release_base")
     THEN /\ pc' = "callback"
          /\ asked' = TRUE
          /\ \E b \in Behaviours(BASE).release_base :
               /\ cb' = [Idle EXCEPT !.name = "release_base", !.acts = b.acts]
               /\ ptr' = b.ptr /\ parsed' = b.parsed
     ELSE pc' = "sweep" /\ cb' = Idle /\ UNCHANGED <<asked, ptr, parsed>>
  /\ UNCHANGED <<stream, array, dict, executed, at, handed, sweep, consumer>>

\* stop(), anywhere but in STREAM_GET_NEXT.
StopWith(o) == LetGo(o) /\ UNCHANGED <<gotNext, lastEof>>

\* The op is traced and the next one is up.
Completed ==
  /\ executed' = executed + 1
  /\ pc' = "op" /\ cb' = Idle

\* A callback begins: the executor's call, and the behaviour that answers it.
Enter(name, op, node) ==
  /\ pc' = "callback"
  /\ \E b \in Behaviours(node)[name] :
       /\ cb' = [name |-> name, op |-> op, acts |-> b.acts, refused |-> b.refused,
                 eof |-> FALSE]
       /\ ptr' = b.ptr /\ parsed' = b.parsed
  /\ UNCHANGED consumer

-----------------------------------------------------------------------------
(* The ops *)

AtOp == pc = "op" /\ executed < MaxOps

\* Nothing.  A bounded sequence does not end on one, so that a stream case has
\* room for its stream op.
Nop ==
  /\ AtOp /\ executed + 1 < MaxOps
  /\ Completed
  /\ UNCHANGED <<recVars, conVars, stream, array, dict, at, handed, gotNext,
                 lastEof, outcome, sweep, asked>>

\* A stream case hands over a stream, not its parts.
PartOfStream ==
  /\ AtOp /\ stream
  /\ StopWith("invalid")
  /\ UNCHANGED recVars

\* op_move(): both base structures to fresh storage of the executor's, unless
\* one was already handed over.
MoveStruct ==
  /\ AtOp /\ ~stream
  /\ IF handed # {}
     THEN StopWith("invalid") /\ UNCHANGED recVars
     ELSE /\ Move({Schema(1)} \cup (IF array THEN {Array} ELSE {}), "exec")
          /\ at' = "exec"
          /\ Completed
          /\ UNCHANGED <<conVars, stream, array, dict, handed, gotNext, lastEof,
                         outcome, sweep, asked>>

ImportName ==
  [schema |-> "import_schema", array |-> "import_array", stream |-> "import_stream"]

\* What op_import() refuses before anything is noted.
ImportRefused(kind) ==
  \/ ~Offers(ImportName[kind]) /\ StopWith("unsupported")
  \/ /\ Offers(ImportName[kind])
     /\ (kind = "array" /\ ~array) \/ kind \in handed
     /\ StopWith("invalid")

Importable(kind) ==
  Offers(ImportName[kind]) /\ (kind = "array" => array) /\ kind \notin handed

\* The hand-over noted only once the consumer has answered.
ImportNotedLate(kind, op) ==
  /\ AtOp /\ ~stream
  /\ \/ ImportRefused(kind) /\ UNCHANGED recVars
     \/ /\ Importable(kind)
        /\ owner' = [owner EXCEPT ![Root[kind]] = "consumer"]
        /\ givenAt' = [givenAt EXCEPT ![Root[kind]] = place[Root[kind]]]
        /\ UNCHANGED <<place, kids, buffers, log, dropped, sins>>
        /\ Enter(ImportName[kind], op, BASE)
        /\ UNCHANGED exeVars

\* op_import() up to the consumer's call: noted before it, because a consumer
\* may release inside its own import.
Import(kind, op) ==
  /\ AtOp /\ ~stream
  /\ \/ ImportRefused(kind) /\ UNCHANGED recVars
     \/ /\ Importable(kind)
        /\ NoteImport(Root[kind])
        /\ Enter(ImportName[kind], op, BASE)
        /\ UNCHANGED exeVars

ReleaseBase ==
  /\ AtOp
  /\ \/ ~Offers("release_base") /\ StopWith("unsupported")
     \/ Offers("release_base") /\ handed = {} /\ StopWith("invalid")
     \/ /\ Offers("release_base") /\ handed # {}
        /\ Enter("release_base", "RELEASE_BASE", BASE)
        /\ asked' = TRUE
        /\ UNCHANGED <<stream, array, dict, executed, at, handed, gotNext, lastEof,
                       outcome, sweep>>
  /\ UNCHANGED recVars

\* op_misuse().  The declared child count survives the array's release, and an
\* index it does not cover is refused.
ReleaseChild(i) ==
  /\ AtOp
  /\ \/ "array" \notin handed /\ StopWith("invalid")
     \/ "array" \in handed /\ ~Offers("release_child") /\ StopWith("unsupported")
     \/ /\ "array" \in handed /\ Offers("release_child")
        /\ \/ StopWith("invalid")
           \/ Enter("release_child", "RELEASE_CHILD", i) /\ UNCHANGED exeVars
  /\ UNCHANGED recVars

\* The dictionary pointer does not survive it, and a case may have none.
ReleaseDictionary ==
  /\ AtOp
  /\ \/ "array" \notin handed /\ StopWith("invalid")
     \/ "array" \in handed /\ ~Offers("release_dictionary") /\ StopWith("unsupported")
     \/ /\ "array" \in handed /\ Offers("release_dictionary")
        /\ IF dict /\ IsLive(Array)
           THEN Enter("release_dictionary", "RELEASE_DICTIONARY", DICT) /\ UNCHANGED exeVars
           ELSE StopWith("invalid")
  /\ UNCHANGED recVars

\* Refused by name: the build does not define ABI_ENABLE_USE_AFTER_RELEASE.
UseAfterRelease ==
  /\ AtOp
  /\ StopWith("unsupported")
  /\ UNCHANGED recVars

CallbackOf ==
  [STREAM_GET_SCHEMA |-> "stream_get_schema", STREAM_GET_NEXT |-> "stream_get_next",
   STREAM_GET_LAST_ERROR |-> "stream_get_last_error"]

\* The schemas a stream is asked for are bounded; arrow-cpp asks for its one
\* while it takes the stream.
Room == \E k \in 1..MaxSchemas : Unborn(k)

\* op_stream() once the stream is the consumer's.
StreamCall(op) ==
  /\ IF Offers(CallbackOf[op])
     THEN Enter(CallbackOf[op], op, BASE) /\ UNCHANGED exeVars
     ELSE StopWith("unsupported")
  /\ UNCHANGED recVars

\* A stream op that never hands the stream over.
StreamOpUnhanded(op) == AtOp /\ stream /\ StreamCall(op)

\* The first stream op hands the stream over (stream_handoff()).
StreamOp(op) ==
  /\ AtOp /\ stream
  /\ op = "STREAM_GET_SCHEMA" => Room \/ consumer = "arrow_cpp"
  /\ \/ "stream" \in handed /\ StreamCall(op)
     \/ /\ "stream" \notin handed /\ ~Offers("import_stream")
        /\ StopWith("unsupported") /\ UNCHANGED recVars
     \/ /\ "stream" \notin handed /\ Offers("import_stream")
        /\ NoteImport(Stream)
        /\ Enter("import_stream", op, BASE)
        /\ UNCHANGED exeVars

HandedOver ==
  /\ pc = "handed"
  /\ StreamCall(cb.op)

ExpectEof ==
  /\ AtOp /\ stream
  /\ IF gotNext /\ lastEof
     THEN /\ Completed
          /\ UNCHANGED <<conVars, stream, array, dict, at, handed, gotNext,
                         lastEof, outcome, sweep, asked>>
     ELSE StopWith("invalid")
  /\ UNCHANGED recVars

\* A case is a stream case because one of its ops is a stream op.  One without
\* ops runs the default path, which is a sequence like any other.
EndOfSequence ==
  /\ pc = "op" /\ executed > 0
  /\ stream => "stream" \in handed
  /\ pc' = "sweep"
  /\ UNCHANGED <<recVars, conVars, exeVars, cb>>

-----------------------------------------------------------------------------
(* Inside a callback *)

InCallback == pc = "callback" /\ cb.acts # <<>>
Now == Head(cb.acts)
Acted == cb' = [cb EXCEPT !.acts = Tail(@)]

\* A released array has no children to look among, a released stream no
\* callbacks, and a consumer that was given neither no pointer to it: all are
\* reads through NULL.
Crashes ==
  \/ Now.do = "fault"
  \/ /\ Now.do \in {"get_schema", "get_next", "get_last_error"}
     /\ ~IsLive(Stream) \/ ("stream" \notin ptr /\ cb.name # "import_stream")
  \/ Now.node # BASE /\ "array" \notin ptr
  \/ Now.node \in Children /\ ~IsLive(Array)

Crash ==
  /\ InCallback /\ Crashes
  /\ pc' = "crashed"
  /\ UNCHANGED <<recVars, conVars, exeVars, cb>>

\* A release checked for, as every consumer does.
ActRelease ==
  /\ InCallback /\ ~Crashes /\ Now.do = "release"
  /\ \/ Now.node # BASE /\ ReleaseKid(Now.node)
     \/ Now.node = BASE /\ IsLive(Now.s) /\ Release(Now.s, FALSE, <<>>)
     \/ Now.node = BASE /\ ~IsLive(Now.s) /\ UNCHANGED recVars
  /\ Acted
  /\ UNCHANGED <<conVars, exeVars, pc>>

ActTake ==
  /\ InCallback /\ Now.do = "take"
  /\ Take(Now.s)
  /\ Acted
  /\ UNCHANGED <<conVars, exeVars, pc>>

ActGetSchema ==
  /\ InCallback /\ ~Crashes /\ Now.do = "get_schema"
  /\ \E k \in 1..MaxSchemas :
       /\ NextSchema(k)
       /\ \/ GetSchema(k) /\ Acted
          \/ /\ GetSchemaRunsOut(k)   \* arrow-cpp drops the stream it was importing
             /\ cb' = [cb EXCEPT !.refused = TRUE,
                         !.acts = IF cb.name = "import_stream" THEN <<Rel(Stream)>> ELSE <<>>]
  /\ UNCHANGED <<conVars, exeVars, pc>>

\* The consumer reads EOF off the array it was given: a released one.
ActGetNext ==
  /\ InCallback /\ ~Crashes /\ Now.do = "get_next"
  /\ GetNext
  /\ cb' = [cb EXCEPT !.acts = Tail(@), !.eof = ~Undelivered]
  /\ UNCHANGED <<conVars, exeVars, pc>>

ActGetLastError ==
  /\ InCallback /\ ~Crashes /\ Now.do = "get_last_error"
  /\ Acted
  /\ UNCHANGED <<recVars, conVars, exeVars, pc>>

\* A free consumer, in any callback, with anything it holds.
FreeAct ==
  /\ pc = "callback" /\ consumer \in Free
  /\ \E s \in Structs :
       \/ Held(s) /\ Release(s, FALSE, <<>>)
       \/ consumer = "mover" /\ Held(s) /\ place[s] # "own" /\ Take(s)
  /\ UNCHANGED <<conVars, exeVars, pc, cb>>

-----------------------------------------------------------------------------
(* Back from a callback *)

Returns(name) == pc = "callback" /\ cb.acts = <<>> /\ cb.name = name

\* An import noted after the consumer's answer.
ReturnImportNoted(kind) ==
  /\ Returns(ImportName[kind])
  /\ IF cb.refused
     THEN NoteReturned(Root[kind], at) /\ StopWith("rejected")
     ELSE /\ handed' = handed \cup {kind}
          /\ asked' = FALSE
          /\ IF kind = "stream"
             THEN pc' = "handed" /\ UNCHANGED <<executed, cb>>
             ELSE Completed
          /\ NoteImport(Root[kind])
          /\ UNCHANGED <<conVars, stream, array, dict, at, gotNext, lastEof,
                         outcome, sweep>>

\* The rest of op_import() and stream_handoff(): accepted, or refused, in which
\* case a structure left live where it was handed over has come back.
ReturnImport(kind) ==
  /\ Returns(ImportName[kind])
  /\ IF cb.refused
     THEN NoteReturned(Root[kind], at) /\ StopWith("rejected")
     ELSE /\ handed' = handed \cup {kind}
          /\ asked' = FALSE
          /\ IF kind = "stream"
             THEN pc' = "handed" /\ UNCHANGED <<executed, cb>>
             ELSE Completed
          /\ UNCHANGED <<recVars, conVars, stream, array, dict, at, gotNext, lastEof,
                         outcome, sweep>>

\* A release of the base ends its op, or the sequence that stopped early.
ReturnReleaseBase ==
  /\ Returns("release_base")
  /\ IF outcome = "accepted" THEN Completed
     ELSE pc' = "sweep" /\ cb' = Idle /\ UNCHANGED executed
  /\ UNCHANGED <<recVars, conVars, stream, array, dict, at, handed, gotNext,
                 lastEof, outcome, sweep, asked>>

ReturnMisuse ==
  /\ Returns("release_child") \/ Returns("release_dictionary")
  /\ Completed
  /\ UNCHANGED <<recVars, conVars, stream, array, dict, at, handed, gotNext,
                 lastEof, outcome, sweep, asked>>

\* What the stream handed over is the consumer's to release from here.
ReturnStreamCall ==
  /\ Returns("stream_get_schema") \/ Returns("stream_get_last_error")
  /\ IF cb.refused THEN StopWith("rejected")
     ELSE /\ Completed
          /\ asked' = FALSE
          /\ UNCHANGED <<conVars, stream, array, dict, at, handed, gotNext, lastEof,
                         outcome, sweep>>
  /\ UNCHANGED recVars

\* The answer is recorded whether or not the batch is refused.
ReturnGetNext ==
  /\ Returns("stream_get_next")
  /\ gotNext' = TRUE
  /\ lastEof' = cb.eof
  /\ IF cb.refused THEN LetGo("rejected")
     ELSE /\ Completed
          /\ asked' = FALSE
          /\ UNCHANGED <<conVars, stream, array, dict, at, handed, outcome, sweep>>
  /\ UNCHANGED recVars

-----------------------------------------------------------------------------
(* After the sequence *)

\* A cleanup that ends with the reconstruction's own addresses only.
SweepHomeOnly ==
  <<[s |-> Stream, at |-> "home"], [s |-> Array, at |-> "home"], [s |-> Schema(1), at |-> "home"],
    [s |-> Stream, at |-> "home"], [s |-> Schema(1), at |-> "home"],
    [s |-> Array, at |-> "home"]>>

\* The executor's cleanup, through its own pointers and the stream first; then
\* abi_reconstruction_release_all(), at the reconstruction's addresses.
SweepSteps ==
  <<[s |-> Stream, at |-> "home"], [s |-> Array, at |-> at], [s |-> Schema(1), at |-> at],
    [s |-> Stream, at |-> "home"], [s |-> Schema(1), at |-> "home"],
    [s |-> Array, at |-> "home"]>>

SweepStep ==
  /\ pc = "sweep" /\ sweep < Len(SweepSteps)
  /\ HarnessRelease(SweepSteps[sweep + 1].s, SweepSteps[sweep + 1].at)
  /\ sweep' = sweep + 1
  /\ UNCHANGED <<conVars, stream, array, dict, pc, cb, executed, at, handed, gotNext,
                 lastEof, outcome, asked>>

\* The buffers go with it whoever still holds the array, and the log is judged.
Judge ==
  /\ pc = "sweep" /\ sweep = Len(SweepSteps)
  /\ FreeBacking
  /\ pc' = "judged"
  /\ UNCHANGED <<conVars, exeVars, cb>>

\* abi_lifecycle_verify(), of the log as it stands.
Verdict == Verify(log, Strict)

\* The result line, then abi_reconstruction_free().
Report ==
  /\ pc = "judged"
  /\ pc' = "freed"
  /\ UNCHANGED <<recVars, conVars, exeVars, cb>>

\* The worker's loop moves on and the consumer's own objects go.  arrow-cpp's
\* release what they still hold, through a reconstruction that is gone.
ConsumerGone ==
  /\ pc = "freed"
  /\ IF consumer = "arrow_cpp" /\ \E s \in Structs : place[s] = "own"
     THEN \/ pc' = "crashed" /\ UNCHANGED place
          \/ /\ pc' = "gone"
             /\ place' = [s \in Structs |-> IF place[s] = "own" THEN "dead" ELSE place[s]]
     ELSE pc' = "gone" /\ UNCHANGED place
  /\ UNCHANGED <<kids, buffers, log, dropped, owner, givenAt, sins, conVars, exeVars, cb>>

Stopped == pc \in {"gone", "crashed"} /\ UNCHANGED vars

-----------------------------------------------------------------------------

Init ==
  /\ stream \in BOOLEAN /\ array \in BOOLEAN
  /\ \E nodes \in KidSets :
       /\ Built(stream, array, nodes)
       /\ dict = (array /\ DICT \in nodes)
  /\ consumer \in Consumers
  /\ ptr = {} /\ parsed = FALSE
  /\ pc = "op" /\ cb = Idle /\ executed = 0
  /\ at = "home" /\ handed = {}
  /\ gotNext = FALSE /\ lastEof = FALSE
  /\ outcome = "accepted" /\ sweep = 0 /\ asked = FALSE

Op ==
  \/ Nop \/ PartOfStream \/ MoveStruct
  \/ Import("schema", "IMPORT_SCHEMA") \/ Import("array", "IMPORT_ARRAY")
  \/ ReleaseBase \/ ReleaseDictionary \/ UseAfterRelease
  \/ \E i \in Children : ReleaseChild(i)
  \/ \E op \in StreamOps \ {"EXPECT_EOF"} : StreamOp(op)
  \/ ExpectEof \/ HandedOver \/ EndOfSequence

Callback ==
  \/ Crash \/ ActRelease \/ ActTake \/ ActGetSchema \/ ActGetNext
  \/ ActGetLastError \/ FreeAct

Return ==
  \/ \E kind \in Objects : ReturnImport(kind)
  \/ ReturnReleaseBase \/ ReturnMisuse \/ ReturnStreamCall \/ ReturnGetNext

Finish == SweepStep \/ Judge \/ Report \/ ConsumerGone

Next == Op \/ Callback \/ Return \/ Finish \/ Stopped

Spec == Init /\ [][Next]_vars

-----------------------------------------------------------------------------
(* Properties *)

PCs == {"op", "callback", "handed", "sweep", "judged", "freed", "gone", "crashed"}

\* The type of every variable.
TypeOK ==
  /\ RecTypeOK
  /\ consumer \in Consumers /\ ptr \subseteq Objects /\ parsed \in BOOLEAN
  /\ stream \in BOOLEAN /\ array \in BOOLEAN /\ dict \in BOOLEAN
  /\ pc \in PCs
  /\ cb \in [name : Callbacks \cup {"none"}, op : Ops, acts : Seq(Act),
            refused : BOOLEAN, eof : BOOLEAN]
  /\ executed \in 0..MaxOps /\ at \in {"home", "exec"}
  /\ handed \subseteq Objects /\ outcome \in Outcomes
  /\ gotNext \in BOOLEAN /\ lastEof \in BOOLEAN /\ asked \in BOOLEAN
  /\ sweep \in 0..Len(SweepSteps)

Blamed == {<<f.rule, f.obj>> : f \in Verdict}

\* A schema get_schema() failed to build, armed at the consumer's address: the
\* log never heard of it.
Unannounced(s) == stream /\ s \in Schemas /\ owner[s] = "harness"

\* What a judge who watched the structures themselves would say.
Truth ==
  {sin \in sins : sin[1] = "released-at-stale-location" => Strict}
  \cup {<<"never-released", s.obj>> : s \in {x \in Live : ~Unannounced(x)}}

OneSchema == \A s, t \in Schemas : place[s] # "unborn" /\ place[t] # "unborn" => s = t

\* The log is enough: whatever the consumer did, inside its imports or out, and
\* wherever the sequence stopped, the verdict lifecycle.c draws from a complete
\* log names exactly what went wrong, for sequences that ask for one schema.
VerdictExact == pc = "judged" /\ ~dropped /\ OneSchema => Blamed = Truth

\* A shipped worker is never blamed, except for the child it was told to release,
\* if its sequence stopped early, or asked it to let go after the last thing it
\* was handed: callseq.c asks it itself when a sequence stops, for this reason.
InnocentNotBlamed ==
  pc = "judged" /\ ~dropped /\ consumer \in Shipped
      /\ (asked \/ outcome # "accepted")
    => \A blame \in Blamed : blame[1] = "child-released-by-consumer"

\* When the verdict is read, nothing is left where the harness could still
\* release it: a structure alive after the cleanup is in the consumer's storage.
SweepIsComplete ==
  pc \in {"judged", "freed", "gone"} => \A s \in Structs : place[s] \notin {"home", "exec"}

\* Until the cleanup ends, an array somebody may still read has its buffers.
BuffersOutliveArray ==
  pc \notin {"judged", "freed", "gone", "crashed"} /\ IsLive(Array) => buffers

\* A shipped consumer kills the worker only by using what it was given after it
\* released it, or, once the case is reported, by releasing what the verdict
\* already named.
CrashExplained ==
  pc = "crashed" /\ consumer \in Shipped /\ ~dropped
    => IF sweep = Len(SweepSteps)
       THEN \E blame \in Blamed : blame[1] = "never-released"
       ELSE LET s == IF cb.name \in {"release_child", "release_dictionary"}
                     THEN Array ELSE Stream
            IN  owner[s] = "consumer" /\ place[s] = "dead"

\* The stages the log says each kind of structure is in.
Stages == [obj \in Objects |-> MachineOf(log, obj)[Len(log)].state]

Handoff == INSTANCE Ownership WITH stage <- Stages

\* What a complete log shows is the ownership protocol of the C Data Interface.
FollowsProtocol == Handoff!Spec

\* lifecycle.h:91-94 asks for the log to be read after every owner is gone: when
\* it is judged, the consumer's objects hold nothing any more.
JudgedAfterOwners == pc = "judged" => \A s \in Structs : place[s] # "own"

\* callseq.c:388-389 leaves it to the state machine to tell the consumer's
\* failing from the harness's job: a shipped worker that was never asked to let
\* go is not said to have failed to.
NeverBlamedUnasked ==
  pc = "judged" /\ consumer \in Shipped /\ ~asked
    => \A blame \in Blamed : blame[1] # "not-released-by-consumer"

\* callseq.h:17-22 calls releasing a child or the dictionary safe to perform: no
\* sequence has the worker die of one.
MisuseIsSafe == pc = "crashed" => cb.name \notin {"release_child", "release_dictionary"}
=============================================================================
