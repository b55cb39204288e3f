------------------------------ MODULE PyWorker ------------------------------
(***************************************************************************)
(* One case in the Python worker: run_case() of adapters/dataprof/         *)
(* abi_worker.py over the case object and the capsules of abicase_py.c.    *)
(* The consumer (a Python package) does what it likes with what it is      *)
(* handed, in any order, and may keep references that nobody sees.         *)
(*                                                                         *)
(* A structure at "exec" is in a capsule if it has a live one, and else in *)
(* the storage move() gave it.                                             *)
(***************************************************************************)
EXTENDS Construct, DiffReport, FiniteSets

CONSTANTS Consumers,   \* "pyarrow", "dataprof"
          Scripts      \* the names of the call sequences a case may hold

VARIABLES
  consumer,
  phase,      \* where run_case() is
  ses,        \* its Session, and what the line will say
  call,       \* the call into the consumer that is running
  capsules,   \* structures whose capsule has not been destroyed
  counted,    \* capsules_outstanding
  refs,       \* references to the case object
  freed,      \* whether the case object is gone, and its reconstruction with it
  hidden,     \* what the consumer kept where dropping its objects does not reach
  line        \* the result line

pyVars == <<consumer, phase, ses, call, capsules, counted, refs, freed, hidden, line>>
vars == <<recVars, conVars, pyVars>>

StreamOps == {"STREAM_GET_SCHEMA", "STREAM_GET_NEXT", "STREAM_GET_LAST_ERROR", "EXPECT_EOF"}
Performed == {"NOP", "MOVE_STRUCT", "IMPORT_SCHEMA", "IMPORT_ARRAY", "RELEASE_BASE",
              "STREAM_GET_SCHEMA", "STREAM_GET_NEXT", "EXPECT_EOF"}
OpCodes == Performed \cup {"STREAM_GET_LAST_ERROR", "RELEASE_CHILD", "RELEASE_DICTIONARY",
                          "USE_AFTER_RELEASE"}
ASSUME ScriptsAssumption == \A script \in Scripts : script \in Seq(OpCodes)

Default == <<"IMPORT_SCHEMA", "IMPORT_ARRAY", "RELEASE_BASE">>
HandsBack == consumer = "pyarrow"

Idle == [op |-> "none", todo |-> <<>>, lost |-> {}, answered |-> "nothing"]

NewSession == [names |-> <<>>, done |-> 0, reader |-> FALSE, eof |-> FALSE,
               status |-> "accepted", panicked |-> FALSE, sent |-> FALSE,
               received |-> "none"]

NoLine == [status |-> "none"]

Init ==
  /\ ConstructInit
  /\ consumer \in Consumers
  /\ phase = "load" /\ ses = NewSession /\ call = Idle
  /\ capsules = {} /\ counted = 0 /\ refs = 0 /\ freed = FALSE /\ hidden = {}
  /\ line = NoLine

-----------------------------------------------------------------------------
(* Shorthands *)

Unmoved == UNCHANGED <<conVars, consumer, freed, line>>
Go(p) == phase' = p
Quiet == UNCHANGED <<capsules, counted, refs, hidden>>

\* What the harness can still hand over, from home or from moved storage.
AtHarness(s) == place[s] = "home" \/ (place[s] = "exec" /\ s \notin capsules)
InCapsule(s) == place[s] = "exec" /\ s \in capsules

\* What the consumer has, or has a capsule of.
Held == {s \in Structs : place[s] = "own"} \cup capsules

\* schema_taken or array_taken.
Taken == ~stream /\ \E s \in {Schema(1), Array} : givenAt[s] # "nowhere"

Names == ses.names
Name == Names[ses.done + 1]
Asks(names, ops) == \E i \in DOMAIN names : names[i] \in ops
ReadsStream == Asks(Names, StreamOps)

Advance == ses' = [ses EXCEPT !.done = @ + 1]

\* An exception, whoever raised it, ends the sequence: the line forgets what
\* came back, and what the consumer does not hide goes.
Raise(panicked) ==
  /\ ses' = [ses EXCEPT !.status = "rejected", !.panicked = panicked,
                        !.received = "none"]
  /\ Go("end") /\ call' = Idle

-----------------------------------------------------------------------------
(* Loading *)

\* The first load is inside a try, the second is not.
Load ==
  /\ phase \in {"load", "reload"} /\ outcome # "built"
  /\ IF outcome \in {"failed", "crashed"}
     THEN /\ Go(IF outcome = "failed" /\ phase = "load" THEN "reported" ELSE "dead")
          /\ line' = IF outcome = "failed" /\ phase = "load"
                     THEN [status |-> "error"] ELSE line
          /\ UNCHANGED <<recVars, conVars>>
     ELSE BuildStep /\ UNCHANGED <<phase, line>>
  /\ UNCHANGED <<consumer, ses, call, capsules, counted, refs, freed, hidden>>

\* What is handed over, digested whatever the case's class: where a case
\* declares buffers it does not have, the digest may read outside them.
DigestSent ==
  /\ phase = "load" /\ outcome = "built"
  /\ \/ \E sent \in BOOLEAN : /\ sent => HasArray
                              /\ ses' = [ses EXCEPT !.sent = sent]
                              /\ Go("names")
     \/ HasArray /\ Go("dead") /\ ses' = ses
  /\ refs' = 1
  /\ UNCHANGED <<recVars, call, capsules, counted, hidden>> /\ Unmoved

\* A slip: a schema no consumer can be given alone is not looked for.
RefusedAnyImport(names) ==
  \/ \E i \in DOMAIN names : names[i] \notin Performed
  \/ /\ consumer = "dataprof" /\ Asks(names, {"STREAM_GET_SCHEMA"})
     /\ ~Asks(names, {"EXPECT_EOF"})

\* refusal(): what this consumer cannot perform is refused before anything runs.
Refused(names) ==
  \/ \E i \in DOMAIN names : names[i] \notin Performed
  \/ Asks(names, {"IMPORT_SCHEMA"}) /\ ~Asks(names, {"IMPORT_ARRAY"})
  \/ /\ consumer = "dataprof" /\ Asks(names, {"STREAM_GET_SCHEMA"})
     /\ ~Asks(names, {"EXPECT_EOF"})

\* A stream case is run on its stream form, once the array form is released.
ReadScript ==
  /\ phase = "names"
  /\ \E script \in Scripts :
       LET names == IF script = <<>> THEN Default ELSE script
       IN  /\ ses' = [ses EXCEPT !.names = names,
                                 !.status = IF Refused(names) THEN "error" ELSE @]
           /\ Go(IF Asks(names, StreamOps) THEN "release first"
                 ELSE IF Refused(names) THEN "end" ELSE "ops")
  /\ UNCHANGED <<recVars, call>> /\ Quiet /\ Unmoved

-----------------------------------------------------------------------------
(* The case object *)

\* What release_everything() has still to release: moved storage, the array
\* first, and then, by abi_reconstruction_release_all(), stream, schema, array.
ToClean == {s \in {Array, Schema(1), Stream} : AtHarness(s)}
Turn(s) ==
  IF place[s] = "exec" THEN (IF s = Array THEN 1 ELSE 2)
  ELSE CASE s = Stream -> 3 [] s = Schema(1) -> 4 [] OTHER -> 5

Cleaned == ToClean = {}

CleanOne ==
  /\ ~Cleaned
  /\ LET s == CHOOSE x \in ToClean : \A y \in ToClean : Turn(x) <= Turn(y)
     IN  HarnessRelease(s, place[s])

ReleaseFirst ==
  /\ phase = "release first"
  /\ IF Cleaned
     THEN Go("reload") /\ FreeBacking /\ BuildStream
     ELSE CleanOne /\ UNCHANGED <<phase, conVars>>
  /\ UNCHANGED <<consumer, ses, call, freed, line>> /\ Quiet

\* Rebinding `case` drops the first object.
Reloaded ==
  /\ phase = "reload" /\ outcome = "built"
  /\ Go(IF ses.status = "error" THEN "end" ELSE "ops")
  /\ UNCHANGED <<recVars, ses, call>> /\ Quiet /\ Unmoved

\* A slip: a capsule does not count as an owner of the case object.
OwnersUncounted(n) == n

\* Py_INCREF(self), for a capsule.
Owners(n) == n + 1

\* A structure moved into a capsule and handed over, both logged.
Export(s) ==
  /\ Observe(<<Note("moved", s, "exec"), Note("imported", s, "exec")>>)
  /\ place' = [place EXCEPT ![s] = "exec"]
  /\ owner' = [owner EXCEPT ![s] = "consumer"]
  /\ givenAt' = [givenAt EXCEPT ![s] = "exec"]
  /\ UNCHANGED <<kids, buffers, sins>>
  /\ capsules' = capsules \cup {s} /\ counted' = counted + 1 /\ refs' = Owners(refs)
  /\ UNCHANGED hidden

\* The move alone, when the capsule is not to be.
MoveOut(s) ==
  /\ Observe(<<Note("moved", s, "exec")>>)
  /\ place' = [place EXCEPT ![s] = "exec"]
  /\ UNCHANGED <<kids, buffers, owner, givenAt, sins>>

\* A slip: only a capsule nobody consumed is taken off the count.
CountAfterUnconsumed(s) == IF InCapsule(s) THEN counted - 1 ELSE counted

CountAfter(s) == counted - 1

\* A capsule's destructor: releases what the consumer did not take.
Destroy(s) ==
  /\ IF InCapsule(s) THEN Release(s, FALSE, <<>>) ELSE UNCHANGED recVars
  /\ capsules' = capsules \ {s} /\ counted' = CountAfter(s)
  /\ refs' = refs - 1

-----------------------------------------------------------------------------
(* The call sequence *)

AtOp == phase = "ops" /\ ses.done < Len(Names)

Nothing ==
  /\ AtOp /\ Name \in {"NOP", "IMPORT_SCHEMA"}
  /\ Advance
  /\ UNCHANGED <<recVars, phase, call>> /\ Quiet /\ Unmoved

\* case.move(): refused once either structure has been taken, out of memory,
\* or done to what is there to move.
MoveStruct ==
  /\ AtOp /\ Name = "MOVE_STRUCT"
  /\ \/ ~Taken /\ Move({s \in {Schema(1), Array} : AtHarness(s)}, "exec")
        /\ Advance /\ UNCHANGED <<phase, call>>
     \/ (Taken \/ MayRunOut) /\ Raise(FALSE) /\ UNCHANGED recVars
  /\ Quiet /\ Unmoved

Enter(op, todo) ==
  /\ call' = [Idle EXCEPT !.op = op, !.todo = todo]
  /\ Go("call")
  /\ UNCHANGED <<recVars, ses>> /\ Quiet /\ Unmoved

ImportArray == AtOp /\ Name = "IMPORT_ARRAY" /\ Enter("import", <<Schema(1), Array>>)

\* open_stream(), which both stream steps start with.
OpenStream ==
  /\ AtOp /\ Name \in {"STREAM_GET_SCHEMA", "STREAM_GET_NEXT"} /\ ~ses.reader
  /\ Enter("open", <<Stream>>)

StreamOpened ==
  /\ AtOp /\ ses.reader
  /\ Name = "STREAM_GET_SCHEMA" \/ (Name = "STREAM_GET_NEXT" /\ consumer = "dataprof")
  /\ Advance
  /\ UNCHANGED <<recVars, phase, call>> /\ Quiet /\ Unmoved

\* next_batch(): the last batch goes before the next is asked for.
NextBatch ==
  /\ AtOp /\ Name = "STREAM_GET_NEXT" /\ ses.reader /\ consumer = "pyarrow"
  /\ IF place[Array] = "own" /\ Array \notin hidden
     THEN Release(Array, FALSE, <<>>) /\ UNCHANGED <<phase, ses, call>> /\ Quiet /\ Unmoved
     ELSE Enter("next", <<>>)

ExpectEof ==
  /\ AtOp /\ Name = "EXPECT_EOF"
  /\ IF ses.eof THEN Advance /\ UNCHANGED phase
     ELSE ses' = [ses EXCEPT !.status = "error"] /\ Go("end")
  /\ UNCHANGED <<recVars, call>> /\ Quiet /\ Unmoved

ReleaseBase ==
  /\ AtOp /\ Name = "RELEASE_BASE"
  /\ Go("drop")
  /\ UNCHANGED <<recVars, ses, call>> /\ Quiet /\ Unmoved

Ran ==
  /\ phase = "ops" /\ ses.done = Len(Names)
  /\ Go("end")
  /\ UNCHANGED <<recVars, ses, call>> /\ Quiet /\ Unmoved

-----------------------------------------------------------------------------
(* Inside the consumer *)

InCall == phase = "call"

\* __arrow_c_array__() or __arrow_c_stream__(): one capsule after the other.
Wrap ==
  /\ InCall /\ call.todo # <<>> /\ call.lost = {}
  /\ LET s == Head(call.todo)
     IN  \/ AtHarness(s) /\ Export(s) /\ call' = [call EXCEPT !.todo = Tail(@)]
            /\ UNCHANGED <<phase, ses>>
         \/ AtHarness(s) /\ MayRunOut /\ MoveOut(s)
            /\ call' = [call EXCEPT !.lost = {s}]
            /\ UNCHANGED <<phase, ses>> /\ Quiet
         \/ (~AtHarness(s) \/ MayRunOut) /\ Raise(FALSE)
            /\ UNCHANGED recVars /\ Quiet
  /\ Unmoved

\* PyCapsule_New() failed: what it was to hold goes back to the harness's hand.
Unwrap ==
  /\ InCall
  /\ \E s \in call.lost : HarnessRelease(s, place[s])
  /\ Raise(FALSE)
  /\ Quiet /\ Unmoved

Busy == InCall /\ call.todo = <<>>
Through(s) == place[s] = "own" \/ InCapsule(s)

Import == Busy /\ \E s \in capsules : InCapsule(s) /\ Take(s)
                                     /\ UNCHANGED <<phase, ses, call>> /\ Quiet /\ Unmoved

LetGo == Busy /\ \E s \in Structs : place[s] = "own" /\ Release(s, FALSE, <<>>)
                                   /\ UNCHANGED <<phase, ses, call>> /\ Quiet /\ Unmoved

LetChildGo == Busy /\ \E k \in kids : Through(Array) /\ ReleaseKid(k)
                                     /\ UNCHANGED <<phase, ses, call>> /\ Quiet /\ Unmoved

Discard == Busy /\ \E s \in capsules : Destroy(s)
                                      /\ UNCHANGED <<phase, ses, call, hidden>> /\ Unmoved

AskSchema ==
  /\ Busy /\ call.op = "open" /\ Through(Stream) /\ Unborn(1)
  /\ GetSchema(1) \/ GetSchemaRunsOut(1)
  /\ UNCHANGED <<phase, ses, call>> /\ Quiet /\ Unmoved

\* dataprof reads to the end as it opens; pyarrow reads one batch a call.
AskNext ==
  /\ Busy /\ Through(Stream)
  /\ \/ call.op = "next" /\ call.answered = "nothing"
     \/ call.op = "open" /\ consumer = "dataprof" /\ call.answered # "eof"
  /\ GetNext
  /\ call' = [call EXCEPT !.answered = IF Undelivered THEN "batch" ELSE "eof"]
  /\ UNCHANGED <<phase, ses>> /\ Quiet /\ Unmoved

\* A call returns having done what it is for.
Finished ==
  CASE call.op = "import" -> TRUE
    [] call.op = "open" -> IF consumer = "pyarrow" THEN ~Unborn(1) ELSE call.answered = "eof"
    [] call.op = "next" -> call.answered # "nothing"

\* What the digest of what pyarrow gives back says; only of the first batch.
Received ==
  IF consumer = "pyarrow" /\ (call.op = "import" \/ call.answered = "batch")
  THEN {"same", "relaid", "changed", "error"} ELSE {ses.received}

Return ==
  /\ Busy /\ Finished
  /\ \E r \in Received :
       ses' = [ses EXCEPT
         !.reader = @ \/ call.op = "open",
         !.eof = IF call.op = "import" THEN @
                 ELSE IF consumer = "dataprof" THEN TRUE
                 ELSE IF call.op = "next" THEN call.answered = "eof" ELSE @,
         !.done = IF call.op = "open" THEN @ ELSE @ + 1,
         !.received = r]
  /\ hidden' \in SUBSET Held
  /\ Go("ops") /\ call' = Idle
  /\ UNCHANGED <<recVars, capsules, counted, refs>> /\ Unmoved

\* An exception or a panic, at any time; an injected one comes first.
Throw ==
  /\ InCall /\ call.lost = {}
  /\ \E panicked \in BOOLEAN : Raise(panicked)
  /\ hidden' \in SUBSET Held
  /\ UNCHANGED <<recVars, capsules, counted, refs>> /\ Unmoved

Crash ==
  /\ InCall /\ Go("dead")
  /\ UNCHANGED <<recVars, ses, call>> /\ Quiet /\ Unmoved

-----------------------------------------------------------------------------
(* Letting go, judging, reporting *)

\* Session.drop(): every object of the consumer's that the session reaches.
Drop ==
  /\ phase \in {"drop", "end"} /\ Held \ hidden # {}
  /\ \E s \in Held \ hidden :
       IF s \in capsules THEN Destroy(s)
       ELSE Release(s, FALSE, <<>>) /\ UNCHANGED <<capsules, counted, refs>>
  /\ UNCHANGED <<phase, ses, call, hidden>> /\ Unmoved

Dropped ==
  /\ phase \in {"drop", "end"} /\ Held \subseteq hidden
  /\ IF phase = "drop"
     THEN Go("ops") /\ ses' = [ses EXCEPT !.done = @ + 1, !.reader = FALSE]
     ELSE Go("clean") /\ ses' = [ses EXCEPT !.reader = FALSE]
  /\ UNCHANGED <<recVars, call>> /\ Quiet /\ Unmoved

Clean ==
  /\ phase = "clean"
  /\ IF Cleaned THEN FreeBacking /\ Go("judge") ELSE CleanOne /\ UNCHANGED phase
  /\ UNCHANGED <<ses, call>> /\ Quiet /\ Unmoved

Outstanding == buffers \/ \E s \in Structs \ {Stream} : IsLive(s)

Judge ==
  /\ phase = "judge"
  /\ line' = [status |-> ses.status, panicked |-> ses.panicked,
              violations |-> <<"child-released-by-consumer", "array">> \in sins,
              incomplete |-> dropped, broken |-> Verify(log, FALSE) # {},
              outstanding |-> Outstanding, capsules |-> counted # 0,
              sent |-> ses.sent, received |-> ses.received]
  /\ Go("judged")
  /\ UNCHANGED <<recVars, conVars, consumer, ses, call, freed>> /\ Quiet

\* The last reference gone, the object goes, and its reconstruction with it.
Unref(n) == refs' = n /\ freed' = (n = 0)

\* `del session, case`, and run_case() returns.
Delete ==
  /\ phase = "judged"
  /\ Unref(refs - 1)
  /\ Go("reported")
  /\ UNCHANGED <<recVars, conVars, consumer, ses, call, capsules, counted, hidden, line>>

\* What the consumer hid comes out while another case runs.  A release after
\* the reconstruction is gone has nothing left to run on.
Late ==
  /\ phase = "reported"
  /\ \E s \in hidden :
       \/ /\ s \in capsules
          /\ IF InCapsule(s) THEN Release(s, FALSE, <<>>) ELSE UNCHANGED recVars
          /\ capsules' = capsules \ {s} /\ counted' = CountAfter(s)
          /\ Unref(refs - 1) /\ UNCHANGED phase
       \/ /\ place[s] = "own"
          /\ IF freed THEN Go("dead") /\ UNCHANGED recVars
             ELSE Release(s, FALSE, <<>>) /\ UNCHANGED phase
          /\ UNCHANGED <<capsules, counted, refs, freed>>
  /\ UNCHANGED <<conVars, consumer, ses, call, hidden, line>>

Next ==
  \/ Load \/ DigestSent \/ ReadScript \/ ReleaseFirst \/ Reloaded
  \/ Nothing \/ MoveStruct \/ ImportArray \/ OpenStream \/ StreamOpened
  \/ NextBatch \/ ExpectEof \/ ReleaseBase \/ Ran
  \/ Wrap \/ Unwrap \/ Import \/ LetGo \/ LetChildGo \/ Discard \/ AskSchema
  \/ AskNext \/ Return \/ Throw \/ Crash
  \/ Drop \/ Dropped \/ Clean \/ Judge \/ Delete \/ Late

Spec == Init /\ [][Next]_vars

-----------------------------------------------------------------------------
(* Properties *)

CONSTANTS Cells, LimitTables   \* cells of the model, and documented limits

\* Whether a rejection is documented, and whether acceptance is required, for
\* every cell and table a line may be judged against.
Answers ==
  [c \in Consumers |->
     {<<Documented(limits, c, cell, matches), ExpectedOutcome(cell) = "ACCEPT">> :
        cell \in Cells, matches \in BOOLEAN,
        limits \in {t \in LimitTables : \A entry \in t : ValidLimit(entry)}}]

Verdicts == {Classify(line, a[1], a[2], HandsBack) : a \in Answers[consumer]}

\* What the consumer really did wrong, told from the history.  Moving is its
\* right, so an address is nothing to blame it for.
Broke == {x \in sins : x[1] # "released-at-stale-location"}
Kept == {s \in Held : IsLive(s) /\ owner[s] = "consumer"}
HalfBuilt == {s \in Schemas : place[s] = "own" /\ owner[s] = "harness"}
Changed == ses.sent /\ ses.received = "changed"

\* Type correctness, with the account of the capsules: the count the report
\* relies on is the number of them that are alive.
TypeOK ==
  /\ RecTypeOK /\ ConTypeOK
  /\ capsules \subseteq Structs /\ hidden \subseteq Structs
  /\ counted = Cardinality(capsules) /\ refs \in Nat /\ freed \in BOOLEAN

\* abicase_py.c:16-19: the case, and with it what every release callback
\* reaches back into, outlives every capsule cut from it.
CapsuleKeepsCase ==
  /\ capsules # {} => ~freed
  /\ phase \notin {"load", "dead", "reported"} => refs > 0

\* A defect is reported of a consumer that did something: it broke a rule of
\* the lifecycle, kept what it was to give back, panicked, changed the data,
\* or refused what it must take.  There are two exceptions: what the case
\* object itself refuses (a second import, a move after one, no memory), which
\* run_case() cannot tell from the consumer's own refusal, and a schema that
\* get_schema() left half-built at the consumer's address, which nobody frees.
VerdictDeserved ==
  phase = "judged" /\ Defect \in Verdicts =>
    \/ Broke # {} \/ Kept # {} \/ Changed \/ HalfBuilt # {}
    \/ ses.status = "rejected"

\* What it broke or kept is never reported as an agreement, however it
\* answered and however the log was cut short.
SinsSurface ==
  phase = "judged" /\ (Broke # {} \/ Kept # {} \/ ses.panicked) =>
    \A v \in Verdicts : v[1] # "agree"

\* A structure released after its reconstruction is gone takes the worker
\* down during some other case; this case's line has already said so.  (Not of
\* a half-built schema: any live capsule excuses the bytes it holds.)
LateReleaseAnnounced ==
  phase = "dead" /\ line # NoLine /\ HalfBuilt = {} => \A v \in Verdicts : v[1] # "agree"

\* A case that is to hand something over and was accepted handed it over.
HandedOver ==
  /\ phase = "judged" /\ line.status = "accepted"
  /\ Asks(Names, {"IMPORT_SCHEMA", "IMPORT_ARRAY", "STREAM_GET_SCHEMA", "STREAM_GET_NEXT"})
  => \E s \in Structs : givenAt[s] # "nowhere"
=============================================================================
