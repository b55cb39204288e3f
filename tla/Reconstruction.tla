---------------------------- MODULE Reconstruction ----------------------------
(***************************************************************************)
(* A reconstruction (libabi/src/reconstruct.c): the producer half of a     *)
(* test.  It owns the exported base structures, their release callbacks    *)
(* and the observer's event log, and it is the only place events are       *)
(* written.  Each operator below is one entry point, as an action on the   *)
(* variables; the executor of Callseq.tla and the consumer it drives call  *)
(* them.                                                                   *)
(*                                                                         *)
(* A structure is named, not addressed: place says where its live copy is. *)
(* The nodes under a schema are left out, because no operation reaches     *)
(* them; those under the array are the set kids.                           *)
(***************************************************************************)
EXTENDS Lifecycle

CONSTANTS
  MaxSchemas,   \* bound: schemas one stream is asked for
  MaxEvents,    \* ABI_MAX_EVENTS, the capacity of the log
  MayRunOut     \* whether building a stream's schema may run out of memory

ASSUME SchemasAssumption == MaxSchemas \in Nat \ {0}
ASSUME EventsAssumption == MaxEvents \in Nat /\ MaxEvents >= 2
ASSUME OutAssumption == MayRunOut \in BOOLEAN

Schema(k) == [obj |-> "schema", n |-> k]
Array == [obj |-> "array", n |-> 1]
Stream == [obj |-> "stream", n |-> 1]
Schemas == {Schema(k) : k \in 1..MaxSchemas}
Structs == Schemas \cup {Array, Stream}

\* An array's releasable nodes, in the order array_release() walks them.
Kids == {1, 2, DICT}

VARIABLES
  place,     \* where each structure's live copy is, or "unborn", or "dead"
  kids,      \* nodes under the array whose release callback is still set
  buffers,   \* whether the backing allocations are still there
  log,       \* AbiObserver.events
  dropped,   \* AbiObserver.events_dropped # 0
  owner,     \* history: who must release each structure
  givenAt,   \* history: where the consumer was handed it
  sins       \* history: what really went wrong, as <<rule, kind>>

recVars == <<place, kids, buffers, log, dropped, owner, givenAt, sins>>

Live == {s \in Structs : place[s] \in Locations}
IsLive(s) == place[s] \in Locations

-----------------------------------------------------------------------------
(* The observer *)

Ev(kind, s, node, by, at) ==
  [kind |-> kind, obj |-> s.obj, node |-> node, by |-> by, at |-> at]

\* An event nobody's release entered, at the structure's own node.
Note(kind, s, at) == Ev(kind, s, BASE, FALSE, at)

\* A log that grows past its capacity.
ObserveUnbounded(evs) == log' = log \o evs /\ dropped' = dropped

\* obs_event(): past the capacity an event is counted and lost.
Observe(evs) ==
  /\ log' = IF Len(log \o evs) <= MaxEvents THEN log \o evs
            ELSE SubSeq(log \o evs, 1, MaxEvents)
  /\ dropped' = (dropped \/ Len(log \o evs) > MaxEvents)

\* A release is the consumer's when it is entered from outside every other
\* release and not from the harness's own cleanup.
ByConsumer(depth, harness) == depth = 0 /\ ~harness

-----------------------------------------------------------------------------
(* The release callbacks *)

\* A node under the array, entered from `depth`.
KidWalk(k, depth, harness) ==
  LET by == ByConsumer(depth, harness)
      ev(kind) == Ev(kind, Array, k, by, place[Array])
  IN  (IF by THEN <<ev("violation")>> ELSE <<>>)
      \o <<ev("enter"), ev("exit")>>

IfLive(k, depth, harness) ==
  IF k \in kids THEN KidWalk(k, depth, harness) ELSE <<>>

\* array_release() of the base: the children, then the dictionary, nested.
ArrayWalk(depth, harness) ==
  LET ev(kind) == Ev(kind, Array, BASE, ByConsumer(depth, harness), place[Array])
  IN  <<ev("enter")>> \o IfLive(1, depth + 1, harness)
      \o IfLive(2, depth + 1, harness) \o IfLive(DICT, depth + 1, harness)
      \o <<ev("exit")>>

\* The undelivered batch is the stream's until get_next moves it away.
Undelivered == place[Array] = "home"

\* stream_release(): a batch it never delivered is released inside it.
StreamWalk(harness) ==
  <<Ev("enter", Stream, BASE, ByConsumer(0, harness), place[Stream])>>
  \o (IF Undelivered THEN ArrayWalk(1, harness) ELSE <<>>)
  \o <<Ev("exit", Stream, BASE, ByConsumer(0, harness), place[Stream])>>

SchemaWalk(s, harness) ==
  <<Ev("enter", s, BASE, ByConsumer(0, harness), place[s]),
    Ev("exit", s, BASE, ByConsumer(0, harness), place[s])>>

Walk(s, harness) ==
  IF s = Array THEN ArrayWalk(0, harness)
  ELSE IF s = Stream THEN StreamWalk(harness) ELSE SchemaWalk(s, harness)

\* The structures the release of s ends.
Ended(s) == {s} \cup (IF s = Stream /\ Undelivered THEN {Array} ELSE {})

\* What was wrong with the release of s, whatever the log says of it.
SinOf(s, harness) ==
  {<<rule, s.obj>> : rule \in
     {r \in {"not-released-by-consumer"} : harness /\ owner[s] = "consumer"}
     \cup {r \in {"released-before-import"} : ~harness /\ owner[s] = "harness"}
     \cup {r \in {"released-at-stale-location"} :
             ~harness /\ owner[s] = "consumer" /\ place[s] # givenAt[s]}}

\* s->release(s), with the events that precede it.  The root array's release
\* is where the backing allocations are freed.
Release(s, harness, before) ==
  /\ Observe(before \o Walk(s, harness))
  /\ place' = [x \in Structs |-> IF x \in Ended(s) THEN "dead" ELSE place[x]]
  /\ kids' = IF Array \in Ended(s) THEN {} ELSE kids
  /\ buffers' = (buffers /\ Array \notin Ended(s))
  /\ sins' = sins \cup SinOf(s, harness)
  /\ UNCHANGED <<owner, givenAt>>

\* A release that frees the backing allocations at any node of the array.
ReleaseKidAndBuffers(k) ==
  /\ IF k \in kids
     THEN /\ Observe(KidWalk(k, 0, FALSE))
          /\ sins' = sins \cup {<<"child-released-by-consumer", "array">>}
     ELSE UNCHANGED <<log, dropped, sins>>
  /\ kids' = kids \ {k}
  /\ buffers' = FALSE
  /\ UNCHANGED <<place, owner, givenAt>>

\* A node under the array, released from outside any release.
ReleaseKid(k) ==
  /\ IF k \in kids
     THEN /\ Observe(KidWalk(k, 0, FALSE))
          /\ sins' = sins \cup {<<"child-released-by-consumer", "array">>}
     ELSE UNCHANGED <<log, dropped, sins>>
  /\ kids' = kids \ {k}
  /\ UNCHANGED <<place, buffers, owner, givenAt>>

\* abi_reconstruction_harness_release_*(): marked before and during; a
\* structure already released or moved away from `at` is left alone.
HarnessRelease(s, at) ==
  IF place[s] = at THEN Release(s, TRUE, <<Note("harness", s, at)>>)
  ELSE UNCHANGED recVars

-----------------------------------------------------------------------------
(* Handing over *)

\* abi_reconstruction_note_*_import(): ownership passes with the note.
NoteImport(s) ==
  /\ Observe(<<Note("imported", s, place[s])>>)
  /\ owner' = [owner EXCEPT ![s] = "consumer"]
  /\ givenAt' = [givenAt EXCEPT ![s] = place[s]]
  /\ UNCHANGED <<place, kids, buffers, sins>>

\* abi_reconstruction_note_*_returned(), only of a structure left live where
\* it was handed over.
NoteReturned(s, at) ==
  IF place[s] = at
  THEN /\ Observe(<<Note("returned", s, at)>>)
       /\ owner' = [owner EXCEPT ![s] = "harness"]
       /\ UNCHANGED <<place, kids, buffers, givenAt, sins>>
  ELSE UNCHANGED recVars

\* abi_reconstruction_move_schema() and _array(): the copy at dst is the live
\* one, and no callback runs; a released structure is not moved.
Move(moved, dst) ==
  /\ place' = [x \in Structs |-> IF x \in moved /\ IsLive(x) THEN dst ELSE place[x]]
  /\ Observe((IF Schema(1) \in moved THEN <<Note("moved", Schema(1), dst)>> ELSE <<>>)
             \o (IF Array \in moved THEN <<Note("moved", Array, dst)>> ELSE <<>>))
  /\ UNCHANGED <<kids, buffers, owner, givenAt, sins>>

\* A move nobody logs: a consumer taking s into storage of its own.  What is
\* released stays released wherever it is copied to.
Take(s) ==
  /\ place' = [place EXCEPT ![s] = IF IsLive(s) THEN "own" ELSE @]
  /\ UNCHANGED <<kids, buffers, log, dropped, owner, givenAt, sins>>

-----------------------------------------------------------------------------
(* The stream's callbacks *)

Unborn(k) == place[Schema(k)] = "unborn"
NextSchema(k) == Unborn(k) /\ \A j \in 1..MaxSchemas : Unborn(j) => k <= j

\* stream_get_schema(): built at the consumer's own address and handed over.
GetSchema(k) ==
  /\ place' = [place EXCEPT ![Schema(k)] = "own"]
  /\ owner' = [owner EXCEPT ![Schema(k)] = "consumer"]
  /\ givenAt' = [givenAt EXCEPT ![Schema(k)] = "own"]
  /\ Observe(<<Note("exported", Schema(k), "own"), Note("imported", Schema(k), "own")>>)
  /\ UNCHANGED <<kids, buffers, sins>>

\* The same, out of memory: the root is armed before its contents are built,
\* so what is left at the consumer's address can be released, unannounced.
GetSchemaRunsOut(k) ==
  /\ MayRunOut
  /\ \/ place' = [place EXCEPT ![Schema(k)] = "own"]
     \/ place' = place
  /\ UNCHANGED <<kids, buffers, log, dropped, owner, givenAt, sins>>

\* stream_get_next(): the one batch, moved, and after it the end.
GetNext ==
  IF Undelivered
  THEN /\ place' = [place EXCEPT ![Array] = "own"]
       /\ owner' = [owner EXCEPT ![Array] = "consumer"]
       /\ givenAt' = [givenAt EXCEPT ![Array] = "own"]
       /\ Observe(<<Note("moved", Array, "own"), Note("imported", Array, "own")>>)
       /\ UNCHANGED <<kids, buffers, sins>>
  ELSE /\ Observe(<<Note("eof", Array, "own")>>)
       /\ UNCHANGED <<place, kids, buffers, owner, givenAt, sins>>

-----------------------------------------------------------------------------
(* Building and tearing down *)

\* abi_reconstruct() and abi_reconstruct_stream(): a stream exports no schema
\* of its own until it is asked.
Built(stream, array, nodes) ==
  /\ place = [s \in Structs |->
                IF \/ s = Schema(1) /\ ~stream
                   \/ s = Array /\ array
                   \/ s = Stream /\ stream
                THEN "home" ELSE "unborn"]
  /\ kids = IF array THEN nodes ELSE {}
  /\ buffers = TRUE
  /\ log = (IF stream THEN <<>> ELSE <<Note("exported", Schema(1), "home")>>)
           \o (IF array THEN <<Note("exported", Array, "home")>> ELSE <<>>)
           \o (IF stream THEN <<Note("exported", Stream, "home")>> ELSE <<>>)
  /\ dropped = FALSE
  /\ owner = [s \in Structs |-> "harness"]
  /\ givenAt = [s \in Structs |-> "nowhere"]
  /\ sins = {}

\* free_backing_allocations(), at the end of abi_reconstruction_release_all().
FreeBacking ==
  /\ buffers' = FALSE
  /\ UNCHANGED <<place, kids, log, dropped, owner, givenAt, sins>>

\* The type of the reconstruction's state; the log never outgrows its array.
RecTypeOK ==
  /\ place \in [Structs -> Places]
  /\ kids \subseteq Kids /\ buffers \in BOOLEAN
  /\ log \in Seq(Event) /\ Len(log) <= MaxEvents /\ dropped \in BOOLEAN
  /\ owner \in [Structs -> {"harness", "consumer"}]
  /\ givenAt \in [Structs -> Places \cup {"nowhere"}]
  /\ sins \subseteq Rules \X Objects
=============================================================================
