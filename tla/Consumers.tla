------------------------------ MODULE Consumers -------------------------------
(***************************************************************************)
(* The consumers the executor drives: the AbiConsumer callbacks of the     *)
(* null, refval, arrow-cpp and duckdb workers, and two free consumers that *)
(* stand for whatever engine is under test.                                *)
(*                                                                         *)
(* A callback is a behaviour: the acts it performs in order, whether it    *)
(* refuses, and what the consumer remembers afterwards.  What an engine's  *)
(* library decides for itself (does this schema parse, is this array       *)
(* valid) is a choice.  A free consumer performs, on top of its            *)
(* behaviour's acts, any release or move it likes while a callback runs    *)
(* (FreeAct in Callseq.tla).                                               *)
(***************************************************************************)
EXTENDS Reconstruction

CONSTANT Consumers   \* the consumers a run considers

Shipped == {"null", "refval", "arrow_cpp", "duckdb"}
Free == {"keeper", "mover"}   \* a mover also takes structures unlogged

ASSUME ConsumersAssumption == Consumers \subseteq (Shipped \cup Free)

VARIABLES
  consumer,   \* the worker's consumer
  ptr,        \* kinds of structure it has a pointer to
  parsed      \* whether it holds a schema it converted

conVars == <<consumer, ptr, parsed>>

\* The address rule is sound only when every move was logged: an engine with
\* storage of its own declares AbiWorker.consumer_moves.
Strict == consumer \notin {"arrow_cpp", "duckdb"}

Callbacks == {"import_schema", "import_array", "import_stream", "release_base",
              "release_child", "release_dictionary", "stream_get_schema",
              "stream_get_next", "stream_get_last_error"}

\* A NULL callback is an op the consumer does not perform.
Performed ==
  IF consumer = "duckdb" THEN {"import_schema", "import_array", "release_base"}
  ELSE Callbacks \ (IF consumer \in {"refval", "arrow_cpp"}
                    THEN {"release_child", "release_dictionary", "stream_get_last_error"}
                    ELSE {})

Offers(name) == name \in Performed

-----------------------------------------------------------------------------
(* Acts and behaviours *)

Act == [do : {"release", "take", "get_schema", "get_next", "get_last_error", "fault"},
        s : Structs, node : Nodes]

Rel(s) == [do |-> "release", s |-> s, node |-> BASE]
RelKid(k) == [do |-> "release", s |-> Array, node |-> k]
TakeIt(s) == [do |-> "take", s |-> s, node |-> BASE]
Call(f) == [do |-> f, s |-> Stream, node |-> BASE]   \* through the stream's pointers
Fault == Call("fault")                               \* through a pointer of its own

Does(acts, refused, points, parses) ==
  [acts |-> acts, refused |-> refused, ptr |-> points, parsed |-> parses]

\* A behaviour that leaves the consumer's memory as it was.
Just(acts, refused) == Does(acts, refused, ptr, parsed)

\* What the consumer can reach: what it has moved or been given into storage of
\* its own, and what it kept a pointer to.
Held(s) == IsLive(s) /\ (place[s] = "own" \/ s.obj \in ptr)

IfHeld(s) == IF Held(s) THEN <<Rel(s)>> ELSE <<>>
IfOwn(s) == IF place[s] = "own" THEN <<Rel(s)>> ELSE <<>>

\* The schema a shipped consumer holds: it lets one go before asking again.
HeldSchema ==
  IF \E s \in Schemas : Held(s) THEN <<Rel(CHOOSE s \in Schemas : Held(s))>> ELSE <<>>

OwnSchema ==
  IF \E s \in Schemas : place[s] = "own"
  THEN <<Rel(CHOOSE s \in Schemas : place[s] = "own")>> ELSE <<>>

\* The schema the stream would build next.
Coming == {Schema(k) : k \in {j \in 1..MaxSchemas : NextSchema(j)}}

-----------------------------------------------------------------------------
(* What each callback of each consumer does.  `node` is the one release_child *)
(* and release_dictionary are told to release.                             *)

\* What a callback that takes a structure remembers.
Points(kind) == ptr \cup {kind}

\* null: takes what it is given and looks at nothing.
NullDoes(node) ==
  [import_schema |-> {Does(<<>>, FALSE, Points("schema"), parsed)},
   import_array |-> {Does(<<>>, FALSE, Points("array"), parsed)},
   import_stream |-> {Does(<<>>, FALSE, Points("stream"), parsed)},
   release_base |-> {Just(IfHeld(Array) \o HeldSchema \o IfHeld(Stream), FALSE)},
   release_child |-> {Just(<<RelKid(node)>>, FALSE)},
   release_dictionary |-> {Just(<<RelKid(node)>>, FALSE)},
   stream_get_schema |-> {Just(OwnSchema \o <<Call("get_schema")>>, FALSE)},
   stream_get_next |-> {Just(IfOwn(Array) \o <<Call("get_next")>>, FALSE)},
   stream_get_last_error |-> {Just(<<Call("get_last_error")>>, FALSE)}]

\* refval: validates what it was given, in place, and hands back what it
\* refuses by leaving it live.  A batch without a live schema is refused.
RefvalDoes(node) ==
  [NullDoes(node) EXCEPT
     !.import_array =
       {Just(<<>>, TRUE)}
       \cup {b \in {Does(<<>>, FALSE, Points("array"), parsed)} :
               "schema" \in ptr /\ IsLive(Schema(1))},
     !.stream_get_schema =
       {Just(OwnSchema \o <<Call("get_schema")>>, refused) : refused \in BOOLEAN},
     !.stream_get_next =
       {Just(IfOwn(Array) \o <<Call("get_next")>>, refused) : refused \in
          {r \in BOOLEAN : (r => Undelivered) /\ (~r /\ Undelivered => OwnSchema # <<>>)}}]

\* arrow-cpp: an imported schema is released where it lies and survives as an
\* object of Arrow's; arrays and streams move into storage of Arrow's.  Once it
\* has let go of its reader it calls through a NULL one.
ArrowDoes(node) ==
  [NullDoes(node) EXCEPT
     !.import_schema =
       {Does(<<Rel(Schema(1))>>, refused, ptr, parsed \/ ~refused) : refused \in BOOLEAN},
     !.import_array =
       IF parsed
       THEN {Just(<<TakeIt(Array)>>, FALSE), Just(<<TakeIt(Array), Rel(Array)>>, TRUE)}
       ELSE {Just(<<>>, TRUE)},
     !.import_stream =
       {Does(<<TakeIt(Stream), Call("get_schema"), Rel(s)>>, FALSE, Points("stream"), parsed) :
          s \in Coming}
       \cup {Just(<<TakeIt(Stream), Call("get_schema"), Rel(s), Rel(Stream)>>, TRUE) :
               s \in Coming},
     !.stream_get_schema =
       {Just(IF "stream" \in ptr THEN <<>> ELSE <<Fault>>, FALSE)},
     !.stream_get_next =
       {Just(IfOwn(Array) \o <<IF "stream" \in ptr THEN Call("get_next") ELSE Fault>>, FALSE)}
       \cup {b \in {Just(<<Call("get_next"), Rel(Array)>>, TRUE)} :
               "stream" \in ptr /\ Undelivered},
     !.release_base =
       {Does(IfOwn(Array) \o IfOwn(Stream), FALSE, ptr \ {"stream"}, FALSE)}]

\* duckdb: the schema stays where it is, kept only once converted; an array
\* refused during conversion has been released, one refused before has not.
DuckDoes(node) ==
  [NullDoes(node) EXCEPT
     !.import_schema = {Just(<<>>, TRUE), Does(<<>>, FALSE, Points("schema"), TRUE)},
     !.import_array =
       {Just(<<>>, TRUE)}
       \cup {b \in {Just(<<TakeIt(Array)>>, FALSE),
                    Just(<<TakeIt(Array), Rel(Array)>>, TRUE)} : parsed},
     !.release_base = {Does(IfOwn(Array) \o IfHeld(Schema(1)), FALSE, ptr, FALSE)}]

\* A free consumer keeps a pointer to all it is shown, refuses when it likes
\* and releases or moves what it holds when it likes.
FreeDoes(node) ==
  [NullDoes(node) EXCEPT
     !.import_schema = {Does(<<>>, refused, Points("schema"), parsed) : refused \in BOOLEAN},
     !.import_array = {Does(<<>>, refused, Points("array"), parsed) : refused \in BOOLEAN},
     !.import_stream = {Does(<<>>, refused, Points("stream"), parsed) : refused \in BOOLEAN},
     !.release_base = {Just(<<>>, FALSE)},
     !.stream_get_schema = {Just(<<Call("get_schema")>>, refused) : refused \in BOOLEAN},
     !.stream_get_next = {Just(<<Call("get_next")>>, refused) : refused \in BOOLEAN}]

Behaviours(node) ==
  IF consumer = "null" THEN NullDoes(node)
  ELSE IF consumer = "refval" THEN RefvalDoes(node)
  ELSE IF consumer = "arrow_cpp" THEN ArrowDoes(node)
  ELSE IF consumer = "duckdb" THEN DuckDoes(node)
  ELSE FreeDoes(node)
=============================================================================
