------------------------------ MODULE Construct ------------------------------
(***************************************************************************)
(* Building a reconstruction, request by request, and undoing one that ran *)
(* out of memory (reconstruct() and abi_reconstruction_free() in           *)
(* libabi/src/reconstruct.c).  A tree is its nodes in the order they are   *)
(* built, parents first; node i > 1 is a child or the dictionary of        *)
(* `parent`.                                                               *)
(***************************************************************************)
EXTENDS Reconstruction, SequencesExt

CONSTANT Shapes   \* what cases ask for: [blocks, schema, array]

Parts == {"struct", "priv", "format", "name", "metadata", "slots", "buffers"}
TreeNode == [parent : Nat, asks : SUBSET Parts]

\* Parents come first.  An array tree is a root and what the reconstruction
\* tells apart under it.
ASSUME ShapesAssumption ==
  \A sh \in Shapes :
    /\ sh \in [blocks : Nat, schema : Seq(TreeNode), array : Seq(TreeNode)]
    /\ \A tree \in {sh.schema, sh.array} : \A i \in 2..Len(tree) : tree[i].parent \in 1..(i-1)
    /\ Len(sh.array) <= 4

VARIABLES
  shape,     \* the case being built
  stream,    \* stream mode
  at,        \* requests served
  heap,      \* blocks allocated and not freed
  outcome,   \* "building", "failing", "built", "failed" or "crashed"
  twice      \* whether the undoing freed a block twice

conVars == <<shape, stream, at, heap, outcome, twice>>

Block(of, node, part) == [of |-> of, node |-> node, part |-> part]
Table == Block("backing", 0, "table")

SchemaParts == <<"struct", "priv", "format", "name", "metadata", "slots">>
ArrayParts == <<"struct", "priv", "buffers", "slots">>

\* The root's structure is not on the heap; some parts every node has.
PartsOf(parts, tree, i) ==
  LET Has(p) == IF p = "struct" THEN i > 1 ELSE p \in {"priv", "format"} \cup tree[i].asks
  IN  FlattenSeq([k \in DOMAIN parts |-> IF Has(parts[k]) THEN <<parts[k]>> ELSE <<>>])

\* build_schema() and build_array(), in the order of their requests.
TreePlan(of, parts, tree) ==
  FlattenSeq([i \in DOMAIN tree |->
                LET mine == PartsOf(parts, tree, i)
                IN  [k \in DOMAIN mine |-> Block(of, i, mine[k])]])

BackingPlan ==
  IF shape.blocks = 0 THEN <<>>
  ELSE <<Table>> \o [k \in 1..shape.blocks |-> Block("backing", k, "bytes")]

\* A stream's schema is built when it is asked for.
Plan ==
  BackingPlan
  \o (IF stream THEN <<>> ELSE TreePlan("schema", SchemaParts, shape.schema))
  \o TreePlan("array", ArrayParts, shape.array)

HasArray == at = Len(Plan) /\ shape.array # <<>>

-----------------------------------------------------------------------------
(* What a release reaches *)

\* A slip: a node armed once its contents are built.
ArmedLate(of, i) ==
  \A b \in Range(Plan) : b.of = of /\ b.node = i => b \in heap

\* A node is releasable from the moment it has its private data.
Armed(of, i) == Block(of, i, "priv") \in heap

\* From the root down the slots, a child being attached before it is built.
Reached(of, tree) ==
  LET r[i \in DOMAIN tree] == Armed(of, i) /\ (i = 1 \/ r[tree[i].parent])
  IN  {i \in DOMAIN tree : r[i]}

\* A node's release frees its own parts and its children's structures.
TreeFrees(of, tree) ==
  {b \in heap : b.of = of /\ IF b.part = "struct"
                             THEN tree[b.node].parent \in Reached(of, tree)
                             ELSE b.node \in Reached(of, tree)}

Backing == {b \in heap : b.of = "backing"}

\* release_all(): the schema if it is armed, the array only if has_array, the
\* backing with the array or after it.
ArrayFrees ==
  IF HasArray THEN TreeFrees("array", shape.array) \cup Backing ELSE {}
BackingFrees == IF HasArray THEN {} ELSE Backing
SchemaFrees == IF stream THEN {} ELSE TreeFrees("schema", shape.schema)

-----------------------------------------------------------------------------
NotBuilt ==
  /\ place = [s \in Structs |-> "unborn"]
  /\ kids = {} /\ buffers = FALSE
  /\ log = <<>> /\ dropped = FALSE
  /\ owner = [s \in Structs |-> "harness"]
  /\ givenAt = [s \in Structs |-> "nowhere"]
  /\ sins = {}

ConstructInit ==
  /\ NotBuilt
  /\ shape \in Shapes /\ stream = FALSE
  /\ at = 0 /\ heap = {} /\ outcome = "building" /\ twice = FALSE

\* The same case once more, as a stream.
BuildStream ==
  /\ stream' = TRUE
  /\ at' = 0 /\ heap' = {} /\ outcome' = "building" /\ twice' = FALSE
  /\ UNCHANGED shape

Request ==
  /\ outcome = "building" /\ at < Len(Plan)
  /\ at' = at + 1
  /\ heap' = heap \cup {Plan[at + 1]}
  /\ UNCHANGED <<shape, stream, outcome, twice, recVars>>

\* A request that fails, the copy of a stream's case, or, once all is built,
\* the object that was to own it (PyObject_New() in abicase_py.c).
RunsOut ==
  /\ outcome = "building"
  /\ MayRunOut
  /\ outcome' = "failing"
  /\ UNCHANGED <<shape, stream, at, heap, twice, recVars>>

\* abi_reconstruction_free() of what there is.  alloc_count is set before its
\* table exists, and a missing table is walked all the same.
Undo ==
  /\ outcome = "failing"
  /\ IF shape.blocks > 0 /\ Table \notin heap
     THEN outcome' = "crashed" /\ UNCHANGED <<heap, twice>>
     ELSE /\ heap' = heap \ (SchemaFrees \cup ArrayFrees \cup BackingFrees)
          /\ twice' = (ArrayFrees \cap BackingFrees # {})
          /\ outcome' = "failed"
  /\ UNCHANGED <<shape, stream, at, recVars>>

\* What is exported at once, in order.
Exports ==
  (IF stream THEN <<>> ELSE <<Schema(1)>>) \o (IF HasArray THEN <<Array>> ELSE <<>>)
  \o (IF stream THEN <<Stream>> ELSE <<>>)

Complete ==
  /\ outcome = "building" /\ at = Len(Plan)
  /\ outcome' = "built"
  /\ place' = [s \in Structs |-> IF s \in Range(Exports) THEN "home" ELSE "unborn"]
  /\ kids' = {i - 1 : i \in 2..Len(shape.array)} /\ buffers' = TRUE
  /\ log' = [i \in DOMAIN Exports |-> Note("exported", Exports[i], "home")]
  /\ dropped' = FALSE /\ sins' = {}
  /\ owner' = [s \in Structs |-> "harness"]
  /\ givenAt' = [s \in Structs |-> "nowhere"]
  /\ UNCHANGED <<shape, stream, at, heap, twice>>

BuildStep == Request \/ RunsOut \/ Undo \/ Complete

-----------------------------------------------------------------------------
ConTypeOK ==
  /\ shape \in Shapes /\ stream \in BOOLEAN
  /\ at \in 0..Len(Plan) /\ heap \subseteq Range(SubSeq(Plan, 1, at))
  /\ outcome \in {"building", "failing", "built", "failed", "crashed"}
  /\ twice \in BOOLEAN

\* A failed reconstruction gives back every block, once, except when it failed
\* inside the array: nothing reaches a root built half-way.  Without a table
\* of blocks it does not get that far.
CleanupExact ==
  LET early(b) == b \in Range(SubSeq(Plan, 1, at))
  IN  /\ outcome = "failed" =>
           /\ heap = IF HasArray THEN {}
                     ELSE {b \in Range(Plan) : early(b) /\ b.of = "array"}
           /\ ~twice
      /\ outcome = "crashed" <=> outcome \in {"failed", "crashed"}
                                 /\ shape.blocks > 0 /\ at = 0
=============================================================================
