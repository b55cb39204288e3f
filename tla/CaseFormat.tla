----------------------------- MODULE CaseFormat -----------------------------
(***************************************************************************)
(* The .abicase container: the in-memory case, its validation, the         *)
(* canonical encoder and the strict decoder (libabi/src/validate.c,        *)
(* encode.c, decode.c, bytes.c).                                           *)
(*                                                                         *)
(* A tree is the sequence of its nodes in the order the code visits them,  *)
(* [depth, dict, info]: `dict` marks a node attached as its parent's       *)
(* dictionary, which comes after the parent's children.  A file is a       *)
(* header and sections of tokens; strings, flags, seeds and lengths that   *)
(* no rule looks at are left out.                                          *)
(***************************************************************************)
EXTENDS Integers, Fill, Arena

CONSTANTS AllocCount,   \* ABI_LIMIT_ALLOC_COUNT
          AllocBytes,   \* ABI_LIMIT_ALLOC_BYTES
          Alignments,   \* the powers of two up to ABI_LIMIT_ALIGNMENT
          TreeDepth,    \* ABI_LIMIT_TREE_DEPTH
          TreeNodes,    \* ABI_LIMIT_TREE_NODES
          OpCount,      \* ABI_LIMIT_OP_COUNT
          TotalSize,    \* ABI_LIMIT_TOTAL_SIZE, in tokens
          ArenaUnit     \* bytes, and alignment, of a node or a table entry

Classes == {"A", "B1", "B2", "C"}
ConsistentCounts(cls) == cls \in {"A", "B2"}
OpMax == 11
Misuse == {7, 8, 10}        \* RELEASE_CHILD, RELEASE_DICTIONARY, USE_AFTER_RELEASE
ReleaseChild == 7
Outcomes == 0 .. 3

NewCase(cls) == [cls |-> cls, allocs |-> <<>>, schema |-> <<>>, array |-> <<>>,
                 ops |-> <<>>, outcome |-> 3]

AbsentView == [present |-> FALSE, alloc |-> 0, off |-> 0, len |-> 0]

---------------------------------------------------------------------------
(* Trees *)

Parent(t, i) ==
    LET above == {k \in 1 .. i - 1 : t[k].depth = t[i].depth - 1}
    IN  IF above = {} THEN 0 ELSE Max(above)
ChildrenOf(t, i) ==
    SelectSeq([k \in DOMAIN t |-> k], LAMBDA k : Parent(t, k) = i /\ ~t[k].dict)
DictionaryOf(t, i) == {k \in DOMAIN t : Parent(t, k) = i /\ t[k].dict}

---------------------------------------------------------------------------
(* abi_case_validate(): run before encoding and after decoding *)

ValAllocation(a) ==
    Fails(Len(a.bytes) > AllocBytes, "LIMIT")
    \sqcup Fails(a.align \notin Alignments, "INVALID")

(* A slip: the offset and the length are each compared with the block. *)
ValViewApart(c, v) ==
    IF ~v.present THEN Fails(v # AbsentView, "NOT_CANONICAL")
    ELSE Fails(v.alloc >= Len(c.allocs), "BAD_REFERENCE")
         \sqcup LET size == Len(c.allocs[v.alloc + 1].bytes)
                IN  Fails(v.off > size \/ v.len > size, "BAD_REFERENCE")

ValView(c, v) ==
    IF ~v.present THEN Fails(v # AbsentView, "NOT_CANONICAL")
    ELSE Fails(v.alloc >= Len(c.allocs), "BAD_REFERENCE")
         \sqcup LET size == Len(c.allocs[v.alloc + 1].bytes)
                IN  Fails(v.off > size \/ v.len > size - v.off, "BAD_REFERENCE")

ValBudget(t, i) ==
    Fails(t[i].depth > TreeDepth, "LIMIT") \sqcup Fails(i > TreeNodes, "LIMIT")

ValSchema(c, i) ==
    ValBudget(c.schema, i)
    \sqcup Fails(ConsistentCounts(c.cls) /\
                 c.schema[i].info.declared # Len(ChildrenOf(c.schema, i)), "CLASS_RULE")

ValArray(c, i) ==
    LET n == c.array[i].info
    IN  ValBudget(c.array, i)
        \sqcup FirstOf([k \in DOMAIN n.views |-> ValView(c, n.views[k])])
        \sqcup Fails(ConsistentCounts(c.cls) /\
                     \/ n.nbuffers # Len(n.views)
                     \/ n.declared # Len(ChildrenOf(c.array, i)), "CLASS_RULE")

(* Two trees mirror each other when their walks have the same profile. *)
Profile(t) == [i \in DOMAIN t |-> <<t[i].depth, t[i].dict>>]

ValOp(c, op) ==
    Fails(op.code > OpMax, "BAD_ENUM")
    \sqcup Fails(op.code \in Misuse /\ c.cls # "C", "CLASS_RULE")
    \sqcup Fails((op.code # ReleaseChild /\ op.arg0 # 0) \/ op.arg1 # 0, "NOT_CANONICAL")

Validate(c) ==
    Fails(c.schema = <<>>, "MISSING")
    \sqcup Fails(Len(c.allocs) > AllocCount, "LIMIT")
    \sqcup FirstOf([i \in DOMAIN c.allocs |-> ValAllocation(c.allocs[i])])
    \sqcup Fails(c.outcome \notin Outcomes, "BAD_ENUM")
    \sqcup FirstOf([i \in DOMAIN c.schema |-> ValSchema(c, i)])
    \sqcup FirstOf([i \in DOMAIN c.array |-> ValArray(c, i)])
    \sqcup Fails(/\ c.array # <<>>
                 /\ ConsistentCounts(c.cls)
                 /\ Profile(c.array) # Profile(c.schema), "CLASS_RULE")
    \sqcup Fails(Len(c.ops) > OpCount, "LIMIT")
    \sqcup FirstOf([i \in DOMAIN c.ops |-> ValOp(c, c.ops[i])])

---------------------------------------------------------------------------
(* abi_case_encode() *)

Tags == [PROVENANCE |-> 1, ALLOCATIONS |-> 2, SCHEMA |-> 3, ARRAY |-> 4,
         CALLSEQ |-> 5, EXPECTED |-> 6]
Counted == {Tags.ALLOCATIONS, Tags.CALLSEQ}

(* `count` is the number of elements the two tables announce (0 in other   *)
(* sections, which have no such field), `unread` the bytes after them.     *)
Section(tag, count, body) ==
    [tag |-> Tags[tag], version |-> 1, count |-> count, body |-> body, unread |-> 0]

EncAllocation(a) == [size |-> Len(a.bytes), align |-> a.align, reserved |-> 0,
                     payload |-> FillChoose(a.bytes)]

(* A node, its children one after the other, and the flag that says        *)
(* whether the dictionary follows.                                         *)
EncTree(t) ==
    LET from[i \in DOMAIN t] ==
          LET kids == ChildrenOf(t, i)
              dict == DictionaryOf(t, i)
          IN  <<[info |-> t[i].info, reserved |-> 0, kids |-> Len(kids)]>>
              \o FlattenSeq([k \in DOMAIN kids |-> from[kids[k]]])
              \o IF dict = {} THEN <<[flag |-> 0]>>
                 ELSE <<[flag |-> 1]>> \o from[Min(dict)]
    IN  from[1]

EncSections(c) ==
    <<Section("PROVENANCE", 0, <<>>),
      Section("ALLOCATIONS", Len(c.allocs),
              [i \in DOMAIN c.allocs |-> EncAllocation(c.allocs[i])]),
      Section("SCHEMA", 0, EncTree(c.schema))>>
    \o (IF c.array = <<>> THEN <<>> ELSE <<Section("ARRAY", 0, EncTree(c.array))>>)
    \o (IF c.ops = <<>> THEN <<>> ELSE <<Section("CALLSEQ", Len(c.ops), c.ops)>>)
    \o <<Section("EXPECTED", 0, <<[outcome |-> c.outcome, reserved |-> 0]>>)>>

HeaderSize == 5
PayloadSize(ss) == FoldLeft(LAMBDA n, s : n + 2 + Len(s.body) + s.unread, 0, ss)

(* The payload id: a digest that tells every two payloads apart. *)
PayloadId(ss, tail) == <<ss, tail>>

(* The header a writer puts before these sections and `tail` more bytes. *)
Sealed(cls, ss, tail) ==
    [header |-> [magic |-> "ABIC", version |-> 1, bom |-> "little", cls |-> cls,
                 reserved |-> 0, count |-> Len(ss),
                 total |-> HeaderSize + PayloadSize(ss) + tail,
                 id |-> PayloadId(ss, tail)],
     sections |-> ss, tail |-> tail]

EncodeStatus(c) ==
    Validate(c)
    \sqcup Fails(HeaderSize + PayloadSize(EncSections(c)) > TotalSize, "LIMIT")

Encode(c) == Sealed(c.cls, EncSections(c), 0)

---------------------------------------------------------------------------
(* abi_case_decode() *)

DecHeader(f) ==
    LET h    == f.header
        size == HeaderSize + PayloadSize(f.sections) + f.tail
    IN  Fails(h.magic # "ABIC", "BAD_MAGIC")
        \sqcup Fails(h.version # 1, "BAD_VERSION")
        \sqcup Fails(h.bom # "little", "BAD_BYTE_ORDER")
        \sqcup Fails(h.cls \notin Classes, "BAD_ENUM")
        \sqcup Fails(h.reserved # 0, "NOT_CANONICAL")
        \sqcup Fails(h.total > TotalSize, "LIMIT")
        \sqcup Fails(h.total > size, "TRUNCATED")
        \sqcup Fails(h.total < size, "TRAILING")
        \sqcup Fails(h.id # PayloadId(f.sections, f.tail), "DIGEST_MISMATCH")

DecCounted(s, limit) ==
    Fails(s.count > limit, "LIMIT") \sqcup Fails(s.count > Len(s.body), "TRUNCATED")

DecAllocation(a) ==
    Fails(a.size > AllocBytes, "LIMIT")
    \sqcup Fails(a.align \notin Alignments, "INVALID")
    \sqcup Fails(a.reserved # 0, "NOT_CANONICAL")
    \sqcup FillRead(a.size, a.payload)

(* The recursive descent over a tree's tokens, as a walk with the stack of *)
(* the nodes it is inside of: an entry waits for `left` children and then  *)
(* for its dictionary flag; a set flag makes it a place for one more node. *)
TreeStart == [stack |-> <<[place |-> TRUE, dict |-> FALSE, depth |-> 0, left |-> 0]>>,
              tree |-> <<>>, views |-> 0, status |-> "OK"]

Views(info) == IF "views" \in DOMAIN info THEN info.views ELSE <<>>
Pairs(info) == IF "pairs" \in DOMAIN info THEN info.pairs ELSE 0

DecNode(w, token) ==
    LET top   == Last(w.stack)
        depth == IF top.place THEN top.depth ELSE top.depth + 1
        node  == [place |-> FALSE, dict |-> FALSE, depth |-> depth, left |-> token.kids]
        rest  == IF top.place THEN Front(w.stack)
                 ELSE Append(Front(w.stack), [top EXCEPT !.left = @ - 1])
    IN  [stack  |-> Append(rest, node),
         tree   |-> Append(w.tree, [depth |-> depth, dict |-> top.place /\ top.dict,
                                    info |-> token.info]),
         views  |-> w.views + Len(Views(token.info)),
         status |-> Fails(depth > TreeDepth, "LIMIT")
                    \sqcup Fails(Len(w.tree) + 1 > TreeNodes, "LIMIT")
                    \sqcup Fails(Len(Views(token.info)) > TreeNodes - w.views, "LIMIT")
                    \sqcup Fails(token.reserved # 0, "NOT_CANONICAL")
                    \sqcup Fails(Pairs(token.info) > TreeNodes, "LIMIT")
                    \sqcup Fails(token.kids > TreeNodes - (Len(w.tree) + 1) + 1, "LIMIT")]

DecFlag(w, token) ==
    LET top == Last(w.stack)
    IN  [w EXCEPT !.stack = CASE token.flag = 0 -> Front(@)
                              [] token.flag = 1 ->
                                   Append(Front(@), [place |-> TRUE, dict |-> TRUE,
                                                     depth |-> top.depth + 1, left |-> 0])
                              [] OTHER -> @,
                  !.status = Fails(token.flag > 1, "NOT_CANONICAL")]

(* A token of the other kind at this place is a value no reader of the     *)
(* place would take for its own: the walk stops.                           *)
DecToken(w, token) ==
    LET top == Last(w.stack)
        wantsNode == top.place \/ top.left > 0
    IN  IF w.status # "OK" THEN w
        ELSE IF w.stack = <<>> THEN [w EXCEPT !.status = "NOT_CANONICAL"]
        ELSE IF wantsNode # ("info" \in DOMAIN token)
             THEN [w EXCEPT !.status = "NOT_CANONICAL"]
        ELSE IF wantsNode THEN DecNode(w, token) ELSE DecFlag(w, token)

DecTree(body) ==
    LET w == FoldLeft(DecToken, TreeStart, body)
    IN  [tree |-> w.tree,
         status |-> w.status \sqcup Fails(w.stack # <<>>, "TRUNCATED")]

(* One section decoded into the case c. *)
DecSection(c, s) ==
    LET tree == DecTree(s.body)
    IN  CASE s.tag = Tags.PROVENANCE -> [case |-> c, status |-> "OK"]
          [] s.tag = Tags.ALLOCATIONS ->
               LET st == DecCounted(s, AllocCount)
                         \sqcup FirstOf([i \in DOMAIN s.body |-> DecAllocation(s.body[i])])
               IN  [status |-> st,
                    case |-> IF st # "OK" THEN c
                             ELSE [c EXCEPT !.allocs =
                                     [i \in 1 .. s.count |->
                                        [align |-> s.body[i].align,
                                         bytes |-> Expand(s.body[i].size, s.body[i].payload)]]]]
          [] s.tag = Tags.SCHEMA ->
               [case |-> [c EXCEPT !.schema = tree.tree], status |-> tree.status]
          [] s.tag = Tags.ARRAY ->
               [case |-> [c EXCEPT !.array = tree.tree], status |-> tree.status]
          [] s.tag = Tags.CALLSEQ ->
               [case |-> [c EXCEPT !.ops = s.body],
                status |-> Fails(s.count = 0, "NOT_CANONICAL")
                           \sqcup DecCounted(s, OpCount)
                           \sqcup FirstOf([i \in DOMAIN s.body |->
                                             Fails(s.body[i].code > OpMax, "BAD_ENUM")])]
          [] s.tag = Tags.EXPECTED /\ s.body = <<>> -> [case |-> c, status |-> "TRUNCATED"]
          [] s.tag = Tags.EXPECTED /\ s.body # <<>> ->
               [case |-> [c EXCEPT !.outcome = s.body[1].outcome],
                status |-> Fails(s.body[1].outcome \notin Outcomes, "BAD_ENUM")
                           \sqcup Fails(s.body[1].reserved # 0, "NOT_CANONICAL")]
          [] OTHER -> [case |-> c, status |-> "BAD_ENUM"]

(* The section loop: versions, ascending tags, nothing left unread. *)
DecStep(w, s) ==
    LET one == DecSection(w.case, s)
    IN  IF w.status # "OK" THEN w
        ELSE [case   |-> one.case,
              last   |-> s.tag,
              have   |-> w.have \cup {s.tag},
              status |-> Fails(s.version # 1, "BAD_VERSION")
                         \sqcup Fails(s.tag <= w.last, "NOT_CANONICAL")
                         \sqcup one.status
                         \sqcup Fails(/\ s.tag \in Counted \cup {Tags.EXPECTED}
                                      /\ Len(s.body) > (IF s.tag \in Counted THEN s.count
                                                        ELSE 1), "NOT_CANONICAL")
                         \sqcup Fails(s.unread > 0, "NOT_CANONICAL")]

Required == {Tags.PROVENANCE, Tags.ALLOCATIONS, Tags.SCHEMA, Tags.EXPECTED}

Decode(f) ==
    LET head == DecHeader(f)
               \sqcup Fails(f.header.count > Cardinality(DOMAIN Tags), "NOT_CANONICAL")
        n    == IF f.header.count < Len(f.sections) THEN f.header.count
                ELSE Len(f.sections)
        w    == FoldLeft(DecStep, [case |-> NewCase(f.header.cls), last |-> 0,
                                   have |-> {}, status |-> "OK"],
                         SubSeq(f.sections, 1, n))
    IN  IF head # "OK" THEN [status |-> head, case |-> NewCase("A")]
        ELSE [case   |-> w.case,
              status |-> w.status
                         \sqcup Fails(f.header.count > n, "TRUNCATED")
                         \sqcup Fails(n < Len(f.sections) \/ f.tail > 0, "TRAILING")
                         \sqcup Fails(~(Required \subseteq w.have), "MISSING")
                         \sqcup Validate(w.case)]
---------------------------------------------------------------------------
(* What decoding asks of the arena, in order, for a case it accepts: the   *)
(* table of allocations and their bytes, and for each node the node, the   *)
(* strings of a schema node, and the tables of its views and children.     *)

Table(n) == IF n = 0 THEN <<>>
            ELSE <<[size |-> n * ArenaUnit, align |-> ArenaUnit]>>
Bytes(n) == <<[size |-> n, align |-> 1]>>

DecRequests(c) ==
    LET strings(n) == FlattenSeq([k \in 1 .. n |-> Bytes(0)])
        pairs(n)   == IF n < 0 THEN <<>> ELSE Table(Max({n, 1})) \o strings(2 * n)
        fields(x)  == IF "pairs" \in DOMAIN x THEN strings(2) \o pairs(x.pairs)
                      ELSE Table(Len(x.views))
        tree(t)    == FlattenSeq([i \in DOMAIN t |->
                        Table(1) \o fields(t[i].info) \o Table(Len(ChildrenOf(t, i)))])
    IN  Table(IF c.allocs = <<>> THEN 1 ELSE Len(c.allocs))
        \o FlattenSeq([i \in DOMAIN c.allocs |-> Bytes(Len(c.allocs[i].bytes))])
        \o tree(c.schema) \o tree(c.array) \o Table(Len(c.ops))

DecArena(c) ==
    FoldLeft(LAMBDA a, r : ArenaAlloc(a, r.size, r.align), NewArena, DecRequests(c))
=============================================================================
