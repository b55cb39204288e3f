------------------------------ MODULE CaseFile ------------------------------
(***************************************************************************)
(* A case from its builders to a reader: it is built call by call          *)
(* (libabi/src/case.c), encoded, perhaps altered on the way by a writer    *)
(* that is not this encoder or by corruption, and decoded.                 *)
(***************************************************************************)
EXTENDS CaseFormat

CONSTANTS Builds,      \* the classes a case is built in
          Payloads,    \* the contents an allocation is given
          Codes,       \* the op codes a builder asks for
          Spans,       \* the <<offset, length>> of a view
          Declared,    \* the counts a builder declares
          MaxCalls     \* bound on builder calls

VARIABLES stage,    \* "build", then "refused" or "file", then "read"
          made,     \* the case under construction
          part,     \* builders are called part by part: the order is free in
                    \* the code, where it changes nothing but arena addresses
          calls,
          file,     \* what was written, as it reaches the reader
          altered,
          result    \* what abi_case_decode() answered

vars == <<stage, made, part, calls, file, altered, result>>

NoFile == [header |-> [magic |-> "none"], sections |-> <<>>, tail |-> 0]

Init ==
    /\ stage = "build"
    /\ \E cls \in Builds : made = NewCase(cls)
    /\ part = 0 /\ calls = 0
    /\ file = NoFile /\ altered = FALSE
    /\ result = [status |-> "none", case |-> NewCase("A")]

---------------------------------------------------------------------------
(* The builders.  A call that is refused, or changes nothing, is not shown. *)

(* abi_vec_grow(): a vector takes one more element while below its limit.  *)
Room(count, limit) == count < limit

Build(p, next) ==
    /\ stage = "build" /\ part <= p /\ calls < MaxCalls /\ next # made
    /\ part' = p /\ calls' = calls + 1
    /\ made' = next
    /\ UNCHANGED <<stage, file, altered, result>>

AddAllocation ==
    \E b \in Payloads, al \in Alignments :
        /\ Len(b) <= AllocBytes
        /\ Room(Len(made.allocs), AllocCount)
        /\ Build(1, [made EXCEPT !.allocs = Append(@, [align |-> al, bytes |-> b])])

(* The places where the next node of a walk may go: below a node that is   *)
(* still open, as a child, or once as its dictionary.                      *)
Places(t) ==
    IF t = <<>> THEN {[depth |-> 0, dict |-> FALSE]}
    ELSE {[depth |-> d, dict |-> dict] : d \in 1 .. Last(t).depth + 1, dict \in BOOLEAN}

ParentOfPlace(t, place) ==
    LET above == {k \in DOMAIN t : t[k].depth = place.depth - 1}
    IN  IF above = {} THEN 0 ELSE Max(above)

(* add_child() makes the declared count follow the provided one;           *)
(* set_dictionary() does not.                                              *)
Attach(t, place, info) ==
    LET p == ParentOfPlace(t, place)
        grown == IF p = 0 \/ place.dict THEN t
                 ELSE [t EXCEPT ![p].info.declared = Len(ChildrenOf(t, p)) + 1]
    IN  Append(grown, [depth |-> place.depth, dict |-> place.dict, info |-> info])

Attachable(t, place) ==
    LET p == ParentOfPlace(t, place)
    IN  p # 0 => /\ DictionaryOf(t, p) = {}
                 /\ Room(Len(ChildrenOf(t, p)), TreeNodes)

AddSchemaNode ==
    \E place \in Places(made.schema) :
        /\ Attachable(made.schema, place)
        /\ Build(2, [made EXCEPT !.schema =
                       Attach(@, place, [name |-> FALSE, pairs |-> -1, declared |-> 0])])

EditSchema(info) ==
    made.schema # <<>> /\
    Build(2, [made EXCEPT !.schema[Len(made.schema)].info = info])

(* A name set and cleared again is the absent name: has_name says which.   *)
SetName ==
    made.schema # <<>> /\
    EditSchema([Last(made.schema).info EXCEPT !.name = ~@])

SetMetadataPresent ==
    /\ made.schema # <<>> /\ Last(made.schema).info.pairs = -1
    /\ EditSchema([Last(made.schema).info EXCEPT !.pairs = 0])

AddMetadata ==
    /\ made.schema # <<>>
    /\ LET pairs == Last(made.schema).info.pairs
           count == IF pairs = -1 THEN 0 ELSE pairs
       IN  /\ Room(count, TreeNodes)
           /\ EditSchema([Last(made.schema).info EXCEPT !.pairs = count + 1])

DeclareSchemaChildren ==
    /\ made.schema # <<>>
    /\ \E n \in Declared : EditSchema([Last(made.schema).info EXCEPT !.declared = n])

AddArrayNode ==
    \E place \in Places(made.array) :
        /\ Attachable(made.array, place)
        /\ Build(3, [made EXCEPT !.array =
                       Attach(@, place, [views |-> <<>>, nbuffers |-> 0, declared |-> 0])])

EditArray(info) ==
    made.array # <<>> /\
    Build(3, [made EXCEPT !.array[Len(made.array)].info = info])

PushBuffer(view) ==
    LET info == Last(made.array).info
    IN  /\ Room(Len(info.views), TreeNodes)
        /\ EditArray([info EXCEPT !.views = Append(@, view),
                                  !.nbuffers = Len(info.views) + 1])

AddBuffer ==
    /\ made.array # <<>>
    /\ \E al \in 0 .. Len(made.allocs), span \in Spans :
         PushBuffer([present |-> TRUE, alloc |-> al, off |-> span[1], len |-> span[2]])

AddNullBuffer == made.array # <<>> /\ PushBuffer(AbsentView)

DeclareBuffers ==
    /\ made.array # <<>>
    /\ \E n \in Declared : EditArray([Last(made.array).info EXCEPT !.nbuffers = n])

AddOp ==
    \E code \in Codes, arg0 \in {0, 1} :
        /\ code <= OpMax
        /\ Room(Len(made.ops), OpCount)
        /\ Build(4, [made EXCEPT !.ops = Append(@, [code |-> code, arg0 |-> arg0, arg1 |-> 0])])

SetExpected == Build(5, [made EXCEPT !.outcome = 0])

(* A slip: the file is written before the status is looked at. *)
WriteAnyway ==
    /\ stage = "build"
    /\ stage' = IF EncodeStatus(made) = "OK" THEN "file" ELSE "refused"
    /\ file' = IF made.schema = <<>> THEN NoFile ELSE Encode(made)
    /\ result' = [result EXCEPT !.status = EncodeStatus(made)]
    /\ UNCHANGED <<made, part, calls, altered>>

(* abi_case_write_file(): nothing is written for a case the encoder refuses. *)
WriteFile ==
    /\ stage = "build"
    /\ LET st == EncodeStatus(made)
       IN  /\ stage' = IF st = "OK" THEN "file" ELSE "refused"
           /\ file' = IF st = "OK" THEN Encode(made) ELSE NoFile
           /\ result' = [result EXCEPT !.status = st]
    /\ UNCHANGED <<made, part, calls, altered>>

---------------------------------------------------------------------------
(* What may reach a reader instead.  The alterations are bounded to one.   *)

(* Other encodings of the same bytes, and malformed ones.                  *)
OtherPayloads(size, e) ==
    LET b  == Expand(size, e)
        rs == MaximalRuns(b)
    IN  {RawFill(b), ZeroFill, RleFill(rs), RleFill(<<>>)}
        \cup {PatternFill(SubSeq(b, 1, p)) : p \in 0 .. size}
        \cup (IF rs = <<>> THEN {}
              ELSE {RleFill(<<<<k, rs[1][2]>>, <<rs[1][1] - k, rs[1][2]>>>> \o Tail(rs))
                      : k \in 0 .. rs[1][1]})

AlteredInfo(info) ==
    {[info EXCEPT !.declared = @ + 1]}
    \cup (IF Views(info) = <<>> THEN {}
          ELSE {[info EXCEPT !.views[1].off = @ + 1], [info EXCEPT !.views[1].len = @ + 1],
                [info EXCEPT !.views[1].alloc = @ + 1], [info EXCEPT !.nbuffers = @ + 1]})
    \cup (IF "pairs" \in DOMAIN info THEN {[info EXCEPT !.pairs = TreeNodes + 1]} ELSE {})

AlteredToken(x) ==
    LET has(field) == field \in DOMAIN x
    IN  (IF has("reserved") THEN {[x EXCEPT !.reserved = 1]} ELSE {})
        \cup (IF has("flag") THEN {[x EXCEPT !.flag = n] : n \in 0 .. 2} ELSE {})
        \cup (IF has("info") THEN {[x EXCEPT !.kids = @ + 1]}
                                  \cup {[x EXCEPT !.info = i] : i \in AlteredInfo(x.info)}
              ELSE {})
        \cup (IF has("payload")
              THEN {[x EXCEPT !.size = @ + 1], [x EXCEPT !.align = 3]}
                   \cup {[x EXCEPT !.payload = e] : e \in OtherPayloads(x.size, x.payload)}
              ELSE {})
        \cup (IF has("outcome") THEN {[x EXCEPT !.outcome = 4]} ELSE {})
        \cup (IF has("code") THEN {[x EXCEPT !.code = OpMax + 1], [x EXCEPT !.arg1 = 1]}
              ELSE {})

AlteredSection(s) ==
    {[s EXCEPT !.version = 2], [s EXCEPT !.tag = 9], [s EXCEPT !.unread = 1]}
    \cup (IF s.tag \notin Counted THEN {}
          ELSE {[s EXCEPT !.count = @ + 1], [s EXCEPT !.count = 0]})
    \cup (IF s.body = <<>> THEN {}
          ELSE {[s EXCEPT !.body = Front(@)], [s EXCEPT !.body = Append(@, Last(@))]})
    \cup UNION {{[s EXCEPT !.body[j] = x] : x \in AlteredToken(s.body[j])}
                  : j \in DOMAIN s.body}

(* Another writer, which seals what it wrote. *)
Foreign ==
    LET ss == file.sections
        writes(cls, new, tail) == file' = Sealed(cls, new, tail)
        keeps(new) == writes(file.header.cls, new, 0)
    IN  \/ \E i \in DOMAIN ss : keeps(RemoveAt(ss, i)) \/ keeps(InsertAt(ss, i, ss[i]))
        \/ \E i \in 1 .. Len(ss) - 1 : keeps([ss EXCEPT ![i] = ss[i + 1], ![i + 1] = ss[i]])
        \/ \E i \in DOMAIN ss : \E s \in AlteredSection(ss[i]) : keeps([ss EXCEPT ![i] = s])
        \/ writes(file.header.cls, ss, 1)
        \/ \E cls \in Classes \cup {"D"} : writes(cls, ss, 0)

(* Bytes changed under a seal that still tells of the old ones. *)
Corrupted ==
    \/ \E h \in {[file.header EXCEPT !.magic = "ABID"], [file.header EXCEPT !.version = 2],
                 [file.header EXCEPT !.bom = "big"], [file.header EXCEPT !.reserved = 1],
                 [file.header EXCEPT !.count = @ + 1], [file.header EXCEPT !.count = @ - 1],
                 [file.header EXCEPT !.total = @ + 1], [file.header EXCEPT !.total = @ - 1]} :
         file' = [file EXCEPT !.header = h]
    \/ file' = [file EXCEPT !.tail = 1]
    \/ \E i \in DOMAIN file.sections : file' = [file EXCEPT !.sections[i].version = 2]
    \/ file' = [file EXCEPT !.sections[Len(file.sections)].body[1].outcome = 1]

Alter ==
    /\ stage = "file" /\ ~altered
    /\ Foreign \/ Corrupted
    /\ file' # file
    /\ altered' = TRUE
    /\ UNCHANGED <<stage, made, part, calls, result>>

ReadFile ==
    /\ stage = "file"
    /\ result' = Decode(file)
    /\ stage' = "read"
    /\ UNCHANGED <<made, part, calls, file, altered>>

(* abicase verify: what file f was read as, r, encoded again and compared   *)
(* with it.                                                                *)
Verify(f, r) ==
    IF r.status # "OK" \/ EncodeStatus(r.case) # "OK" THEN "error"
    ELSE IF Encode(r.case) = f THEN "ok" ELSE "FAIL"

Next ==
    \/ AddAllocation \/ AddSchemaNode \/ SetName \/ SetMetadataPresent \/ AddMetadata
    \/ DeclareSchemaChildren \/ AddArrayNode \/ AddBuffer \/ AddNullBuffer
    \/ DeclareBuffers \/ AddOp \/ SetExpected
    \/ WriteFile \/ Alter \/ ReadFile

Spec == Init /\ [][Next]_vars

---------------------------------------------------------------------------
(* Type correctness: the stage tells which of file and result there are.   *)
Statuses == {"OK", "INVALID", "NOT_CANONICAL", "LIMIT", "BAD_REFERENCE", "BAD_ENUM",
             "BAD_MAGIC", "BAD_VERSION", "BAD_BYTE_ORDER", "TRUNCATED", "TRAILING",
             "DIGEST_MISMATCH", "CLASS_RULE", "MISSING"}

TypeOK ==
    /\ stage \in {"build", "refused", "file", "read"}
    /\ made.cls \in Classes
    /\ part \in 0 .. 5 /\ calls \in 0 .. MaxCalls
    /\ altered => stage \in {"file", "read"}
    /\ (file = NoFile) <=> (stage \in {"build", "refused"})
    /\ result.status \in Statuses \cup {"none"}
    /\ (result.status = "none") => (stage \in {"build", "file"})

(* The decoder counts what the builders and the encoder do not: the views  *)
(* of a whole array tree.                                                  *)
OverBudget(c) ==
    FoldLeft(LAMBDA n, x : n + Len(x.info.views), 0, c.array) > TreeNodes

(* decode.c, encode.c: a file has exactly one form.  Whoever wrote it, an  *)
(* accepted file is the one this encoder writes for what it holds: abicase *)
(* verify neither fails to encode it again nor finds a difference.         *)
Canonical == stage = "read" /\ result.status = "OK" => Verify(file, result) = "ok"

(* What is written is read back: the same case, unless its views exceed    *)
(* the decoder's total budget.                                             *)
RoundTrip ==
    stage = "read" /\ ~altered /\ ~OverBudget(made) =>
        result = [status |-> "OK", case |-> made]

(* A case the decoder accepts can be built: every view lies inside its     *)
(* block, and in the classes whose counts are kept every declared slot of  *)
(* both trees is filled and the trees have one shape (reconstruct.c walks  *)
(* them together and sizes its tables by the declared counts).             *)
Buildable ==
    stage = "read" /\ result.status = "OK" =>
        LET c == result.case
        IN  /\ \A t \in {c.schema, c.array} :
                 /\ Len(t) <= TreeNodes
                 /\ \A i \in DOMAIN t : t[i].depth <= TreeDepth
            /\ \A i \in DOMAIN c.array, k \in 1 .. TreeNodes :
                 LET vs == c.array[i].info.views
                 IN  k <= Len(vs) /\ vs[k].present =>
                       /\ vs[k].alloc < Len(c.allocs)
                       /\ vs[k].off + vs[k].len <= Len(c.allocs[vs[k].alloc + 1].bytes)
            /\ ConsistentCounts(c.cls) =>
                 /\ \A i \in DOMAIN c.array :
                      /\ c.array[i].info.nbuffers = Len(c.array[i].info.views)
                      /\ c.array[i].info.declared = Len(ChildrenOf(c.array, i))
                 /\ \A i \in DOMAIN c.schema :
                      c.schema[i].info.declared = Len(ChildrenOf(c.schema, i))
                 /\ c.array # <<>> =>
                      /\ Len(c.array) = Len(c.schema)
                      /\ \A i \in DOMAIN c.array :
                           /\ Parent(c.array, i) = Parent(c.schema, i)
                           /\ c.array[i].dict = c.schema[i].dict

(* The blocks a decoded case lives in are disjoint, aligned, inside their  *)
(* chunks, and as many as were asked for (arena.c).                        *)
ArenaSound ==
    stage = "read" /\ result.status = "OK" =>
        LET a == DecArena(result.case)
            chunk(b) == a.chunks[Len(a.chunks) + 1 - b.chunk]
        IN  /\ Cardinality(a.blocks) = Len(DecRequests(result.case))
            /\ \A b \in a.blocks :
                 /\ b.off % b.align = 0
                 /\ b.off + b.size <= chunk(b).used /\ chunk(b).used <= chunk(b).cap
                 /\ \A d \in a.blocks \ {b} :
                      d.chunk = b.chunk => \/ d.off + d.size <= b.off
                                           \/ b.off + b.size <= d.off

(* encode.c: "The encoder must never produce a file its own decoder        *)
(* rejects."                                                               *)
EncoderNeverEmitsUnreadable ==
    stage = "read" /\ ~altered => result.status = "OK"
=============================================================================
