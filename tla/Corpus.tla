-------------------------------- MODULE Corpus --------------------------------
(***************************************************************************)
(* The bounded conformance model (tools/coverage_matrix.py) and the cases  *)
(* built for its cells (tools/gen_corpus.c), given to the faulty worker    *)
(* in its drop-offset mode, as check_digest_divergence.py does.            *)
(***************************************************************************)
EXTENDS Transport

CONSTANTS LengthValues,   \* of each length class; 0, 1, 9 and 1024 in the code
          OffsetValues    \* of each offset class; 0, 1, 7, 8 and 9

VARIABLES lines,   \* what the generator was asked for and has read
          seen,    \* what it has written
          outcome  \* "idle", "reading", "stopped" or "finished"

genVars == <<lines, seen, outcome>>

---------------------------------------------------------------------------
(* The model *)

Shifts == [natural |-> 0, plus1 |-> 1, plus4 |-> 4]

Tuples ==
    [type : {I, L, G, U, B}, length : DOMAIN LengthValues, offset : DOMAIN OffsetValues,
     nulls : {"none", "all", "alternating", "sparse"},
     buffers : {"normal", "empty", "omitted-validity", "aliased"},
     alignment : DOMAIN Shifts,
     lifecycle : {"direct", "moved", "streamed", "early-release", "EOF"}]

DataFree == {"early-release", "EOF"}

(* A slip: a single element is given every pattern there is. *)
AcceptedLoosely(c) ==
    /\ c.lifecycle \in DataFree =>
         /\ c.length = "zero" /\ c.offset = "0" /\ c.nulls = "none"
         /\ c.buffers = "normal" /\ c.alignment = "natural"
    /\ c.length = "zero" => c.nulls = "none"
    /\ c.buffers = "empty" =>
         c.length = "zero" /\ c.offset = "0" /\ c.alignment = "natural"
    /\ c.buffers = "omitted-validity" => c.nulls = "none"
    /\ c.buffers = "aliased" => c.length # "zero"

(* CONSTRAINTS. *)
Accepted(c) ==
    /\ c.lifecycle \in DataFree =>
         /\ c.length = "zero" /\ c.offset = "0" /\ c.nulls = "none"
         /\ c.buffers = "normal" /\ c.alignment = "natural"
    /\ c.length = "zero" => c.nulls = "none"
    /\ c.length = "one" => c.nulls \in {"none", "all"}
    /\ c.buffers = "empty" =>
         c.length = "zero" /\ c.offset = "0" /\ c.alignment = "natural"
    /\ c.buffers = "omitted-validity" => c.nulls = "none"
    /\ c.buffers = "aliased" => c.length # "zero"

Model == {c \in Tuples : Accepted(c)}

---------------------------------------------------------------------------
(* Values: p is a physical index, i a logical one. *)

LengthOf(c) == LengthValues[c.length]
OffsetOf(c) == OffsetValues[c.offset]
Inside(c, p) == p >= OffsetOf(c)

SlotIsNull(c, i) ==
    CASE c.nulls = "none" -> FALSE
      [] c.nulls = "all" -> TRUE
      [] c.nulls = "alternating" -> i % 2 = 0
      [] c.nulls = "sparse" -> i = LengthOf(c) - 1

NullCount(c) == Cardinality({i \in 0 .. LengthOf(c) - 1 : SlotIsNull(c, i)})

GenInt(c, p) == IF Inside(c, p) THEN 1000 + (p - OffsetOf(c)) ELSE -(p + 1)

(* -0.0 and a NaN first; below the window, negative numbers.               *)
GenFloat(c, p) ==
    IF ~Inside(c, p) THEN 9 + (p % 3)
    ELSE IF p = OffsetOf(c) THEN 8
    ELSE IF p = OffsetOf(c) + 1 THEN 5
    ELSE 1 + ((p - OffsetOf(c)) % 3)

GenBool(c, p) == Inside(c, p) /\ (p - OffsetOf(c)) % 3 # 0

(* A slip: the text below the window is that of its first slot. *)
GenStrSame(c, p) ==
    LET i == p - OffsetOf(c)
    IN  IF ~Inside(c, p) THEN <<97>>
        ELSE [k \in 1 .. (i % 3) + 1 |-> 97 + (i % 26)]

GenStr(c, p) ==
    LET i == p - OffsetOf(c)
    IN  IF ~Inside(c, p) THEN <<88>>
        ELSE [k \in 1 .. (i % 3) + 1 |-> 97 + (i % 26)]

---------------------------------------------------------------------------
(* Buffers: cells, and the bytes they take, at least one. *)

Count(c) == OffsetOf(c) + LengthOf(c)
Slots(c) == 0 .. Count(c) - 1
AtLeastOne(n) == IF n = 0 THEN 1 ELSE n

Bits(c, ones) ==
    LET bytes == AtLeastOne(BitmapBits(Count(c)) \div BitsPerByte)
    IN  [role |-> "bits", width |-> 1, size |-> bytes,
         cells |-> [k \in 1 .. bytes * BitsPerByte |-> IF k - 1 \in ones THEN 1 ELSE 0]]

Plain(role, width, cells) ==
    [role |-> role, width |-> width, size |-> AtLeastOne(width * Len(cells)), cells |-> cells]

(* What is below the window is valid, whatever the pattern. *)
Validity(c) ==
    Bits(c, {p \in Slots(c) : Inside(c, p) => ~SlotIsNull(c, p - OffsetOf(c))})

Strings(c) == [k \in 1 .. Count(c) |-> GenStr(c, k - 1)]
TextOffsets(c) ==
    [k \in 1 .. Count(c) + 1 |-> Len(FlattenSeq(SubSeq(Strings(c), 1, k - 1)))]

BuildBuffers(c) ==
    <<Validity(c)>>
    \o (IF c.type = U
        THEN LET text == FlattenSeq(Strings(c))
             IN  <<Plain("offsets", 4, TextOffsets(c)),
                   Plain("data", 1, IF text = <<>> THEN <<0>> ELSE text)>>
        ELSE IF c.type = B THEN <<Bits(c, {p \in Slots(c) : GenBool(c, p)})>>
        ELSE IF c.type = G THEN <<Plain("data", 8, [k \in 1 .. Count(c) |-> GenFloat(c, k - 1)])>>
        ELSE <<Plain("data", IF c.type = I THEN 4 ELSE 8,
                     [k \in 1 .. Count(c) |-> GenInt(c, k - 1)])>>)

---------------------------------------------------------------------------
(* Blocks and the views of them.  A block is its size; what is in it is    *)
(* what the views show. *)

RoundUp(v, to) == ((v + to - 1) \div to) * to

(* One block for all: each view at the next place natural for its width.   *)
Places(bufs) ==
    LET at[i \in DOMAIN bufs] ==
          RoundUp(IF i = 1 THEN 0 ELSE at[i - 1] + bufs[i - 1].size, bufs[i].width)
    IN  at

View(there, block, at, size, cells) ==
    [there |-> there, block |-> block, at |-> at, size |-> size, cells |-> cells]

Omitted == View(FALSE, 0, 0, 0, <<>>)

Aliased(bufs, shift) ==
    LET end == Places(bufs)[Len(bufs)] + bufs[Len(bufs)].size
    IN  [blocks |-> <<end + shift>>,
         views  |-> [i \in DOMAIN bufs |->
                       View(TRUE, 1, shift + Places(bufs)[i], bufs[i].size, bufs[i].cells)]]

(* A block each: shifted, or of no bytes at all.                           *)
Separate(bufs, shift, omitted, emptied) ==
    LET present == SelectSeq([i \in DOMAIN bufs |-> i], LAMBDA i : i # 1 \/ ~omitted)
        block(i) == CHOOSE k \in DOMAIN present : present[k] = i
    IN  [blocks |-> [k \in DOMAIN present |->
                       IF emptied[present[k]] THEN 0 ELSE bufs[present[k]].size + shift],
         views  |-> [i \in DOMAIN bufs |->
                       IF i = 1 /\ omitted THEN Omitted
                       ELSE IF emptied[i] THEN View(TRUE, block(i), 0, 0, <<>>)
                       ELSE View(TRUE, block(i), shift, bufs[i].size, bufs[i].cells)]]

(* A slip: every buffer is emptied, the mandatory first offset with them.  *)
EmptiedAll(c, buf) == c.buffers = "empty"

(* Offsets always have one entry more than there are elements.             *)
Emptied(c, buf) == c.buffers = "empty" /\ buf.role # "offsets"

AttachBuffers(c) ==
    LET bufs == BuildBuffers(c)
        shift == Shifts[c.alignment]
    IN  IF c.buffers = "aliased" THEN Aliased(bufs, shift)
        ELSE Separate(bufs, shift, c.buffers = "omitted-validity",
                      [i \in DOMAIN bufs |-> Emptied(c, bufs[i])])

---------------------------------------------------------------------------
(* The case *)

CallSeq ==
    [direct |-> <<"IMPORT_SCHEMA", "IMPORT_ARRAY", "RELEASE_BASE">>,
     moved |-> <<"MOVE_STRUCT", "IMPORT_SCHEMA", "IMPORT_ARRAY", "RELEASE_BASE">>,
     streamed |-> <<"STREAM_GET_SCHEMA", "STREAM_GET_NEXT", "STREAM_GET_NEXT",
                    "EXPECT_EOF", "RELEASE_BASE">>,
     EOF |-> <<"STREAM_GET_SCHEMA", "STREAM_GET_NEXT", "EXPECT_EOF", "RELEASE_BASE">>]
    @@ ("early-release" :> <<"STREAM_GET_SCHEMA", "RELEASE_BASE">>)

OutcomeOf(c) == IF OffsetOf(c) # 0 \/ Shifts[c.alignment] # 0 THEN "EITHER" ELSE "ACCEPT"

HasArray(c) == c.lifecycle \notin DataFree

(* The payload, from which the case's id is computed.  Nothing of the      *)
(* tuple is in it as such.                                                 *)
BuildCase(c) ==
    [outcome |-> OutcomeOf(c), format |-> c.type, ops |-> CallSeq[c.lifecycle],
     field |-> IF HasArray(c)
               THEN <<LengthOf(c), NullCount(c), OffsetOf(c), AttachBuffers(c)>> ELSE <<>>]

(* The field under a struct of one child, as its reconstruction has it.    *)
NodeOf(format, name, flags, length, offset, nulls, buffers, kids) ==
    [format |-> format, name |-> Buffer(name), flags |-> flags, skids |-> Len(kids),
     dict |-> FALSE, length |-> length, offset |-> offset, nulls |-> nulls,
     nbuffers |-> BufferCount(format),
     buffers |-> [i \in 1 .. 3 |-> IF i <= Len(buffers) THEN buffers[i] ELSE NoBuffer],
     akids |-> Len(kids), kids |-> kids]

ArrayOf(c) ==
    LET views == AttachBuffers(c).views
        cells == [i \in DOMAIN views |->
                    IF views[i].there THEN Buffer(views[i].cells) ELSE NoBuffer]
    IN  NodeOf(S, <<>>, 0, LengthOf(c), 0, 0, <<NoBuffer>>,
               <<NodeOf(c.type, <<102, 48>>, 2, LengthOf(c), OffsetOf(c), NullCount(c),
                        cells, <<>>)>>)

---------------------------------------------------------------------------
(* The generator *)

Unknown == [type |-> "unknown"]   \* a class the generator does not have

Idle == lines = <<>> /\ seen = {} /\ outcome = "idle"

CorpusInit ==
    \/ Init /\ Idle
    \/ /\ faulty = TRUE /\ cls = "A" /\ sent = Missing /\ received = Missing
       /\ sentDigest = None /\ gotDigest = None /\ stage = "generating"
       /\ lines = <<>> /\ seen = {} /\ outcome = "reading"

(* One line read, built and written.  A class it does not know, or an id   *)
(* it has written already, ends the run.  That the case encodes, and to    *)
(* the same bytes again, is CaseFile's RoundTrip and taken for granted.    *)
Emit ==
    /\ outcome = "reading" /\ Len(lines) < 2
    /\ \E c \in (IF lines = <<>> THEN Model ELSE {lines[1]}) \cup {Unknown} :
         /\ lines' = Append(lines, c)
         /\ IF c = Unknown \/ BuildCase(c) \in seen
            THEN outcome' = "stopped" /\ UNCHANGED seen
            ELSE seen' = seen \cup {BuildCase(c)} /\ UNCHANGED outcome
    /\ UNCHANGED vars

(* The corpus goes to the faulty worker, but for what hands over no array. *)
Finish ==
    /\ outcome = "reading" /\ outcome' = "finished"
    /\ \E c \in Range(lines) :
         HasArray(c) /\ sent' = ArrayOf(c) /\ stage' = "read"
    /\ UNCHANGED <<faulty, cls, received, sentDigest, gotDigest, lines, seen>>

Deliver == Next /\ UNCHANGED genVars

CorpusNext == Emit \/ Finish \/ Deliver

CorpusSpec == CorpusInit /\ [][CorpusNext]_<<vars, genVars>>

---------------------------------------------------------------------------
(* Properties *)

Payloads == {BuildCase(c) : c \in Model}

(* The generator never stops at a cell of the model: no two cells build    *)
(* the same case, though nothing of a cell is in its case as such.         *)
CellsDistinct == outcome = "reading" => Cardinality(Payloads) = Cardinality(Model)

Given == outcome = "finished"
Cell == lines[1]

(* coverage-matrix.md 1.5: every buffer is long enough for offset + length *)
(* elements, the views lie in their blocks, naturally placed but for the   *)
(* shift and apart from each other, and the digest finds nothing wrong.    *)
CasesSound ==
    Given =>
        LET bufs  == BuildBuffers(Cell)
            made  == AttachBuffers(Cell)
            there == {i \in DOMAIN bufs : made.views[i].there}
            v(i)  == made.views[i]
        IN  /\ Sound(sent)
            /\ \A i \in there : v(i).at + v(i).size <= made.blocks[v(i).block]
            /\ \A i \in there :
                 v(i).size > 0 => (v(i).at - Shifts[Cell.alignment]) % bufs[i].width = 0
            /\ \A i, j \in there :
                 i < j /\ v(i).block = v(j).block => v(i).at + v(i).size <= v(j).at
            /\ stage # "read" => sentDigest.status = "OK"

(* gen_corpus.c:24-27: a consumer that ignores the offset is seen to.  Only *)
(* what has no offset or no elements hides it, and a single valid boolean:  *)
(* its slot is false, and so is what lies below the window.  The layout is  *)
(* seen to change exactly when there is an offset to drop.                  *)
OffsetVisible ==
    Given /\ stage = "compared" =>
        /\ (sentDigest.logical = gotDigest.logical) <=>
             \/ Cell.offset = "0" \/ Cell.length = "zero"
             \/ Cell.type = B /\ Cell.length = "one" /\ Cell.nulls = "none"
        /\ (sentDigest.physical = gotDigest.physical) <=> Cell.offset = "0"
=============================================================================
