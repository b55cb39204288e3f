------------------------------- MODULE Digest -------------------------------
(***************************************************************************)
(* The dual digest (libabi/src/digest.c) of an ArrowSchema and ArrowArray. *)
(* A node holds both structures' fields; its kids are what the two child   *)
(* tables point to.  A buffer is its cells: the bits of a bitmap, offsets, *)
(* bytes of text, or one cell per element.  A float64 is scaled to a sign, *)
(* an exponent and two mantissa bits: 0 .. 15.                             *)
(***************************************************************************)
EXTENDS Integers, Sequences, SequencesExt, Status, Sha256

CONSTANTS BitsPerByte,  \* 8 in the code
          MaxDepth,     \* ABI_LIMIT_TREE_DEPTH
          MaxNodes,     \* ABI_LIMIT_TREE_NODES
          MaxValues     \* ABI_LIMIT_ALLOC_BYTES

Buffer(cells) == [there |-> TRUE, cells |-> cells]
NoBuffer == [there |-> FALSE, cells |-> <<>>]
Missing == [missing |-> TRUE]         \* a NULL child

(* "i", "l", "g", "u", "b" and "+s", spelled as characters. *)
I == <<105>>
L == <<108>>
G == <<103>>
U == <<117>>
B == <<98>>
S == <<43, 115>>
Formats == {I, L, G, U, B, S}
BufferCount(format) == IF format = U THEN 3 ELSE IF format = S THEN 1 ELSE 2

---------------------------------------------------------------------------
(* What is put into a hash, piece by piece: an integer is one cell. *)

PutBytes(b) == IF b = <<>> THEN <<<<0>>>> ELSE <<<<Len(b)>>, b>>
PutName(name) == IF name.there THEN PutBytes(name.cells) ELSE <<<<-1>>>>

---------------------------------------------------------------------------
(* Buffers *)

Elements(x) == x.offset + x.length
BitmapBits(n) == BitsPerByte * ((n + BitsPerByte - 1) \div BitsPerByte)
LastOffset(x) == x.buffers[2].cells[Elements(x) + 1]

(* dig_buffer_len(): cells of the k-th buffer, which nobody transmits. *)
Extent(x, k) ==
    CASE k = 1 \/ x.format = B -> BitmapBits(Elements(x))
      [] k = 2 /\ x.format = U -> Elements(x) + 1
      [] k = 3 -> IF x.buffers[2].there THEN LastOffset(x) ELSE 0
      [] OTHER -> Elements(x)

BufferStatus(x, k) ==
    IF k > BufferCount(x.format) \/ ~x.buffers[k].there THEN "OK"
    ELSE Fails(k = 3 /\ x.buffers[2].there /\ LastOffset(x) \notin 0 .. MaxValues, "LIMIT")
         \sqcup Fails(Extent(x, k) > Len(x.buffers[k].cells), "FAULT")

BuffersStatus(x) == BufferStatus(x, 1) \sqcup BufferStatus(x, 2) \sqcup BufferStatus(x, 3)

PutBuffer(x, k) ==
    IF x.buffers[k].there
    THEN <<<<1>>>> \o PutBytes(SubSeq(x.buffers[k].cells, 1, Extent(x, k)))
    ELSE <<<<0>>>>

---------------------------------------------------------------------------
(* Slots *)

(* Both zeros are one value, and every NaN is. *)
Normal(x, v) ==
    IF x.format # G THEN v
    ELSE IF v % 8 = 0 THEN 0
    ELSE IF (v \div 4) % 2 = 1 /\ v % 4 # 0 THEN 6 ELSE v

(* A slip: the bitmap is read as if it were not sliced. *)
ValidUnsliced(x, p) ==
    x.buffers[1].there => x.buffers[1].cells[p - x.offset + 1] = 1

Valid(x, p) == x.buffers[1].there => x.buffers[1].cells[p + 1] = 1

ValuesLen(x) == IF x.buffers[3].there THEN Extent(x, 3) ELSE 0

SlotStatus(x, p) ==
    LET data == x.buffers[2]
    IN  Fails(x.buffers[1].there /\ p >= Len(x.buffers[1].cells), "FAULT")
        \sqcup IF x.format = S \/ ~Valid(x, p) THEN "OK"
               ELSE IF x.format = B THEN Fails(data.there /\ p >= Len(data.cells), "FAULT")
               ELSE IF x.format # U THEN Fails(p >= Len(data.cells), "FAULT")
               ELSE Fails(p + 1 >= Len(data.cells), "FAULT")
                    \sqcup Fails(\/ data.cells[p + 1] < 0
                                 \/ data.cells[p + 2] < data.cells[p + 1]
                                 \/ data.cells[p + 2] > ValuesLen(x), "INVALID")

PutSlot(x, p) ==
    LET data == x.buffers[2]
    IN  <<<<IF Valid(x, p) THEN 1 ELSE 0>>>>
        \o (IF x.format = S \/ ~Valid(x, p) THEN <<>>
            ELSE IF x.format = B
            THEN <<<<IF data.there THEN data.cells[p + 1] ELSE 0>>>>
            ELSE IF x.format # U THEN <<<<Normal(x, data.cells[p + 1])>>>>
            ELSE PutBytes(SubSeq(x.buffers[3].cells, data.cells[p + 1] + 1,
                                 data.cells[p + 2])))

---------------------------------------------------------------------------
(* The walk.  d holds the pieces put so far into the two hashes. *)

(* A slip: the window is compared with the buffers, not with the array. *)
EscapesBuffers(x, extra, count) == extra + count > Elements(x)

Escapes(x, extra, count) == extra < 0 \/ count < 0 \/ extra + count > x.length

NodeStatus(d, x, extra, count, depth) ==
    Fails(x = Missing, "INVALID")
    \sqcup Fails(depth > MaxDepth \/ d.nodes + 1 > MaxNodes, "LIMIT")
    \sqcup Fails(x.dict \/ x.format \notin Formats, "INVALID")
    \sqcup Fails(x.length < 0 \/ x.offset < 0, "INVALID")
    \sqcup Fails(x.nbuffers < BufferCount(x.format), "INVALID")
    \sqcup Fails(Escapes(x, extra, count), "INVALID")
    \sqcup BuffersStatus(x)
    \sqcup FirstOf([i \in 1 .. count |-> SlotStatus(x, x.offset + extra + i - 1)])

(* A slip: the offset is forgotten, the window being thought to say it. *)
PutPhysicalNoOffset(x) ==
    PutBytes(x.format) \o PutName(x.name)
    \o <<<<x.flags>>, <<x.length>>, <<x.nulls>>, <<x.nbuffers>>, <<x.akids>>>>
    \o FlattenSeq([k \in 1 .. BufferCount(x.format) |-> PutBuffer(x, k)])

PutPhysical(x) ==
    PutBytes(x.format) \o PutName(x.name)
    \o <<<<x.flags>>, <<x.length>>, <<x.nulls>>, <<x.offset>>, <<x.nbuffers>>, <<x.akids>>>>
    \o FlattenSeq([k \in 1 .. BufferCount(x.format) |-> PutBuffer(x, k)])

PutLogical(x, extra, count) ==
    PutBytes(x.format) \o <<<<count>>>>
    \o FlattenSeq([i \in 1 .. count |-> PutSlot(x, x.offset + extra + i - 1)])

(* The parent's window travels down: a child's own offset is added to it. *)
RECURSIVE DigNode(_, _, _, _, _)
DigNode(d, x, extra, count, depth) ==
    LET st   == NodeStatus(d, x, extra, count, depth)
        here == [nodes  |-> d.nodes + 1,
                 phys   |-> d.phys \o PutPhysical(x),
                 log    |-> d.log \o PutLogical(x, extra, count) \o <<<<x.akids>>>>,
                 status |-> Fails(x.skids # x.akids, "INVALID")]
        kid(k) == IF k <= Len(x.kids) THEN x.kids[k] ELSE Missing
    IN  IF d.status # "OK" THEN d
        ELSE IF st # "OK" THEN [d EXCEPT !.status = st]
        ELSE IF here.status # "OK" THEN here
        ELSE FoldLeft(LAMBDA e, k : DigNode(e, kid(k), x.offset + extra, count, depth + 1),
                      here, [k \in 1 .. x.akids |-> k])

(* The domain of each digest, and its version. *)
Domain(kind) == PutBytes(<<kind>>) \o <<<<1>>>>

Walk(x) ==
    DigNode([nodes |-> 0, phys |-> Domain(1), log |-> Domain(2), status |-> "OK"],
            x, 0, x.length, 0)

Hash(pieces) == Final(FoldLeft(Update, NewSha, pieces))

Digest(x) ==
    LET d == Walk(x)
    IN  IF d.status # "OK" THEN [status |-> d.status]
        ELSE [status |-> "OK", physical |-> Hash(d.phys), logical |-> Hash(d.log)]
=============================================================================
