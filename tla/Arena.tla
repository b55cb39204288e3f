------------------------------- MODULE Arena --------------------------------
(***************************************************************************)
(* The bump allocator every case lives in (libabi/src/arena.c).  An arena  *)
(* is a sequence of chunks, newest first, and the blocks handed out of     *)
(* them as [chunk, off, size, align]; a chunk is identified by its age.    *)
(***************************************************************************)
EXTENDS Naturals, Sequences

CONSTANT MinChunk      \* ABI_ARENA_MIN_CHUNK (4096 in the code)

ASSUME ArenaConstants == MinChunk \in Nat \ {0}

NewArena == [chunks |-> <<>>, blocks |-> {}]

(* A slip: rounding down. *)
AlignDown(n, align) == (n \div align) * align

AlignUp(n, align) == ((n + align - 1) \div align) * align

(* The smallest doubling of the minimum chunk that holds `want` bytes. *)
ChunkFor(want) ==
    LET cap[k \in 0 .. want] == IF k = 0 THEN MinChunk ELSE 2 * cap[k - 1]
        enough == {k \in 0 .. want : cap[k] >= want}
    IN  cap[CHOOSE k \in enough : \A j \in enough : k <= j]

(* A request of no bytes still gets an address of its own.  A new chunk is *)
(* taken when the newest cannot hold the aligned request; what is left of  *)
(* the older ones is never used again.                                     *)
ArenaAlloc(a, request, align) ==
    LET size == IF request = 0 THEN 1 ELSE request
        head == a.chunks[1]
        off  == AlignUp(head.used, align)
        fits == a.chunks # <<>> /\ off <= head.cap /\ size <= head.cap - off
    IN  IF fits
        THEN [chunks |-> <<[head EXCEPT !.used = off + size]>> \o Tail(a.chunks),
              blocks |-> a.blocks \cup {[chunk |-> Len(a.chunks), off |-> off,
                                         size |-> size, align |-> align]}]
        ELSE [chunks |-> <<[cap |-> ChunkFor(size + align), used |-> size]>>
                           \o a.chunks,
              blocks |-> a.blocks \cup {[chunk |-> Len(a.chunks) + 1, off |-> 0,
                                         size |-> size, align |-> align]}]
=============================================================================
