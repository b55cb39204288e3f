---------------------------- MODULE MCTransport ----------------------------
(* A small instance of BrokenCases, Corpus and Transport: arrays of at     *)
(* most two elements, blocks of eight bytes, bytes of two bits; the cases  *)
(* of every cell, the classes being scaled to bytes of two bits; and the   *)
(* cases written by hand.                                                  *)
EXTENDS BrokenCases

(* None, one, a byte and one more, and whole bytes. *)
MCLengths == [zero |-> 0, one |-> 1, small |-> 3, medium |-> 4]

(* None; one element, which is also a byte less one; a byte; one more. *)
MCOffsets == ("0" :> 0) @@ ("1" :> 1) @@ ("8" :> 2) @@ ("9" :> 3)

Node(format, length, offset, buffers, kids) ==
    [format |-> format, name |-> NoBuffer, flags |-> 0, skids |-> Len(kids), dict |-> FALSE,
     length |-> length, offset |-> offset, nulls |-> -1, nbuffers |-> BufferCount(format),
     buffers |-> buffers \o [i \in 1 .. 3 - Len(buffers) |-> NoBuffer],
     akids |-> Len(kids), kids |-> kids]

Cells(n, values) == {Buffer(c) : c \in [1 .. n -> values]}
Bitmaps(n) == {NoBuffer} \cup Cells(BitmapBits(n), {0, 1})

(* Every validity and every pair of values, sliced and not. *)
Ints ==
    UNION {{Node(I, w[1], w[2], <<v, d>>, <<>>) :
              v \in Bitmaps(w[1] + w[2]), d \in Cells(w[1] + w[2], {0, 1})} :
             w \in {<<0, 0>>, <<1, 0>>, <<0, 1>>, <<1, 1>>}}

(* Both zeros, infinity, a number and three NaNs; one of them null. *)
Floats ==
    {Node(G, 1, 0, <<NoBuffer, Buffer(<<v>>)>>, <<>>) : v \in {0, 8, 4, 1, 5, 6, 15}}
    \cup {Node(G, 1, 0, <<Buffer(<<0, 0>>), Buffer(<<v>>)>>, <<>>) : v \in {1, 5}}
    \cup {Node(L, 1, 0, <<NoBuffer, Buffer(<<v>>)>>, <<>>) : v \in {0, 1}}

(* Offsets that agree, overlap, go back, are negative or run too far. *)
Texts ==
    {Node(U, 1, 0, <<v, Buffer(o), t>>, <<>>) :
       v \in {NoBuffer, Buffer(<<0, 0>>)},
       o \in {<<0, 0>>, <<0, 1>>, <<1, 2>>, <<0, 2>>, <<1, 0>>, <<-1, 1>>, <<0, 15>>},
       t \in {Buffer(<<1, 2>>), Buffer(<<2, 1>>), NoBuffer}}
    \cup {Node(U, 1, 1, <<NoBuffer, Buffer(o), Buffer(<<1, 2>>)>>, <<>>) :
            o \in {<<0, 1, 2>>, <<0, 0, 2>>, <<0, 2, 1>>}}

Bools == {Node(B, 1, 0, <<NoBuffer, d>>, <<>>) : d \in Bitmaps(1)}

(* A window over a child that is long enough, too short or sliced itself. *)
Structs ==
    LET kid(n, o, cells) == Node(I, n, o, <<NoBuffer, Buffer(cells)>>, <<>>)
        kids == {kid(1, 0, <<0>>), kid(1, 0, <<1>>), kid(2, 0, <<0, 1>>), kid(2, 0, <<1, 0>>),
                 kid(2, 1, <<0, 0, 1>>), kid(1, 1, <<1, 1>>)}
    IN  {Node(S, 1, o, <<v>>, <<k>>) :
           o \in {0, 1}, k \in kids,
           v \in {NoBuffer, Buffer(<<1, 1>>), Buffer(<<1, 0>>), Buffer(<<0, 1>>)}}

(* One thing wrong, or one thing else, with an array that is well formed. *)
Odd ==
    LET x == Node(I, 1, 0, <<NoBuffer, Buffer(<<1>>)>>, <<>>)
        s == Node(S, 1, 0, <<NoBuffer>>, <<x>>)
    IN  {[x EXCEPT !.length = -1], [x EXCEPT !.offset = -1], [x EXCEPT !.dict = TRUE],
         [x EXCEPT !.format = <<110>>], [x EXCEPT !.nbuffers = 1], [x EXCEPT !.nbuffers = 3],
         [x EXCEPT !.name = Buffer(<<>>)], [x EXCEPT !.name = Buffer(<<97>>)],
         [x EXCEPT !.flags = 2], [x EXCEPT !.nulls = 0], [x EXCEPT !.buffers[2] = NoBuffer],
         [s EXCEPT !.skids = 0], [s EXCEPT !.kids = <<Missing>>],
         Node(S, 1, 0, <<NoBuffer>>, <<x, x>>), Node(S, 1, 0, <<NoBuffer>>, <<s>>),
         Node(S, 1, 0, <<NoBuffer>>, <<Node(S, 1, 0, <<NoBuffer>>, <<s>>)>>)}

(* What the cases written by hand hand over. *)
Broken == {c.array : c \in Range(CASES)}

MCArrays == Ints \cup Floats \cup Texts \cup Bools \cup Structs \cup Odd \cup Broken
=============================================================================
