------------------------------- MODULE Sha256 -------------------------------
(***************************************************************************)
(* The streaming half of SHA-256 (libabi/src/sha256.c): how pieces of any  *)
(* length become whole blocks, and the padding of the last one.  The       *)
(* compression function is taken to tell every two sequences of blocks     *)
(* apart, so `state` is what has been compressed, byte by byte.            *)
(***************************************************************************)
EXTENDS Integers, Sequences

CONSTANTS Block,         \* bytes of a block (64 in the code)
          LengthBytes    \* bytes of the length field (8 in the code)

ASSUME Sha256Constants ==
    /\ Block \in Nat /\ LengthBytes \in Nat \ {0}
    /\ LengthBytes < Block

NewSha == [length |-> 0, state |-> <<>>, block |-> <<>>]

Whole(n) == (n \div Block) * Block

(* A slip: a block completed from pieces stays in the buffer. *)
UpdateKept(s, d) ==
    LET joined == s.block \o d
    IN  [length |-> s.length + Len(d),
         state  |-> s.state \o SubSeq(joined, 1, Whole(Len(joined))),
         block  |-> IF s.block # <<>> /\ Len(joined) = Block THEN joined
                    ELSE SubSeq(joined, Whole(Len(joined)) + 1, Len(joined))]

(* The open block first, as far as the piece goes; then whole blocks       *)
(* straight from the piece; what is left opens the next block.             *)
Update(s, d) ==
    LET want  == Block - Len(s.block)
        take  == IF s.block = <<>> THEN 0 ELSE IF Len(d) < want THEN Len(d) ELSE want
        open  == s.block \o SubSeq(d, 1, take)
        full  == Len(open) = Block
        rest  == SubSeq(d, take + 1, Len(d))
        whole == Whole(Len(rest))
    IN  [length |-> s.length + Len(d),
         state  |-> s.state \o (IF full THEN open ELSE <<>>) \o SubSeq(rest, 1, whole),
         block  |-> IF whole < Len(rest) THEN SubSeq(rest, whole + 1, Len(rest))
                    ELSE IF full THEN <<>> ELSE open]

(* The number of bits, big-endian, modulo the width of the field. *)
LengthField(bytes) ==
    [i \in 1 .. LengthBytes |-> ((8 * bytes) \div (256 ^ (LengthBytes - i))) % 256]

(* 0x80, zeros up to the field, and the field: in this block if it still   *)
(* fits, else in the next.                                                 *)
Pad(s) ==
    LET room   == Block - LengthBytes
        padlen == (IF Len(s.block) < room THEN room ELSE Block + room) - Len(s.block)
    IN  [i \in 1 .. padlen |-> IF i = 1 THEN 128 ELSE 0] \o LengthField(s.length)

Final(s) == Update(s, Pad(s)).state

(* FIPS 180-4, 5.1.1: the shortest padding that fills the last block. *)
Padded(msg) ==
    LET total(zeros) == Len(msg) + 1 + zeros + LengthBytes
        zeros == CHOOSE k \in 0 .. Block - 1 : total(k) % Block = 0
    IN  msg \o <<128>> \o [i \in 1 .. zeros |-> 0] \o LengthField(Len(msg))
=============================================================================
