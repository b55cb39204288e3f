----------------------------- MODULE Sha256Proofs -----------------------------
(***************************************************************************)
(* The streaming hash keeps every byte, in order, whatever the pieces.     *)
(***************************************************************************)
EXTENDS Sha256, SequenceTheorems, TLAPS

\* What has been hashed and what waits for its block to fill.
Kept(s) == s.state \o s.block

Open(s, D) == s.state \in Seq(D) /\ s.block \in Seq(D) /\ Len(s.block) < Block

LEMMA WholeBlocks ==
  ASSUME NEW n \in Nat
  PROVE  Whole(n) \in Nat /\ Whole(n) <= n /\ n - Whole(n) < Block
<1>1. Block \in Nat /\ Block > 0
  BY Sha256Constants
<1>2. n \div Block \in Nat /\ n % Block \in 0 .. Block - 1
      /\ n = Block * (n \div Block) + (n % Block)
  BY <1>1
<1>3. (n \div Block) * Block = Block * (n \div Block)
  BY <1>1, <1>2
<1>4. Whole(n) \in Nat
  BY <1>1, <1>2 DEF Whole
<1> QED BY <1>1, <1>2, <1>3, <1>4 DEF Whole

\* A sequence cut in two and put together again.
LEMMA CutAndJoined ==
  ASSUME NEW D, NEW d \in Seq(D), NEW k \in 0 .. Len(d)
  PROVE  /\ SubSeq(d, 1, k) \in Seq(D) /\ Len(SubSeq(d, 1, k)) = k
         /\ SubSeq(d, k + 1, Len(d)) \in Seq(D)
         /\ Len(SubSeq(d, k + 1, Len(d))) = Len(d) - k
         /\ SubSeq(d, 1, k) \o SubSeq(d, k + 1, Len(d)) = d
<1>0. Len(d) \in Nat /\ k \in Nat /\ k <= Len(d)
  BY LenProperties
<1>1. SubSeq(d, 1, k) \in Seq(D) /\ Len(SubSeq(d, 1, k)) = k
  BY <1>0, SubSeqProperties
<1>2. /\ SubSeq(d, k + 1, Len(d)) \in Seq(D)
      /\ Len(SubSeq(d, k + 1, Len(d))) = Len(d) - k
  BY <1>0, SubSeqProperties
<1>3. 1 \in 1 .. Len(d) + 1 /\ k \in 1 - 1 .. Len(d) /\ Len(d) \in k .. Len(d)
  BY <1>0
<1>4. SubSeq(d, 1, k) \o SubSeq(d, k + 1, Len(d)) = SubSeq(d, 1, Len(d))
  BY <1>3, ConcatAdjacentSubSeq
<1>5. SubSeq(d, 1, Len(d)) = d
  BY SubSeqFull
<1> QED BY <1>1, <1>2, <1>4, <1>5, Zenon

\* A new hash holds nothing.
LEMMA NewIsOpen == ASSUME NEW D PROVE Open(NewSha, D) /\ Kept(NewSha) = <<>>
<1>1. <<>> \in Seq(D) /\ Len(<<>>) = 0
  BY EmptySeq
<1>2. <<>> \o <<>> = <<>>
  BY <1>1, ConcatEmptySeq
<1> QED BY <1>1, <1>2, Sha256Constants DEF Open, Kept, NewSha

\* A piece of any length: nothing is lost, repeated or reordered, what is compressed
\* is whole blocks, and the open block is never full.
THEOREM UpdateAppends ==
  ASSUME NEW D, NEW s, Open(s, D), NEW d \in Seq(D)
  PROVE  /\ Open(Update(s, d), D)
         /\ Kept(Update(s, d)) = Kept(s) \o d
         /\ Update(s, d).length = s.length + Len(d)
<1> DEFINE want  == Block - Len(s.block)
           take  == IF s.block = <<>> THEN 0 ELSE IF Len(d) < want THEN Len(d) ELSE want
           piece == SubSeq(d, 1, take)
           open  == s.block \o piece
           full  == Len(open) = Block
           rest  == SubSeq(d, take + 1, Len(d))
           whole == Whole(Len(rest))
           head  == SubSeq(rest, 1, whole)
           tail  == SubSeq(rest, whole + 1, Len(rest))
           t     == Update(s, d)
<1>0. /\ s.state \in Seq(D) /\ s.block \in Seq(D) /\ Len(s.block) \in Nat
      /\ Len(s.block) < Block /\ Len(d) \in Nat /\ Block \in Nat
  BY Sha256Constants, LenProperties DEF Open
<1>b. s.state \in Seq(D) /\ s.block \in Seq(D)
  BY DEF Open
<1>c. \A x, y, z \in Seq(D) : (x \o y) \o z = x \o (y \o z)
  BY ConcatAssociative
<1>a. s.block = <<>> <=> Len(s.block) = 0
  BY <1>0, EmptySeq
<1>1. /\ t.length = s.length + Len(d)
      /\ t.state = (s.state \o (IF full THEN open ELSE <<>>)) \o head
      /\ t.block = IF whole < Len(rest) THEN tail ELSE IF full THEN <<>> ELSE open
  BY DEF Update
<1> HIDE DEF t
<1>2. /\ take \in 0 .. Len(d)
      /\ s.block = <<>> => take = 0
      /\ s.block # <<>> => Len(s.block) + take <= Block
      /\ s.block # <<>> => take = Len(d) \/ Len(s.block) + take = Block
  BY <1>0, <1>a
<1> HIDE DEF take
<1>3. /\ piece \in Seq(D) /\ Len(piece) = take
      /\ rest \in Seq(D) /\ Len(rest) = Len(d) - take
      /\ piece \o rest = d
  BY <1>2, CutAndJoined
<1> HIDE DEF piece, rest
<1>d. piece \in Seq(D) /\ rest \in Seq(D) /\ piece \o rest = d
  BY <1>3
<1>4. open \in Seq(D) /\ Len(open) = Len(s.block) + take
  BY <1>0, <1>3, ConcatProperties
<1>5. s.block \o d = open \o rest
  BY <1>b, <1>c, <1>d, Zenon
<1>e. open \in Seq(D)
  BY <1>4
<1> HIDE DEF open
<1>6. Kept(s) \o d = (s.state \o open) \o rest
  <2>1. (s.state \o s.block) \o d = s.state \o (s.block \o d)
    BY <1>b, <1>c, Zenon
  <2>2. (s.state \o open) \o rest = s.state \o (open \o rest)
    <3>1. rest \in Seq(D)
      BY <1>d
    <3> QED BY <1>b, <1>c, <1>e, <3>1, Zenon
  <2> QED BY <1>5, <2>1, <2>2 DEF Kept
<1>7. /\ open = <<>> <=> Len(open) = 0
      /\ rest = <<>> <=> Len(rest) = 0
  BY <1>3, <1>4, EmptySeq
<1>8. Len(rest) \in Nat /\ Len(open) \in Nat /\ take \in Nat
  BY <1>3, <1>4, LenProperties, <1>0, <1>2
<1>9. whole \in 0 .. Len(rest) /\ Len(rest) - whole < Block
  BY <1>8, WholeBlocks
<1> HIDE DEF whole
<1>10. /\ head \in Seq(D) /\ tail \in Seq(D) /\ Len(tail) = Len(rest) - whole
       /\ Len(head) = whole /\ head \o tail = rest
  BY <1>3, <1>9, CutAndJoined
<1> HIDE DEF head, tail
<1>f. head \in Seq(D) /\ tail \in Seq(D) /\ head \o tail = rest
  BY <1>10
<1>11. /\ tail = <<>> <=> Len(tail) = 0
       /\ head = <<>> <=> Len(head) = 0
       /\ <<>> \in Seq(D)
  BY <1>10, EmptySeq
\* Either the block fills, or the piece ended in it, or there was none.
<1>12. Len(open) <= Block /\ (full \/ rest = <<>> \/ open = <<>>)
  <2>1. CASE s.block = <<>>
    BY <1>0, <1>a, <1>2, <1>4, <1>7, <2>1
  <2>2. CASE s.block # <<>> /\ take = Len(d)
    BY <1>0, <1>2, <1>3, <1>4, <1>7, <2>2
  <2>3. CASE s.block # <<>> /\ Len(s.block) + take = Block
    BY <1>2, <1>4, <2>3
  <2> QED BY <1>2, <2>1, <2>2, <2>3
<1>13. CASE full
  <2>1. t.state = (s.state \o open) \o head
    BY <1>1, <1>13
  <2>2. t.block = tail
    BY <1>1, <1>9, <1>10, <1>11, <1>8, <1>13
  <2>3. s.state \o open \in Seq(D)
    BY <1>0, <1>4, ConcatProperties
  <2>4. ((s.state \o open) \o head) \o tail = (s.state \o open) \o rest
    BY <1>c, <1>f, <2>3, Zenon
  <2>5. t.state \in Seq(D)
    BY <1>10, <2>1, <2>3, ConcatProperties
  <2>6. Open(t, D)
    BY <1>9, <1>10, <2>2, <2>5 DEF Open
  <2>7. Kept(t) = Kept(s) \o d
    BY <1>6, <2>1, <2>2, <2>4 DEF Kept
  <2> QED BY <1>1, <2>6, <2>7 DEF t
<1>14. CASE ~full /\ rest = <<>>
  <2>1. whole = 0 /\ Len(rest) = 0 /\ head = <<>>
    BY <1>7, <1>8, <1>9, <1>10, <1>11, <1>14
  <2>2. t.block = open
    BY <1>1, <1>14, <2>1
  <2>3. t.state = s.state
    <3>1. t.state = (s.state \o <<>>) \o <<>>
      BY <1>1, <1>14, <2>1
    <3>2. s.state \o <<>> = s.state
      BY <1>0, ConcatEmptySeq
    <3> QED BY <3>1, <3>2
  <2>4. (s.state \o open) \o rest = s.state \o open
    <3>1. s.state \o open \in Seq(D)
      BY <1>0, <1>4, ConcatProperties
    <3> QED BY <1>14, <3>1, ConcatEmptySeq
  <2>5. Kept(t) = Kept(s) \o d
    BY <1>6, <2>2, <2>3, <2>4 DEF Kept
  <2>6. Open(t, D)
    <3>1. Len(open) < Block
      BY <1>0, <1>8, <1>12, <1>14
    <3> QED BY <1>b, <1>e, <2>2, <2>3, <3>1 DEF Open
  <2> QED BY <1>1, <2>5, <2>6 DEF t
<1>15. CASE ~full /\ open = <<>>
  <2>1. t.block = tail
    BY <1>1, <1>8, <1>9, <1>10, <1>11, <1>15
  <2>2. s.state \o <<>> = s.state
    BY <1>0, ConcatEmptySeq
  <2>3. t.state = s.state \o head
    BY <1>1, <1>15, <2>2
  <2>4. (s.state \o head) \o tail = s.state \o rest
    BY <1>b, <1>c, <1>f, Zenon
  <2>5. Kept(t) = Kept(s) \o d
    BY <1>6, <1>15, <2>1, <2>2, <2>3, <2>4 DEF Kept
  <2>6. t.state \in Seq(D)
    BY <1>0, <1>10, <2>3, ConcatProperties
  <2>7. Open(t, D)
    BY <1>9, <1>10, <2>1, <2>6 DEF Open
  <2> QED BY <1>1, <2>5, <2>7 DEF t
<1> QED BY <1>12, <1>13, <1>14, <1>15
=============================================================================
