-------------------------------- MODULE Fill --------------------------------
(***************************************************************************)
(* Payload encodings of an allocation (libabi/src/fill.c).  An encoded     *)
(* payload is [fill, unit, runs]: the bytes of RAW, the repeated unit of   *)
(* PATTERN, the <<length, value>> pairs of RLE.  Code words are counted in *)
(* bytes: a count costs Word of them (4 in the code), a run Word + 1.      *)
(***************************************************************************)
EXTENDS Naturals, Sequences, SequencesExt, Status

CONSTANTS Word,        \* bytes of a u32 count (4 in the code)
          MaxPeriod    \* ABI_LIMIT_PATTERN_PERIOD (256 in the code)

ASSUME FillConstants == Word \in Nat \ {0} /\ MaxPeriod \in Nat \ {0}

(* A slip: only the first repetition is compared. *)
PeriodicOnce(b, p) == \A i \in 1 .. p : b[i] = b[i + p]

Periodic(b, p) == \A i \in 1 .. Len(b) - p : b[i] = b[i + p]

LegalPeriods(size) ==
    {p \in 1 .. size \div 2 : p <= MaxPeriod /\ size % p = 0}

SmallestPeriod(b) ==
    LET ps == {p \in LegalPeriods(Len(b)) : Periodic(b, p)}
    IN  IF ps = {} THEN 0 ELSE Min(ps)

MaximalRuns(b) ==
    LET starts == SelectSeq([i \in DOMAIN b |-> i],
                            LAMBDA i : i = 1 \/ b[i] # b[i - 1])
        end(k)  == IF k = Len(starts) THEN Len(b) ELSE starts[k + 1] - 1
    IN  [k \in DOMAIN starts |-> <<end(k) - starts[k] + 1, b[starts[k]]>>]

ZeroFill == [fill |-> "ZERO", unit |-> <<>>, runs |-> <<>>]
RawFill(b) == [fill |-> "RAW", unit |-> b, runs |-> <<>>]
RleFill(rs) == [fill |-> "RLE", unit |-> <<>>, runs |-> rs]
PatternFill(u) == [fill |-> "PATTERN", unit |-> u, runs |-> <<>>]

(* RAW is tried first and wins every tie, then RLE, then PATTERN. *)
Candidates(b) ==
    <<[cost |-> Len(b), as |-> RawFill(b)],
      [cost |-> Word + Len(MaximalRuns(b)) * (Word + 1),
       as   |-> RleFill(MaximalRuns(b))]>>
    \o IF SmallestPeriod(b) = 0 THEN <<>>
       ELSE <<[cost |-> Word + SmallestPeriod(b),
               as   |-> PatternFill(SubSeq(b, 1, SmallestPeriod(b)))]>>

FillChoose(b) ==
    IF \A i \in DOMAIN b : b[i] = 0 THEN ZeroFill
    ELSE LET cs   == Candidates(b)
             best == Min({cs[i].cost : i \in DOMAIN cs})
         IN  cs[Min({i \in DOMAIN cs : cs[i].cost = best})].as

(* The structural rules of each encoding, before its bytes are compared    *)
(* with the canonical choice.                                              *)
FillShape(size, e) ==
    CASE e.fill = "ZERO" -> "OK"
      [] e.fill = "RAW" -> Fails(Len(e.unit) < size, "TRUNCATED")
      [] e.fill = "PATTERN" ->
           Fails(Len(e.unit) \notin LegalPeriods(size), "NOT_CANONICAL")
      [] e.fill = "RLE" ->
           Fails(\/ Len(e.runs) > size
                 \/ \E i \in DOMAIN e.runs : e.runs[i][1] = 0
                 \/ \E i \in 2 .. Len(e.runs) : e.runs[i][2] = e.runs[i - 1][2]
                 \/ FoldLeft(LAMBDA n, r : n + r[1], 0, e.runs) # size,
                 "NOT_CANONICAL")
      [] OTHER -> "BAD_ENUM"

Expand(size, e) ==
    CASE e.fill = "ZERO" -> [i \in 1 .. size |-> 0]
      [] e.fill = "RAW" -> e.unit
      [] e.fill = "PATTERN" -> [i \in 1 .. size |-> e.unit[1 + ((i - 1) % Len(e.unit))]]
      [] e.fill = "RLE" ->
           FlattenSeq([k \in DOMAIN e.runs |->
                         [i \in 1 .. e.runs[k][1] |-> e.runs[k][2]]])

(* Same code, same period, same number of runs as the canonical choice. *)
FillAgrees(size, e) ==
    LET canon == FillChoose(Expand(size, e))
    IN  /\ canon.fill = e.fill
        /\ e.fill = "PATTERN" => Len(canon.unit) = Len(e.unit)
        /\ e.fill = "RLE" => Len(canon.runs) = Len(e.runs)

(* A slip: the bytes are not compared with the canonical choice. *)
FillReadShape(size, e) == FillShape(size, e)

FillRead(size, e) ==
    FillShape(size, e) \sqcup Fails(~FillAgrees(size, e), "NOT_CANONICAL")
=============================================================================
