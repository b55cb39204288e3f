----------------------------- MODULE Transport -----------------------------
(***************************************************************************)
(* Did the data survive?  A worker digests what it is about to hand over   *)
(* and what the consumer hands back (abi_worker_run_case(),                *)
(* abi_worker_digest_sent() and abi_worker_digest_received() in            *)
(* adapters/common/worker.c), and the report compares the two.  The faulty *)
(* worker's drop-offset mode does the consumer's part itself, and wrongly. *)
(***************************************************************************)
EXTENDS Digest

CONSTANTS Arrays,       \* what a case may describe and a consumer hand back
          CaseClasses   \* the classes of cases

VARIABLES faulty,                 \* whether this is the faulty worker
          cls, sent, received,    \* the case's class and the two arrays
          sentDigest, gotDigest,  \* what the line says of them, or "none"
          stage                   \* "read", "digested", "back", "compared"

vars == <<faulty, cls, sent, received, sentDigest, gotDigest, stage>>

None == [status |-> "none"]

Init ==
    /\ faulty \in BOOLEAN /\ cls \in CaseClasses /\ sent \in Arrays
    /\ received = Missing
    /\ sentDigest = None /\ gotDigest = None
    /\ stage = "read"

(* A slip: every case is digested. *)
DigestedAlways == TRUE

(* Only of classes that declare their buffers as they are: the digest      *)
(* trusts lengths and pointers as a consumer does.  The faulty worker does *)
(* not ask.                                                                *)
Digested == faulty \/ cls \in {"A", "B2"}

DigestSent ==
    /\ stage = "read"
    /\ sentDigest' = IF Digested THEN Digest(sent) ELSE [status |-> "not digested"]
    /\ stage' = "digested"
    /\ UNCHANGED <<faulty, cls, sent, received, gotDigest>>

(* The consumer, which may hand back nothing, or anything.                 *)
HandBack ==
    /\ stage = "digested" /\ ~faulty
    /\ received' \in Arrays \cup {Missing}
    /\ stage' = "back"
    /\ UNCHANGED <<faulty, cls, sent, sentDigest, gotDigest>>

(* The same buffers under every offset zeroed; a child that is not there   *)
(* stays away.                                                             *)
RECURSIVE NoOffsets(_)
NoOffsets(x) ==
    IF x = Missing THEN x
    ELSE [x EXCEPT !.offset = 0, !.kids = [k \in DOMAIN @ |-> NoOffsets(@[k])]]

DropOffset ==
    /\ stage = "digested" /\ faulty
    /\ received' = NoOffsets(sent)
    /\ stage' = "back"
    /\ UNCHANGED <<faulty, cls, sent, sentDigest, gotDigest>>

DigestReceived ==
    /\ stage = "back"
    /\ gotDigest' = IF received = Missing THEN None ELSE Digest(received)
    /\ stage' = "compared"
    /\ UNCHANGED <<faulty, cls, sent, received, sentDigest>>

Next == DigestSent \/ HandBack \/ DropOffset \/ DigestReceived

Spec == Init /\ [][Next]_vars

---------------------------------------------------------------------------
(* What an array says, whatever its layout: the reference. *)

SameFloat(v, w) ==
    LET zero(c) == c \in {0, 8}
        nan(c)  == c \in {5, 6, 7, 13, 14, 15}
    IN  v = w \/ (zero(v) /\ zero(w)) \/ (nan(v) /\ nan(w))

ValueAt(x, p) ==
    LET data == x.buffers[2]
        number(v) == IF x.format = G THEN {w \in 0 .. 15 : SameFloat(v, w)} ELSE {v}
        none == [null |-> FALSE, number |-> {}, text |-> <<>>]
    IN  IF x.buffers[1].there /\ x.buffers[1].cells[p + 1] = 0
        THEN [none EXCEPT !.null = TRUE]
        ELSE IF x.format = S THEN none
        ELSE IF x.format = U
        THEN [none EXCEPT !.text = [i \in 1 .. data.cells[p + 2] - data.cells[p + 1] |->
                                      x.buffers[3].cells[data.cells[p + 1] + i]]]
        ELSE [none EXCEPT !.number = IF data.there THEN number(data.cells[p + 1]) ELSE {0}]

(* The slots a walk comes by, in two parts.  Under a NULL slot of a struct  *)
(* there is no value (docs/digest.md, section 2), though the children have *)
(* slots there: void is where an ancestor is NULL.                         *)
RECURSIVE Values(_, _, _, _, _)
Values(x, from, count, void, below) ==
    LET slot(i) == ValueAt(x, from + i - 1)
        nulls   == {i \in 1 .. count : slot(i).null}
    IN  [format |-> x.format, length |-> count,
         slots  |-> [i \in IF below THEN void ELSE (1 .. count) \ void |-> slot(i)],
         kids   |-> [k \in 1 .. Len(x.kids) |->
                       Values(x.kids[k], from + x.kids[k].offset, count,
                              void \cup nulls, below)]]

ValuesOf(x)   == Values(x, x.offset, x.length, {}, FALSE)
BelowNulls(x) == Values(x, x.offset, x.length, {}, TRUE)

(* An array whose buffers are as long as its own length and offset ask.    *)
RECURSIVE Sound(_)
Sound(x) ==
    LET n == Elements(x)
        long(k, cells) == x.buffers[k].there => cells <= Len(x.buffers[k].cells)
    IN  /\ x.length >= 0 /\ x.offset >= 0 /\ x.format \in Formats
        /\ long(1, BitmapBits(n))
        /\ x.format \in {I, L, G} =>
             (x.length > 0 => x.buffers[2].there) /\ long(2, n)
        /\ x.format = B => long(2, BitmapBits(n))
        /\ x.format = U =>
             /\ x.length > 0 => x.buffers[2].there
             /\ long(2, n + 1)
             /\ x.buffers[2].there =>
                  LastOffset(x) > MaxValues \/ long(3, LastOffset(x))
        /\ \A k \in DOMAIN x.kids : x.kids[k] # Missing => Sound(x.kids[k])

Compared == stage = "compared" /\ sentDigest.status = "OK" /\ gotDigest.status = "OK"

(* Type correctness, with what the stage says of the two digests. *)
DigestStatuses == {"none", "not digested", "OK", "INVALID", "LIMIT", "FAULT"}

TypeOK ==
    /\ faulty \in BOOLEAN /\ cls \in CaseClasses /\ (~faulty => sent \in Arrays)
    /\ received \in (IF faulty THEN {Missing, NoOffsets(sent)} ELSE Arrays \cup {Missing})
    /\ {sentDigest.status, gotDigest.status} \subseteq DigestStatuses
    /\ stage = "read" => sentDigest = None
    /\ stage # "compared" => gotDigest = None
    /\ stage # "read" => ((sentDigest.status = "not digested") <=> ~faulty /\ cls \in {"B1", "C"})

(* The logical digests agree exactly when the types, the lengths, the      *)
(* validity and the values do, whatever the layout (docs/digest.md) - and, *)
(* against section 2 of that document, when what the children hold under a *)
(* NULL slot of a struct does: dig_node() walks them there as elsewhere,   *)
(* so a consumer that rewrites it is said to have changed the data.        *)
LogicalExact ==
    Compared => ((sentDigest.logical = gotDigest.logical)
                   <=> /\ ValuesOf(sent) = ValuesOf(received)
                       /\ BelowNulls(sent) = BelowNulls(received))

(* A layout that is reported as kept holds the data: the physical digest   *)
(* tells apart all that the logical one does.                              *)
PhysicalIsFiner ==
    Compared /\ sentDigest.physical = gotDigest.physical =>
        sentDigest.logical = gotDigest.logical

(* An array whose buffers are as long as it says is never read outside     *)
(* them, even when it is a child shorter than its parent needs.            *)
ReadsInside ==
    /\ sent # Missing => (Sound(sent) => sentDigest.status # "FAULT")
    /\ received # Missing => (Sound(received) => gotDigest.status # "FAULT")

(* The hash of the pieces is the hash of what they add up to.              *)
HashedWhole ==
    stage = "digested" /\ sentDigest.status = "OK" =>
        /\ sentDigest.physical = Padded(FlattenSeq(Walk(sent).phys))
        /\ sentDigest.logical = Padded(FlattenSeq(Walk(sent).log))
=============================================================================
