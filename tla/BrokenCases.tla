----------------------------- MODULE BrokenCases ------------------------------
(***************************************************************************)
(* Corpus B1 (tools/gen_b1.c): cases written by hand, each with one thing  *)
(* wrong and the clause of the specification it breaks beside it; and the  *)
(* shipped worker they are given to, as check_b1.py does.                  *)
(***************************************************************************)
EXTENDS Corpus

CONSTANTS Int32Max,    \* 2^31 - 1 in the code
          FarOffset    \* 50 in the code: an offset past the values

ASSUME BrokenAssumption == Int32Max \in Nat /\ Int32Max > 4 /\ FarOffset \in Nat

VARIABLES rows,     \* the manifest
          stored,   \* the case files
          writer    \* "idle", "writing", "stopped" or "given"

brokenVars == <<rows, stored, writer>>

---------------------------------------------------------------------------
(* The cases.  One field, f0, under a struct of as many rows. *)

Shell(format, length, level, expects, clause) ==
    [level |-> level, expected |-> expects, clause |-> clause,
     values |-> Missing,     \* the field's dictionary
     root |-> [format |-> format, length |-> length]]

(* The field attached, and the call sequence every case has. *)
FinishShell(s, nulls, buffers) ==
    [level |-> s.level, expected |-> s.expected, clause |-> s.clause, values |-> s.values,
     ops |-> CallSeq["direct"],
     array |-> NodeOf(S, <<>>, 0, s.root.length, 0, 0, <<NoBuffer>>,
                      <<NodeOf(s.root.format, <<102, 48>>, 2, s.root.length, 0, nulls,
                               buffers, <<>>)>>)]

Numbers == Buffer(<<1, 2, 3, 4>>)
Characters(n) == Buffer([i \in 1 .. n |-> 96 + i])

ValidityAbsentWithNulls ==
    FinishShell(Shell(I, 4, "minimal", "REJECT", "cdi-null-buffers"), 1,
                <<NoBuffer, Numbers>>)

DataBufferNull ==
    FinishShell(Shell(I, 4, "minimal", "REJECT", "cdi-null-buffers"), 0,
                <<NoBuffer, NoBuffer>>)

(* A slip: declared first, and reset when the field is added. *)
ChildrenDeclaredFirst ==
    FinishShell(Shell(I, 4, "minimal", "REJECT", "cdi-children"), 0, <<NoBuffer, Numbers>>)

(* Declared after the field is added, which would reset it. *)
ChildrenFewerThanDeclared ==
    LET c == FinishShell(Shell(I, 4, "minimal", "REJECT", "cdi-children"), 0,
                         <<NoBuffer, Numbers>>)
    IN  [c EXCEPT !.array.akids = 2]

(* The second and the fourth are valid, so two are null. *)
NullCountDisagrees ==
    FinishShell(Shell(I, 4, "full", "REJECT", "cdi-null-count"), 1,
                <<Buffer([i \in 1 .. BitmapBits(4) |-> IF i \in {2, 4} THEN 1 ELSE 0]),
                  Numbers>>)

OffsetsDecreasing ==
    FinishShell(Shell(U, 3, "full", "REJECT", "col-offsets-monotonic"), 0,
                <<NoBuffer, Buffer(<<0, 3, 1, 4>>), Characters(4)>>)

(* abi_fixture_bad_dict_index(), under this corpus's clause and level. *)
DictionaryIndexOutOfRange ==
    LET index == NodeOf(<<99>>, <<100>>, 0, 4, 0, 0,
                        <<NoBuffer, Buffer(<<0, 1, 99, 0>>)>>, <<>>)
    IN  [level |-> "full", expected |-> "REJECT", clause |-> "col-dictionary-indices",
         ops |-> <<>>,
         values |-> NodeOf(U, <<>>, 0, 2, 0, 0,
                           <<NoBuffer, Buffer(<<0, 2, 4>>), Buffer(<<97, 97, 98, 98>>)>>, <<>>),
         array |-> NodeOf(S, <<>>, 0, 4, 0, 0, <<NoBuffer>>, <<[index EXCEPT !.dict = TRUE]>>)]

DataBufferTooSmall ==
    FinishShell(Shell(I, 4, "none", "UNSPECIFIED", "cdi-buffer-size"), 0,
                <<NoBuffer, Buffer(<<>>)>>)

OffsetsBufferEmpty ==
    FinishShell(Shell(U, 0, "none", "UNSPECIFIED", "col-offsets-length"), 0,
                <<NoBuffer, Buffer(<<>>), Buffer(<<>>)>>)

LastOffsetBeyondValues ==
    FinishShell(Shell(U, 3, "none", "UNSPECIFIED", "cdi-buffer-size"), 0,
                <<NoBuffer, Buffer(<<0, 1, 2, FarOffset>>), Characters(3)>>)

LengthBeyondInt32 ==
    FinishShell(Shell(I, Int32Max + 1, "none", "UNSPECIFIED", "cdi-buffer-size"), 0,
                <<NoBuffer, Numbers>>)

CASES ==
    <<ValidityAbsentWithNulls, DataBufferNull, ChildrenFewerThanDeclared,
      NullCountDisagrees, OffsetsDecreasing, DictionaryIndexOutOfRange,
      DataBufferTooSmall, OffsetsBufferEmpty, LastOffsetBeyondValues, LengthBeyondInt32>>

---------------------------------------------------------------------------
(* The generator *)

BrokenInit ==
    /\ rows = <<>> /\ stored = <<>>
    /\ \/ CorpusInit /\ writer = "idle"
       \/ /\ faulty = TRUE /\ cls = "B1" /\ sent = Missing /\ received = Missing
          /\ sentDigest = None /\ gotDigest = None /\ stage = "generating"
          /\ Idle /\ writer = "writing"

(* One case built, its file written, its id computed and its row added.    *)
(* The first failure ends the run, and the manifest where it is.           *)
WriteCase ==
    /\ writer = "writing" /\ Len(rows) < Len(CASES)
    /\ LET c == CASES[Len(rows) + 1]
       IN  \/ writer' = "stopped" /\ UNCHANGED <<rows, stored>>
           \/ writer' = "stopped" /\ stored' = Append(stored, c) /\ UNCHANGED rows
           \/ /\ stored' = Append(stored, c)
              /\ rows' = Append(rows, [expected |-> c.expected, level |-> c.level,
                                       clause |-> c.clause])
              /\ UNCHANGED writer
    /\ UNCHANGED <<vars, genVars>>

(* The cases go to a shipped worker. *)
GiveCases ==
    /\ writer = "writing" /\ Len(rows) = Len(CASES)
    /\ writer' = "given"
    /\ \E c \in Range(stored) : sent' = c.array
    /\ faulty' = FALSE /\ stage' = "read"
    /\ UNCHANGED <<cls, received, sentDigest, gotDigest, genVars, rows, stored>>

BrokenNext ==
    \/ CorpusNext /\ UNCHANGED brokenVars
    \/ WriteCase
    \/ GiveCases

BrokenSpec == BrokenInit /\ [][BrokenNext]_<<vars, genVars, brokenVars>>

---------------------------------------------------------------------------
(* What is wrong with a case: the clauses of docs/spec-citations.md *)

(* A consumer knows no sizes: it takes a buffer to go on as far as the     *)
(* array needs it to.                                                      *)
Long(cells, n) == cells \o [i \in 1 .. n - Len(cells) |-> 0]
Taken(x) ==
    LET grown(y, k) == IF y.buffers[k].there
                       THEN [y EXCEPT !.buffers[k].cells = Long(@, Extent(y, k))] ELSE y
    IN  IF x.format = U THEN grown(grown(grown(x, 1), 2), 3) ELSE grown(grown(x, 1), 2)

Field(c) == c.array.kids[1]
Present(x) == {k \in 1 .. BufferCount(x.format) : x.buffers[k].there}

(* What can be told of a field that is what it looks like. *)
BrokenToSee(c) ==
    LET x == Taken(Field(c))
        absent == 1 .. BufferCount(x.format) \ Present(x)
        nulls == {i \in 1 .. x.length : x.buffers[1].cells[x.offset + i] = 0}
    IN  {clause \in {"cdi-null-buffers", "cdi-children", "cdi-null-count",
                     "col-offsets-monotonic", "col-dictionary-indices"} :
           \/ /\ clause = "cdi-null-buffers"
              /\ \E k \in absent : IF k = 1 THEN x.nulls # 0 ELSE Extent(x, k) > 0
           \/ clause = "cdi-children" /\ c.array.akids # c.array.skids
           \/ /\ clause = "cdi-null-count" /\ 1 \in Present(x)
              /\ x.nulls \notin {-1, Cardinality(nulls)}
           \/ /\ clause = "col-offsets-monotonic" /\ x.format = U /\ 2 \in Present(x)
              /\ \E i \in 1 .. x.length : x.buffers[2].cells[i + 1] < x.buffers[2].cells[i]
           \/ /\ clause = "col-dictionary-indices" /\ c.values # Missing
              /\ \E i \in 1 .. x.length : x.buffers[2].cells[i] \notin 0 .. c.values.length - 1}

(* What nobody but the producer can tell. *)
BrokenUnseen(c) ==
    LET x == Field(c)
        short == {k \in Present(x) : Len(x.buffers[k].cells) < Extent(Taken(x), k)}
        offsets == IF x.format = U THEN {2} ELSE {}
    IN  (IF short \cap offsets # {} THEN {"col-offsets-length"} ELSE {})
        \cup (IF short \ offsets # {} THEN {"cdi-buffer-size"} ELSE {})

(* The case with the same structures over buffers that hold something else. *)
Refilled(c) ==
    LET x == Field(c)
        fill(k) == IF k \in Present(x)
                   THEN {Buffer(f) : f \in [DOMAIN x.buffers[k].cells -> {0, 1}]}
                   ELSE {x.buffers[k]}
    IN  {[c EXCEPT !.array.kids[1].buffers = bs] :
           bs \in {<<b1, b2, b3>> : b1 \in fill(1), b2 \in fill(2), b3 \in fill(3)}}

(* The least a validator must look at: the structures alone, or the        *)
(* buffers too.                                                            *)
LevelToSee(c) ==
    IF BrokenToSee(c) = {} THEN "none"
    ELSE IF \A d \in Refilled(c) : BrokenToSee(d) # {} THEN "minimal" ELSE "full"

(* gen_b1.c:13-23: every case in the manifest is in its file, breaks the   *)
(* clause its row names and no other, and is to be refused at the level it *)
(* names if a consumer can see what is wrong, and otherwise is not judged. *)
ManifestTrue ==
    \A k \in DOMAIN rows :
        LET c == stored[k]
        IN  /\ k \in DOMAIN stored
            /\ BrokenToSee(c) \cup BrokenUnseen(c) = {rows[k].clause}
            /\ rows[k].level = LevelToSee(c)
            /\ rows[k].expected = IF BrokenToSee(c) = {} THEN "UNSPECIFIED" ELSE "REJECT"
=============================================================================
