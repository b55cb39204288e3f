------------------------------ MODULE Lifecycle ------------------------------
(***************************************************************************)
(* The lifecycle judge of libabi/src/lifecycle.c: three state machines,    *)
(* one per base structure kind, fed the observer's ordered event log.  A   *)
(* rule is a predicate on the machine an event meets and on the event; the *)
(* verdict is the set of rules broken along the log, plus what the end of  *)
(* the log leaves live.                                                    *)
(***************************************************************************)
EXTENDS Integers, Sequences

Objects == {"schema", "array", "stream"}

\* Tree nodes: the base structure, two children and a dictionary.
BASE == 0
DICT == 3
Nodes == {BASE, 1, 2, DICT}

\* Where a live structure is: at the reconstruction's own address, in storage
\* the executor allocated for a MOVE_STRUCT, or in storage of the consumer's.
Locations == {"home", "exec", "own"}
Places == {"unborn", "dead"} \cup Locations

Kinds == {"exported", "moved", "imported", "returned", "enter", "exit",
          "violation", "harness", "eof"}

Event == [kind : Kinds, obj : Objects, node : Nodes, by : BOOLEAN,
          at : Places]

-----------------------------------------------------------------------------
(* The machines *)

Machine == [state : {"absent", "exported", "imported", "released"},
            loc : Places \cup {"nowhere"}]

Fresh == [state |-> "absent", loc |-> "nowhere"]

BaseRelease(e) == e.kind = "enter" /\ e.node = BASE

\* The machine of e's structure once e has been read.  A move changes where,
\* never what; a refusal makes ownership the harness's again.
After(mc, e) ==
  CASE e.kind \in {"exported", "imported"} -> [state |-> e.kind, loc |-> e.at]
    [] e.kind = "moved" -> [mc EXCEPT !.loc = e.at]
    [] e.kind = "returned" /\ mc.state = "imported" ->
         [mc EXCEPT !.state = "exported"]
    [] BaseRelease(e) -> [mc EXCEPT !.state = "released"]
    [] OTHER -> mc

\* The machine of kind `obj` after each prefix of the log.
MachineOf(log, obj) ==
  LET m[i \in 0..Len(log)] ==
        IF i = 0 THEN Fresh
        ELSE IF log[i].obj = obj THEN After(m[i-1], log[i]) ELSE m[i-1]
  IN  m

-----------------------------------------------------------------------------
(* The rules *)

ReleasedTwice(mc, e) == BaseRelease(e) /\ mc.state = "released"

ReleasedBeforeImport(mc, e) ==
  BaseRelease(e) /\ e.by /\ mc.state \notin {"released", "imported"}

ReleasedAtStaleLocation(mc, e, strict) ==
  BaseRelease(e) /\ e.by /\ mc.state = "imported" /\ strict /\ e.at # mc.loc

NotReleasedByConsumer(mc, e) ==
  BaseRelease(e) /\ ~e.by /\ mc.state = "imported"

ChildReleasedByConsumer(e) == e.kind = "enter" /\ e.node # BASE /\ e.by

ImportedOutOfOrder(mc, e) == e.kind = "imported" /\ mc.state # "exported"

Rules == {"released-before-import", "not-released-by-consumer",
          "released-twice", "never-released", "released-at-stale-location",
          "imported-out-of-order", "child-released-by-consumer"}

Breaks(rule, mc, e, strict) ==
  CASE rule = "released-twice" -> ReleasedTwice(mc, e)
    [] rule = "released-before-import" -> ReleasedBeforeImport(mc, e)
    [] rule = "released-at-stale-location" ->
         ReleasedAtStaleLocation(mc, e, strict)
    [] rule = "not-released-by-consumer" -> NotReleasedByConsumer(mc, e)
    [] rule = "child-released-by-consumer" -> ChildReleasedByConsumer(e)
    [] rule = "imported-out-of-order" -> ImportedOutOfOrder(mc, e)
    [] OTHER -> FALSE

\* Objects whose machine the end of the log leaves EXPORTED or IMPORTED.
LeftLive(log) ==
  {obj \in Objects :
     MachineOf(log, obj)[Len(log)].state \in {"exported", "imported"}}

\* abi_lifecycle_verify(): one finding per rule an event breaks, and one with
\* no event of its own (seq 0) for every machine the log leaves live.
Verify(log, strict) ==
  LET broken(i) == {rule \in Rules :
                      Breaks(rule, MachineOf(log, log[i].obj)[i-1], log[i], strict)}
  IN  (UNION {{[rule |-> rule, obj |-> log[i].obj, node |-> log[i].node, seq |-> i] :
                rule \in broken(i)} : i \in 1..Len(log)})
      \cup {[rule |-> "never-released", obj |-> obj, node |-> BASE, seq |-> 0] :
              obj \in LeftLive(log)}
=============================================================================
