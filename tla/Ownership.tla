------------------------------ MODULE Ownership -------------------------------
(***************************************************************************)
(* The ownership protocol of the Arrow C Data and C Stream Interfaces, as  *)
(* libabi/include/abi/lifecycle.h states it for one structure of each      *)
(* kind: exported by the producer, handed over, perhaps handed back, and   *)
(* released once.  Callseq.tla implements it.                              *)
(***************************************************************************)
EXTENDS Naturals

VARIABLE stage   \* of each kind: absent, exported, imported or released

Kind == {"schema", "array", "stream"}

Goes(k, from, to) ==
  /\ stage[k] \in from
  /\ stage' = [stage EXCEPT ![k] = to]

\* The producer still owns it, or gives it away.
HandOver(k) == Goes(k, {"exported"}, "imported")
HandBack(k) == Goes(k, {"imported"}, "exported")
Release(k) == Goes(k, {"exported", "imported"}, "released")

\* A stream builds a schema for its consumer each time it is asked, once the
\* previous one is released.
Deliver == Goes("schema", {"absent", "released"}, "imported")

\* A stream's release takes the batch it never delivered with it.
ReleaseWithBatch ==
  /\ stage["stream"] \in {"exported", "imported"} /\ stage["array"] = "exported"
  /\ stage' = [stage EXCEPT !["stream"] = "released", !["array"] = "released"]

Init == stage \in [Kind -> {"absent", "exported"}]

Next ==
  \/ \E k \in Kind : HandOver(k) \/ HandBack(k) \/ Release(k)
  \/ Deliver \/ ReleaseWithBatch

Spec == Init /\ [][Next]_stage
=============================================================================
