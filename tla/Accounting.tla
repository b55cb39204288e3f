------------------------------ MODULE Accounting ------------------------------
(***************************************************************************)
(* What a run promises about its cases, whatever its workers do: one       *)
(* worker at a time; a case a worker has answered is never lost; once a    *)
(* worker's account is closed nothing changes it.  Coordinator.tla         *)
(* implements it.                                                          *)
(***************************************************************************)
EXTENDS Naturals

CONSTANT Case

VARIABLES
  crew,    \* the number of workers
  state,   \* of each worker: waiting, running or closed
  done     \* the cases each worker has answered

vars == <<crew, state, done>>

Becomes(w, s) == state' = [state EXCEPT ![w] = s] /\ UNCHANGED <<crew, done>>

Begin(w) ==
  /\ state[w] = "waiting" /\ \A v \in 1..(w - 1) : state[v] = "closed"
  /\ Becomes(w, "running")

Answer(w, c) ==
  /\ state[w] = "running" /\ c \notin done[w]
  /\ done' = [done EXCEPT ![w] = @ \cup {c}]
  /\ UNCHANGED <<crew, state>>

Close(w) == state[w] = "running" /\ Becomes(w, "closed")

Init ==
  /\ crew \in Nat
  /\ state = [w \in 1..crew |-> "waiting"]
  /\ done = [w \in 1..crew |-> {}]

Next == \E w \in 1..crew : Begin(w) \/ Close(w) \/ \E c \in Case : Answer(w, c)

Spec == Init /\ [][Next]_vars
=============================================================================
