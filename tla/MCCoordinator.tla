---------------------------- MODULE MCCoordinator -----------------------------
(* Values of Coordinator's and RunReport's constants for TLC. *)
EXTENDS RunReport

Run(list, workers, cut) == [list |-> list, crew |-> workers, cuts |-> cut]
Shipped(n) == [name |-> n, alien |-> FALSE]
Alien(n) == [name |-> n, alien |-> TRUE]

\* Two workers and two cases; two workers of the same name; one worker whose text
\* may be cut; a case listed twice; an alien worker.
MCSetups ==
  {Run(<<"a", "b">>, <<Shipped("p"), Shipped("q")>>, FALSE),
   Run(<<"a">>, <<Shipped("p"), Shipped("p")>>, TRUE),
   Run(<<"a", "b">>, <<Shipped("p")>>, TRUE),
   Run(<<"a", "a">>, <<Shipped("p")>>, FALSE),
   Run(<<"a", "b">>, <<Alien("p")>>, FALSE)}

\* Nothing, a finished run's file, and that of a longer run cut off.
MCLeftovers ==
  LET both == <<Header, Result("a", "accepted", TRUE), Result("b", "rejected", TRUE)>>
  IN  {NoFile, Written(both), Written(Append(both, Torn(TRUE)))}

\* "c" is a case nobody was assigned.
MCAlienLines ==
  {Header, Torn(TRUE), [Header EXCEPT !.kind = "nocase"],
   Result("a", "accepted", TRUE), Result("b", "unknown", TRUE),
   Result("b", "error", TRUE), Result("c", "accepted", TRUE)}

\* The corpus of the lists, one with a cell nothing could be built for, one that
\* lacks a listed case, and one whose manifest goes beyond the model.
MCCorpora ==
  {[cells |-> {"a", "b"}, constructed |-> {"a", "b"}],
   [cells |-> {"a", "b"}, constructed |-> {"a"}],
   [cells |-> {"a"}, constructed |-> {"a"}],
   [cells |-> {"a"}, constructed |-> {"a", "b"}]}
=============================================================================
