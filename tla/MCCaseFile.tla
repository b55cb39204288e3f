----------------------------- MODULE MCCaseFile -----------------------------
(* A small instance of CaseFile: counts of one byte, two nodes to a tree.  *)
EXTENDS CaseFile

(* Payloads for which each encoding wins, loses and ties.                  *)
MCPayloads == {<<0, 0>>, <<1, 2>>, <<1, 2, 1, 2, 1, 2>>, <<1, 1, 1, 1, 1, 2>>}


(* One span fits every block, the other only the longer ones, exactly.     *)
MCSpans == {<<0, 2>>, <<3, 3>>}
=============================================================================
