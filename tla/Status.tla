------------------------------- MODULE Status -------------------------------
(* An AbiStatus, and checks made one after the other: the first that fails *)
(* decides, and what comes after it is not looked at.                      *)
EXTENDS Naturals, FiniteSetsExt

a \sqcup b == IF a = "OK" THEN b ELSE a
Fails(condition, status) == IF condition THEN status ELSE "OK"

FirstOf(statuses) ==
    LET bad == {i \in DOMAIN statuses : statuses[i] # "OK"}
    IN  IF bad = {} THEN "OK" ELSE statuses[Min(bad)]
=============================================================================
