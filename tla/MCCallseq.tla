------------------------------ MODULE MCCallseq -------------------------------
(* Values of Callseq's constants for TLC. *)
EXTENDS Callseq
=============================================================================
