------------------------------- MODULE MCTail -------------------------------
(* Instances of Tail for TLC.                                              *)
EXTENDS Tail
=============================================================================
