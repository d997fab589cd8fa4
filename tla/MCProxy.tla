------------------------------ MODULE MCProxy ------------------------------
(* Instances of Proxy for TLC.                                             *)
EXTENDS Proxy, TLC

Symmetry == Permutations(Flows)
=============================================================================
