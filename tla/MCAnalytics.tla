---------------------------- MODULE MCAnalytics ----------------------------
(* Instances of Analytics for TLC.                                         *)
EXTENDS Analytics, TLC

Symmetry == {p @@ q : p \in Permutations(Sessions), q \in Permutations(Files)}
=============================================================================
