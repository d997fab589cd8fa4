------------------------------ MODULE MCStore ------------------------------
(* Instances of Store for TLC.                                             *)
EXTENDS Store

\* Callers and events are interchangeable in Store.
Symmetry == Permutations(Callers) \cup Permutations(Events)
=============================================================================
