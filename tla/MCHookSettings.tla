--------------------------- MODULE MCHookSettings ---------------------------
(* The instance of HookSettings that TLC checks: processes are alike, and  *)
(* so are hooks.                                                           *)
EXTENDS HookSettings, TLC

Symmetry == Permutations(Actors) \cup Permutations(Hooks)
=============================================================================
