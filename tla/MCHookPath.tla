----------------------------- MODULE MCHookPath -----------------------------
(* The instance of HookPath that TLC checks: the home directory, a project *)
(* with a directory below it, and a scratch directory with one below it.   *)
EXTENDS HookPath, TLC

MCDirs == {"home", "project", "src", "scratch", "deep"}
MCParent == "src" :> "project" @@ "deep" :> "scratch" @@ [d \in {"home", "project", "scratch"} |-> d]
=============================================================================
