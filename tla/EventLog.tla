------------------------------ MODULE EventLog ------------------------------
(***************************************************************************)
(* What the store promises its readers about the durable log of events:    *)
(* it grows only at its end, no event is in it twice, and it loses events  *)
(* only all at once, when a clear has been asked for.  A clear that is     *)
(* under way may still be undone by a rollback.                            *)
(***************************************************************************)
EXTENDS SequencesExt

VARIABLES log,       \* the durable events, oldest first
          clearing   \* a clear has been asked for and is not durable yet

Init == log = <<>> /\ clearing = FALSE

\* Several events may become durable in one step: one COMMIT covers the
\* inserts of every coroutine that shares the transaction.
Grow == /\ ~clearing
        /\ IsPrefix(log, log')
        /\ IsInjective(log')
        /\ UNCHANGED clearing

RequestClear == ~clearing /\ clearing' /\ UNCHANGED log

\* The clear takes effect: no earlier event is left, only events recorded since
\* it was asked for.
Clear == /\ clearing /\ ~clearing'
         /\ IsInjective(log')
         /\ Range(log) \cap Range(log') = {}

Undo == clearing /\ ~clearing' /\ UNCHANGED log

Next == Grow \/ RequestClear \/ Clear \/ Undo

Spec == Init /\ [][Next]_<<log, clearing>>
=============================================================================
