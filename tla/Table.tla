------------------------------- MODULE Table -------------------------------
(***************************************************************************)
(* The events table as the readers of the daemon see it: they share the    *)
(* connection with the writers, so what is read includes what is not yet   *)
(* committed.  The `seq' of a row (its rowid) is its position: rows leave  *)
(* the table only all at once, and SQLite, without AUTOINCREMENT, numbers  *)
(* the next row of an empty table 1.                                       *)
(***************************************************************************)
EXTENDS Integers, SequencesExt

CONSTANTS Events

VARIABLES rows,   \* what a SELECT reads
          saved   \* what is durable

InitTable == rows = <<>> /\ saved = <<>>

Insert(e) == /\ e \notin Range(rows) \cup Range(saved)
             /\ rows' = Append(rows, e)
             /\ UNCHANGED saved

Commit == saved' = rows /\ UNCHANGED rows

Delete == rows' = <<>> /\ UNCHANGED saved

\* The connection is closed, or the process ends, before a commit.
Rollback == rows' = saved /\ UNCHANGED saved

NextTable == (\E e \in Events : Insert(e)) \/ Commit \/ Delete \/ Rollback

SpecTable == InitTable /\ [][NextTable]_<<rows, saved>>
=============================================================================
