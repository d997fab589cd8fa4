------------------------------- MODULE Store -------------------------------
(***************************************************************************)
(* The event store of cia/store.py: one SQLite connection, driven through  *)
(* aiosqlite, and an append-only JSONL mirror of what was added.           *)
(*                                                                         *)
(* aiosqlite runs every statement of a connection on one worker thread, in *)
(* the order in which the coroutines of the event loop submitted them.     *)
(* `ops' is that queue and `replies' the futures it has completed, in the  *)
(* order in which the loop will resume their coroutines.  A coroutine      *)
(* waits for one statement at a time, so each queue holds only callers;    *)
(* the statement is the place `at[c]' where the coroutine waits:      *)
(*                                                                         *)
(*     add     insert -> commit (-> line in the JSONL mirror)              *)
(*     clear   delete -> wipe   (the commit of the DELETE)                 *)
(*     backup  backup -> count  (-> copy of the JSONL mirror)              *)
(*     close   close                                                       *)
(*                                                                         *)
(* Two coroutines share one connection, hence one transaction: what either *)
(* commits includes what the other has inserted or deleted.  A row's `seq' *)
(* (its rowid) is its position in View: rows leave the table only all at   *)
(* once, and SQLite numbers the next row of an empty table 1.              *)
(***************************************************************************)
EXTENDS Integers, SequencesExt

CONSTANTS Events,    \* the events that can be recorded (a fresh id each)
          Callers,   \* the coroutines that use the store
          NoEvent,   \* the event of a call that is not an add
          MaxFaults  \* bound on the statements that fail

ASSUME NoEventAssumption == NoEvent \notin Events
ASSUME MaxFaultsAssumption == MaxFaults \in Nat

VARIABLES committed,  \* the rows of the database file, in rowid order
          txn,        \* what the open transaction would change
          jsonl,      \* the lines of the JSONL mirror
          conn,       \* "new", "open", "shut" (by the worker), "closed"
          ops,        \* statements submitted and not executed
          replies,    \* statements executed whose coroutine has not resumed
          at,         \* where each coroutine stands in its call
          ev,         \* the event it is adding
          res,        \* the result of the statement it submitted last
          live,       \* it has not been cancelled
          snap,       \* the last backup each coroutine made
          wiped,      \* history: the events a DELETE has removed
          broken,     \* history: some call was cancelled, cut by the process's end, or
                      \*   refused because the store was closed under it
          faults      \* how many statements have failed

calls == <<at, ev, res, live>>
vars == <<committed, txn, jsonl, conn, ops, replies, calls, snap, wiped, broken, faults>>

Places == {"idle", "insert", "commit", "delete", "wipe", "backup", "count", "close", "raised"}
NoTxn == [open |-> FALSE, wiped |-> FALSE, added |-> <<>>]
NoSnap == [db |-> {}, lines |-> {}, done |-> FALSE]

\* The table as the connection itself reads it: its uncommitted work included.
View == (IF txn.wiped THEN <<>> ELSE committed) \o txn.added

Init == /\ committed = <<>>
        /\ txn = NoTxn
        /\ jsonl = <<>>
        /\ conn = "new"
        /\ ops = <<>>
        /\ replies = <<>>
        /\ at = [c \in Callers |-> "idle"]
        /\ ev = [c \in Callers |-> NoEvent]
        /\ res = [c \in Callers |-> "none"]
        /\ live = [c \in Callers |-> TRUE]
        /\ snap = [c \in Callers |-> NoSnap]
        /\ wiped = {}
        /\ broken = FALSE
        /\ faults = 0

-----------------------------------------------------------------------------
(* The coroutines.                                                         *)

\* open: nothing else can use the store before it has returned.
Open == /\ conn = "new"
        /\ conn' = "open"
        /\ UNCHANGED <<committed, txn, jsonl, ops, replies, calls, snap, wiped, broken, faults>>

\* self._db exists, and its aiosqlite connection still takes statements.
Accepting == conn \in {"open", "shut"}

\* A call starts: its first statement goes to the worker.
Begin(c, place, e) ==
    /\ at[c] = "idle"
    /\ live[c]
    /\ Accepting
    /\ ops' = Append(ops, c)
    /\ at' = [at EXCEPT ![c] = place]
    /\ ev' = [ev EXCEPT ![c] = e]
    /\ res' = [res EXCEPT ![c] = "none"]
    /\ UNCHANGED <<committed, txn, jsonl, conn, replies, live, snap, wiped, broken, faults>>

AddBegin(c, e) == Begin(c, "insert", e)
ClearBegin(c) == Begin(c, "delete", NoEvent)
BackupBegin(c) == Begin(c, "backup", NoEvent)
CloseBegin(c) == Begin(c, "close", NoEvent)

\* The loop resumes c, whose statement was executed with the given result.
Resumed(c, place, result) ==
    /\ replies # <<>>
    /\ Head(replies) = c
    /\ live[c]
    /\ at[c] = place
    /\ res[c] = result
    /\ replies' = Tail(replies)
    /\ res' = [res EXCEPT ![c] = "none"]
    /\ UNCHANGED live

\* The call of c is over.
Ends(c) == /\ at' = [at EXCEPT ![c] = "idle"]
           /\ ev' = [ev EXCEPT ![c] = NoEvent]

\* c goes on to its second statement, which raises once the store is closed.
Continue(c, from, to) ==
    /\ Resumed(c, from, "ok")
    /\ \/ /\ Accepting
          /\ ops' = Append(ops, c)
          /\ at' = [at EXCEPT ![c] = to]
       \/ /\ ~Accepting
          /\ at' = [at EXCEPT ![c] = "raised"]
          /\ UNCHANGED ops
    /\ broken' = (broken \/ ~Accepting)
    /\ UNCHANGED <<ev, committed, txn, jsonl, conn, snap, wiped, faults>>

\* Mutant: the line is written between the INSERT and the COMMIT.
AddInserted_LineFirst(c) ==
    /\ Resumed(c, "insert", "ok")
    /\ ops' = Append(ops, c)
    /\ at' = [at EXCEPT ![c] = "commit"]
    /\ jsonl' = Append(jsonl, ev[c])
    /\ UNCHANGED <<ev, committed, txn, conn, snap, wiped, broken, faults>>

AddInserted(c) == Continue(c, "insert", "commit")
ClearDeleted(c) == Continue(c, "delete", "wipe")
BackupCopied(c) == Continue(c, "backup", "count")

\* Mutant: no line is written.
AddCommitted_NoLine(c) ==
    /\ Resumed(c, "commit", "ok")
    /\ Ends(c)
    /\ UNCHANGED <<committed, txn, jsonl, conn, ops, snap, wiped, broken, faults>>

\* add ends: the line is written, unless close has closed the mirror.
AddCommitted(c) ==
    /\ Resumed(c, "commit", "ok")
    /\ jsonl' = IF conn = "closed" THEN jsonl ELSE Append(jsonl, ev[c])
    /\ Ends(c)
    /\ UNCHANGED <<committed, txn, conn, ops, snap, wiped, broken, faults>>

ClearCommitted(c) ==
    /\ Resumed(c, "wipe", "ok")
    /\ Ends(c)
    /\ UNCHANGED <<committed, txn, jsonl, conn, ops, snap, wiped, broken, faults>>

\* backup ends by copying the mirror as it is now.
BackupCounted(c) ==
    /\ Resumed(c, "count", "ok")
    /\ snap' = [snap EXCEPT ![c] = [db |-> @.db, lines |-> Range(jsonl), done |-> TRUE]]
    /\ Ends(c)
    /\ UNCHANGED <<committed, txn, jsonl, conn, ops, wiped, broken, faults>>

CloseDone(c) ==
    /\ Resumed(c, "close", "ok")
    /\ conn' = "closed"
    /\ Ends(c)
    /\ UNCHANGED <<committed, txn, jsonl, ops, snap, wiped, broken, faults>>

\* The statement failed: the exception leaves the method at this await.
Raise(c) ==
    /\ \E place \in Places \ {"idle", "raised"} : Resumed(c, place, "err")
    /\ at' = [at EXCEPT ![c] = "raised"]
    /\ UNCHANGED <<ev, committed, txn, jsonl, conn, ops, snap, wiped, broken, faults>>

\* The caller has caught the exception.
Caught(c) ==
    /\ at[c] = "raised"
    /\ Ends(c)
    /\ UNCHANGED <<committed, txn, jsonl, conn, ops, replies, res, live, snap, wiped, broken, faults>>

\* A cancelled coroutine never resumes; its statement stays with the worker.
CancelCall(c) ==
    /\ live[c]
    /\ at[c] \notin {"idle", "raised"}
    /\ live' = [live EXCEPT ![c] = FALSE]
    /\ broken' = TRUE
    /\ UNCHANGED <<committed, txn, jsonl, conn, ops, replies, at, ev, res, snap, wiped, faults>>

Discard(c) ==
    /\ replies # <<>>
    /\ Head(replies) = c
    /\ ~live[c]
    /\ replies' = Tail(replies)
    /\ UNCHANGED <<committed, txn, jsonl, conn, ops, calls, snap, wiped, broken, faults>>

-----------------------------------------------------------------------------
(* The worker thread: it executes the first statement and completes the    *)
(* future of its coroutine, unless that future has been cancelled.         *)

\* Mutant: the coroutine whose statement is done goes first in line.
Reply_Overtakes(c, result) ==
    /\ ops' = Tail(ops)
    /\ res' = [res EXCEPT ![c] = result]
    /\ replies' = IF live[c] THEN <<c>> \o replies ELSE replies
    /\ UNCHANGED <<at, ev, live>>

Reply(c, result) ==
    /\ ops' = Tail(ops)
    /\ res' = [res EXCEPT ![c] = result]
    /\ replies' = IF live[c] THEN Append(replies, c) ELSE replies
    /\ UNCHANGED <<at, ev, live>>

Executing(c, place) ==
    /\ ops # <<>>
    /\ Head(ops) = c
    /\ conn = "open"
    /\ at[c] = place

\* INSERT OR IGNORE opens the transaction even when it ignores the row.
ExecInsert(c) ==
    /\ Executing(c, "insert")
    /\ txn' = [open |-> TRUE, wiped |-> txn.wiped,
               added |-> IF ev[c] \in Range(View) THEN txn.added
                         ELSE Append(txn.added, ev[c])]
    /\ Reply(c, "ok")
    /\ UNCHANGED <<committed, jsonl, conn, snap, wiped, broken, faults>>

\* Mutant: the DELETE commits by itself.
ExecDelete_Autocommit(c) ==
    /\ Executing(c, "delete")
    /\ committed' = <<>>
    /\ txn' = NoTxn
    /\ wiped' = wiped \cup Range(View)
    /\ Reply(c, "ok")
    /\ UNCHANGED <<jsonl, conn, snap, broken, faults>>

ExecDelete(c) ==
    /\ Executing(c, "delete")
    /\ txn' = [open |-> TRUE, wiped |-> TRUE, added |-> <<>>]
    /\ wiped' = wiped \cup Range(View)
    /\ Reply(c, "ok")
    /\ UNCHANGED <<committed, jsonl, conn, snap, broken, faults>>

ExecCommit(c) ==
    /\ \/ Executing(c, "commit")
       \/ Executing(c, "wipe")
    /\ committed' = View
    /\ txn' = NoTxn
    /\ Reply(c, "ok")
    /\ UNCHANGED <<jsonl, conn, snap, wiped, broken, faults>>

\* sqlite3's Connection.backup retries for as long as its own connection has
\* a transaction open: the worker then never gets to another statement.
ExecBackup(c) ==
    /\ Executing(c, "backup")
    /\ ~txn.open
    /\ snap' = [snap EXCEPT ![c] = [db |-> Range(View), lines |-> {}, done |-> FALSE]]
    /\ Reply(c, "ok")
    /\ UNCHANGED <<committed, txn, jsonl, conn, wiped, broken, faults>>

\* SELECT COUNT of the table: what backup reports next to the copy it made.
ExecCount(c) ==
    /\ Executing(c, "count")
    /\ Reply(c, "ok")
    /\ UNCHANGED <<committed, txn, jsonl, conn, snap, wiped, broken, faults>>

\* Mutant: the rollback of close leaves the connection usable.
ExecClose_StaysOpen(c) ==
    /\ Executing(c, "close")
    /\ txn' = NoTxn
    /\ Reply(c, "ok")
    /\ UNCHANGED <<committed, jsonl, conn, snap, wiped, broken, faults>>

\* Closing the connection rolls back what is not committed.
ExecClose(c) ==
    /\ Executing(c, "close")
    /\ txn' = NoTxn
    /\ conn' = "shut"
    /\ Reply(c, "ok")
    /\ UNCHANGED <<committed, jsonl, snap, wiped, broken, faults>>

ExecRefused(c) ==
    /\ ops # <<>>
    /\ Head(ops) = c
    /\ conn \in {"shut", "closed"}
    /\ Reply(c, "err")
    /\ broken' = TRUE
    /\ UNCHANGED <<committed, txn, jsonl, conn, snap, wiped, faults>>

\* A write fails (a value SQLite cannot bind, a locked or full database): the
\* transaction that sqlite3 opens before a DML statement stays open.
ExecFails(c) ==
    /\ faults < MaxFaults
    /\ \/ \E place \in {"insert", "delete"} : Executing(c, place)
       \/ txn.open /\ \E place \in {"commit", "wipe"} : Executing(c, place)
    /\ txn' = [txn EXCEPT !.open = TRUE]
    /\ Reply(c, "err")
    /\ faults' = faults + 1
    /\ UNCHANGED <<committed, jsonl, conn, snap, wiped, broken>>

Exec(c) == \/ ExecInsert(c) \/ ExecDelete(c) \/ ExecCommit(c) \/ ExecBackup(c)
           \/ ExecCount(c) \/ ExecClose(c) \/ ExecRefused(c) \/ ExecFails(c)

\* The process ends: the files keep what was committed and written.
ProcessEnds ==
    /\ broken' = (broken \/ \E c \in Callers : at[c] # "idle")
    /\ txn' = NoTxn
    /\ conn' = "new"
    /\ ops' = <<>>
    /\ replies' = <<>>
    /\ at' = [c \in Callers |-> "idle"]
    /\ ev' = [c \in Callers |-> NoEvent]
    /\ res' = [c \in Callers |-> "none"]
    /\ live' = [c \in Callers |-> TRUE]
    /\ UNCHANGED <<committed, jsonl, snap, wiped, faults>>

-----------------------------------------------------------------------------
(* The store on its own, used by coroutines that make any call at any time.*)

Fresh(e) == /\ e \notin Range(jsonl) \cup Range(View) \cup Range(committed) \cup wiped
            /\ \A c \in Callers : ev[c] # e

Start(c) == \/ \E e \in Events : Fresh(e) /\ AddBegin(c, e)
            \/ ClearBegin(c)
            \/ BackupBegin(c)
            \/ CloseBegin(c)

Resume(c) == \/ AddInserted(c) \/ AddCommitted(c)
             \/ ClearDeleted(c) \/ ClearCommitted(c)
             \/ BackupCopied(c) \/ BackupCounted(c)
             \/ CloseDone(c)
             \/ Raise(c) \/ Caught(c) \/ Discard(c)

Next == \/ Open
        \/ ProcessEnds
        \/ \E c \in Callers : Start(c) \/ Resume(c) \/ Exec(c) \/ CancelCall(c)

Spec == Init /\ [][Next]_vars

-----------------------------------------------------------------------------
(* Properties.                                                             *)

Snaps == [db : SUBSET Events, lines : SUBSET Events, done : BOOLEAN]

\* The type invariant of the connection (committed, txn, conn), the two queues
\* of aiosqlite, the calls, the backups and the two history variables.
TypeOK ==
    /\ committed \in Seq(Events)
    /\ txn \in [open : BOOLEAN, wiped : BOOLEAN, added : Seq(Events)]
    /\ jsonl \in Seq(Events)
    /\ conn \in {"new", "open", "shut", "closed"}
    /\ ops \in Seq(Callers)
    /\ replies \in Seq(Callers)
    /\ at \in [Callers -> Places]
    /\ ev \in [Callers -> Events \cup {NoEvent}]
    /\ \A c \in Callers : at[c] \in {"insert", "commit"} => ev[c] \in Events
    /\ res \in [Callers -> {"none", "ok", "err"}]
    /\ live \in [Callers -> BOOLEAN]
    /\ snap \in [Callers -> Snaps]
    /\ wiped \subseteq Events
    /\ broken \in BOOLEAN
    /\ faults \in 0..MaxFaults

\* What can no longer be lost: rows that are committed, or that a DELETE took.
Safe == Range(committed) \cup wiped

\* Store.add writes the line of an event only once its row is durable: whatever
\* other coroutines do to the shared transaction between its INSERT and its
\* COMMIT, and whatever fails, no line is of a row that a rollback took away.
MirrorFollowsStore == Range(jsonl) \subseteq Safe

\* No event is recorded twice, in the table (as read or as committed) or in the
\* mirror, although statements of different coroutines interleave.
RecordedOnce == IsInjective(View) /\ IsInjective(committed) /\ IsInjective(jsonl)

\* The position of e in s.
Pos(s, e) == CHOOSE i \in DOMAIN s : s[i] = e

\* Two events that are both in the table and in the mirror are there in the
\* same order: FIFO statements and FIFO replies keep concurrent adds in step.
SameOrder ==
    \A e, f \in Range(committed) \cap Range(jsonl) :
        Pos(committed, e) < Pos(committed, f) => Pos(jsonl, e) < Pos(jsonl, f)

\* While no statement fails and no call is cut short, a committed row has its
\* line or its add is still on the way to write it.
MirrorComplete ==
    faults = 0 /\ ~broken =>
        \A e \in Range(committed) :
            \/ e \in Range(jsonl)
            \/ \E c \in Callers : ev[c] = e /\ at[c] \in {"insert", "commit"}

\* Store.backup copies durable rows only, never the uncommitted half of
\* another coroutine's add, although it reads through the same connection.
BackupIsDurable == \A c \in Callers : snap[c].db \subseteq Safe

\* The mirror is copied two awaits after the database; while nothing fails every
\* row of the copied database has its line in the copied mirror, because the
\* add that committed it resumes before the backup does.
BackupMirrorCovers ==
    faults = 0 /\ ~broken =>
        \A c \in Callers : snap[c].done => snap[c].db \subseteq snap[c].lines

\* What makes the two properties above inductive: an inserted row stays readable
\* through the connection, or was deleted by a clear, until some COMMIT makes it
\* durable; only the end of the connection may take it back, and then the add
\* that inserted it can no longer succeed.
Held == Range(View) \cup wiped

AddIsSafe(c) ==
    /\ at[c] = "insert" /\ res[c] = "ok" /\ conn = "open" => ev[c] \in Held
    /\ at[c] = "commit" /\ res[c] # "ok" /\ conn = "open" => ev[c] \in Held
    /\ at[c] = "commit" /\ res[c] = "ok" => ev[c] \in Safe

DurabilityInv ==
    /\ MirrorFollowsStore
    /\ BackupIsDurable
    /\ ~txn.open => ~txn.wiped /\ txn.added = <<>>
    /\ txn.wiped => Range(committed) \subseteq wiped
    /\ conn = "new" => \A c \in Callers : at[c] = "idle"
    /\ \A c \in Callers : AddIsSafe(c)

\* Each coroutine waits for at most one statement, submitted or executed.
QueuesInv ==
    /\ IsInjective(ops) /\ IsInjective(replies)
    /\ Range(ops) \cap Range(replies) = {}
    /\ \A c \in Range(ops) \cup Range(replies) : at[c] \notin {"idle", "raised"}

\* What makes RecordedOnce inductive: an INSERT that waits for the worker is of an
\* event that is nowhere yet and in no other add, and an add that is under way
\* has no line yet; nothing a DELETE took comes back beside it.
FreshnessInv ==
    /\ QueuesInv
    /\ RecordedOnce
    /\ \A c, d \in Callers : ev[c] = ev[d] /\ ev[c] # NoEvent => c = d
    /\ \A c \in Callers : at[c] \in {"insert", "commit"} => ev[c] \notin Range(jsonl)
    /\ \A c \in Range(ops) :
           at[c] = "insert" => ev[c] \notin Range(View) \cup Range(committed) \cup wiped
    /\ txn.wiped => Range(txn.added) \cap wiped = {}

\* All of the above that is inductive: what the proofs about Store rest on.
InductiveInv == TypeOK /\ DurabilityInv /\ FreshnessInv

\* The durable log as cia/store.py promises it: it grows only at its end, or is
\* emptied by a clear.  The transaction that holds a DELETE is the request.
Log == INSTANCE EventLog WITH log <- committed, clearing <- txn.wiped
ImplementsEventLog == Log!Spec

\* What a reader of the connection sees, as the tail of Tail pages through it:
\* the rows in the order of their seq, with the work that is not committed.
Readers == INSTANCE Table WITH rows <- View, saved <- committed
ImplementsTable == Readers!SpecTable
=============================================================================
