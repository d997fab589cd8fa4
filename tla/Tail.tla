-------------------------------- MODULE Tail --------------------------------
(***************************************************************************)
(* `cia tail' (cia/cli.py): it polls the daemon with an export command and *)
(* pages by `seq'.  The daemon answers with three operations of the        *)
(* store's worker thread, and the writers may use the table between them:  *)
(* the highest seq, the execution of the SELECT, which already steps to    *)
(* its first row, and the fetch of the other rows.                         *)
(*                                                                         *)
(* The first poll asks for the events since a time, in the order of their  *)
(* timestamps; the others for the rows above the cursor, in rowid order.   *)
(* An event may be inserted late, with a timestamp in the past.            *)
(***************************************************************************)
EXTENDS Table, FiniteSetsExt

CONSTANTS Times,       \* timestamps
          Since,       \* the time the first poll asks from
          Limit,       \* the limit of query, 10000 in the code
          MaxResets    \* bound on the clears and the restarts of the daemon

ASSUME TimesAssumption == Times \subseteq Nat /\ Since \in Nat
ASSUME LimitAssumption == Limit \in Nat \ {0}
ASSUME ResetsAssumption == MaxResets \in Nat

VARIABLES ts,        \* the timestamp of each event
          poll,      \* what the poll waits for: "idle", "max", "select", "fetch"
          maxSeq,    \* what max_seq returned
          first,     \* the first row of the answer, <<>> if there is none
          cursor,    \* last_seq, None before the first answer
          printed,   \* the events printed
          born,      \* history: when each event was recorded: "new", "early" or
                     \*   "after" the tail has a cursor
          resets     \* how many clears and restarts there have been

None == -1
table == <<rows, saved, ts>>
request == <<poll, maxSeq, first>>
history == <<born, resets>>
vars == <<table, request, cursor, printed, history>>

Init == /\ InitTable
        /\ ts \in [Events -> Times]
        /\ poll = "idle" /\ maxSeq = 0 /\ first = <<>>
        /\ cursor = None
        /\ printed = <<>>
        /\ born = [e \in Events |-> "new"]
        /\ resets = 0

-----------------------------------------------------------------------------
(* The writers.                                                            *)

Record(e) == /\ born[e] = "new"
             /\ Insert(e)
             /\ born' = [born EXCEPT ![e] = IF cursor # None THEN "after" ELSE "early"]
             /\ UNCHANGED <<ts, request, cursor, printed, resets>>

Save == /\ rows # saved
        /\ Commit
        /\ UNCHANGED <<ts, request, cursor, printed, history>>

Clear == /\ resets < MaxResets
         /\ resets' = resets + 1
         /\ Delete
         /\ UNCHANGED <<ts, request, cursor, printed, born>>

\* A poll under way fails, and the tail retries.
Restart == /\ resets < MaxResets
           /\ resets' = resets + 1
           /\ Rollback
           /\ poll' = "idle" /\ first' = <<>>
           /\ UNCHANGED <<ts, maxSeq, cursor, printed, born>>

-----------------------------------------------------------------------------
(* The poll.                                                               *)

Row(i) == [seq |-> i, event |-> rows[i]]

\* The order of the answer.  The index on ts breaks ties by rowid.
Earlier(r, q) ==
    ts[r.event] < ts[q.event] \/ (ts[r.event] = ts[q.event] /\ r.seq < q.seq)

Before(r, q) == IF cursor # None THEN r.seq < q.seq ELSE Earlier(r, q)

\* Mutant: a row is above the cursor from the cursor on.
Wanted_Inclusive(r) == IF cursor # None THEN r.seq >= cursor ELSE ts[r.event] >= Since

Wanted(r) == IF cursor # None THEN r.seq > cursor ELSE ts[r.event] >= Since

Found == {r \in {Row(i) : i \in DOMAIN rows} : Wanted(r)}

Ask == /\ poll = "idle"
       /\ poll' = "max"
       /\ UNCHANGED <<table, maxSeq, first, cursor, printed, history>>

MaxSeq == /\ poll = "max"
          /\ maxSeq' = Len(rows)
          /\ poll' = "select"
          /\ UNCHANGED <<table, first, cursor, printed, history>>

\* The first n of the rows S, or all of them, in the order of the answer.
Pages(S, n) ==
    {page \in [1..Min({Cardinality(S), n}) -> S] :
        /\ \A j, k \in DOMAIN page : j < k => Before(page[j], page[k])
        /\ \A r \in S \ Range(page), k \in DOMAIN page : Before(page[k], r)}

Select == /\ poll = "select"
          /\ poll' = "fetch"
          /\ first' \in Pages(Found, 1)
          /\ UNCHANGED <<table, maxSeq, cursor, printed, history>>

\* The rows that now follow the first one.
Rest == {r \in Found : first # <<>> /\ Before(first[1], r)}

\* Mutant: the tip is the cursor, whatever the limit has cut off.
Advance_ToTip(seqs) == maxSeq

\* The cursor after the events printed; the tip seeds it if there were none.
Advance(seqs) ==
    IF cursor = None /\ seqs = {} THEN maxSeq ELSE Max(seqs \cup {cursor, 0})

\* The answer is the first row and those that follow it, up to the limit.
Fetch == /\ poll = "fetch"
         /\ poll' = "idle"
         /\ \E page \in Pages(Rest, Limit - 1) :
                LET answer == first \o page
                IN /\ printed' = printed \o [k \in DOMAIN answer |-> answer[k].event]
                   /\ cursor' = Advance({r.seq : r \in Range(answer)})
         /\ first' = <<>>
         /\ UNCHANGED <<table, maxSeq, history>>

Next == \/ \E e \in Events : Record(e)
        \/ Save \/ Clear \/ Restart
        \/ Ask \/ MaxSeq \/ Select \/ Fetch

Spec == Init /\ [][Next]_vars

\* The tail polls for ever, and the worker thread serves what is submitted.
FairSpec == Spec /\ WF_vars(Ask) /\ WF_vars(MaxSeq) /\ WF_vars(Select) /\ WF_vars(Fetch)

-----------------------------------------------------------------------------
(* Properties.                                                             *)

\* No event is printed twice, even when the table was cleared or lost rows and
\* numbers new events from below the cursor; and events recorded once there is a
\* cursor are printed in the order in which they were recorded, whatever their
\* timestamps.
PrintedInOrder ==
    /\ IsInjective(printed)
    /\ \A j, k \in DOMAIN printed :
           j < k /\ born[printed[j]] = "after" /\ born[printed[k]] = "after" =>
               \A m, n \in DOMAIN rows :
                   rows[m] = printed[j] /\ rows[n] = printed[k] => m < n

\* Once there is a cursor the tail passes no event that is recorded later
\* without having printed it, whatever the limit cuts off an answer, as long as
\* the table is not cleared and loses no uncommitted row.
NothingPassed ==
    resets = 0 =>
        \A i \in DOMAIN rows :
            i <= cursor /\ born[rows[i]] = "after" => rows[i] \in Range(printed)

\* Every event recorded once there is a cursor is printed in the end, if the
\* table is not reset.
EverythingPrinted ==
    \A e \in Events : born[e] = "after" ~> e \in Range(printed) \/ resets > 0
=============================================================================
