--------------------------- MODULE Daemon_proofs ----------------------------
(***************************************************************************)
(* What holds of the store of cia/store.py, for every set of events, every *)
(* set of callers and every number of faults:                              *)
(*   I    files and mirror: what a line or a backup says is durable;       *)
(*   II   no event is recorded twice, and the store implements the durable *)
(*        log of EventLog and the readers' table of Table;                 *)
(*   III  the order in which coroutines wait for the worker and the loop,  *)
(*        and what follows from it: lines have the order of the rows, no   *)
(*        row is without its line while nothing fails, and a backup copies *)
(*        the lines of all the rows it copies;                             *)
(* and of the daemon of cia/daemon.py, which drives that store:            *)
(*   IV   it uses the store as Store allows, so that all of this holds of  *)
(*        the daemon; it loses no event while it serves and at most one    *)
(*        when it stops, and records them in the order of their emission.  *)
(***************************************************************************)
EXTENDS Daemon, FiniteSetTheorems, TLAPS

-----------------------------------------------------------------------------
(* I  Files and mirror.                                                    *)

(***************************************************************************)
(* Sequences and their ranges.                                             *)
(***************************************************************************)

\* What an Append adds to the elements of a sequence.
LEMMA RangeAppend ==
    ASSUME NEW S, NEW s \in Seq(S), NEW x \in S
    PROVE  Range(Append(s, x)) = Range(s) \cup {x}
<1>1. /\ Len(Append(s, x)) = Len(s) + 1
      /\ \A i \in 1..Len(s) : Append(s, x)[i] = s[i]
      /\ Append(s, x)[Len(s) + 1] = x
      /\ DOMAIN Append(s, x) = 1..(Len(s) + 1)
      /\ DOMAIN s = 1..Len(s)
      /\ Len(s) \in Nat
  OBVIOUS
<1>2. ASSUME NEW i \in 1..(Len(s) + 1)  PROVE  i \in 1..Len(s) \/ i = Len(s) + 1
  BY <1>1
<1>3. Len(s) + 1 \in 1..(Len(s) + 1) /\ 1..Len(s) \subseteq 1..(Len(s) + 1)
  BY <1>1
<1>4. Range(Append(s, x)) \subseteq Range(s) \cup {x}
  BY <1>1, <1>2 DEF Range
<1>5. Range(s) \cup {x} \subseteq Range(Append(s, x))
  BY <1>1, <1>3 DEF Range
<1>6. QED  BY <1>4, <1>5

\* The elements of a concatenation.
LEMMA RangeConcat ==
    ASSUME NEW S, NEW s \in Seq(S), NEW t \in Seq(S)
    PROVE  /\ s \o t \in Seq(S)
           /\ Range(s \o t) = Range(s) \cup Range(t)
<1>1. /\ s \o t \in Seq(S)
      /\ Len(s \o t) = Len(s) + Len(t)
      /\ \A i \in 1..Len(s) : (s \o t)[i] = s[i]
      /\ \A i \in 1..Len(t) : (s \o t)[Len(s) + i] = t[i]
  OBVIOUS
<1>2. Range(s \o t) \subseteq Range(s) \cup Range(t)
  <2> SUFFICES ASSUME NEW i \in 1..(Len(s) + Len(t))
               PROVE  (s \o t)[i] \in Range(s) \cup Range(t)
    BY <1>1 DEF Range
  <2>1. CASE i \in 1..Len(s)  BY <1>1, <2>1 DEF Range
  <2>2. CASE i \notin 1..Len(s)
    <3>1. i - Len(s) \in 1..Len(t)  BY <2>2
    <3>2. (s \o t)[i] = t[i - Len(s)]  BY <1>1, <3>1
    <3>3. QED  BY <3>1, <3>2 DEF Range
  <2>3. QED  BY <2>1, <2>2
<1>3. Range(s) \subseteq Range(s \o t)
  BY <1>1 DEF Range
<1>4. Range(t) \subseteq Range(s \o t)
  <2> SUFFICES ASSUME NEW i \in 1..Len(t)  PROVE  t[i] \in Range(s \o t)
    BY DEF Range
  <2>1. Len(s) + i \in 1..Len(s \o t)  BY <1>1
  <2>2. QED  BY <1>1, <2>1 DEF Range
<1>5. s \o t \in Seq(S)  BY <1>1
<1>6. Range(s \o t) = Range(s) \cup Range(t)  BY ONLY <1>2, <1>3, <1>4, Zenon
<1>7. QED  BY ONLY <1>5, <1>6, Zenon

\* The elements of a sequence are in the set it is a sequence of.
LEMMA RangeType ==
    ASSUME NEW S, NEW s \in Seq(S)  PROVE  Range(s) \subseteq S
BY DEF Range

(***************************************************************************)
(* Types.                                                                  *)
(***************************************************************************)

\* The rows a connection reads: those committed, unless its transaction has
\* deleted them, and those the transaction has inserted.
LEMMA RangeRows ==
    ASSUME NEW S, NEW rows \in Seq(S), NEW added \in Seq(S), NEW deleted \in BOOLEAN
    PROVE  /\ (IF deleted THEN <<>> ELSE rows) \o added \in Seq(S)
           /\ Range((IF deleted THEN <<>> ELSE rows) \o added)
                  = (IF deleted THEN {} ELSE Range(rows)) \cup Range(added)
<1>1. <<>> \in Seq(S) /\ Range(<<>>) = {}
  BY DEF Range
<1>2. CASE deleted  BY <1>1, <1>2, RangeConcat
<1>3. CASE ~deleted  BY <1>3, RangeConcat
<1>4. QED  BY <1>2, <1>3

\* The table as the connection reads it is a sequence of events.
LEMMA ViewType ==
    ASSUME TypeOK
    PROVE  /\ View \in Seq(Events)
           /\ Range(View) = (IF txn.wiped THEN {} ELSE Range(committed)) \cup Range(txn.added)
BY RangeRows DEF TypeOK, View

\* Every step of the store keeps the types.
LEMMA TypeStep ==
    ASSUME TypeOK, [Next]_vars  PROVE  TypeOK'
<1> USE MaxFaultsAssumption DEF TypeOK, Places
<1>0. /\ replies # <<>> => Tail(replies) \in Seq(Callers)
      /\ ops # <<>> => Tail(ops) \in Seq(Callers)
      /\ Range(jsonl) \subseteq Events
      /\ View \in Seq(Events) /\ Range(View) \subseteq Events
  BY ViewType, RangeType
<1>1. CASE Open
  BY <1>1 DEF Open, calls
<1>2. CASE ProcessEnds
  <2>1. broken' \in BOOLEAN  BY <1>2, Zenon DEF ProcessEnds
  <2>2. QED  BY <1>2, <2>1 DEF ProcessEnds, NoTxn
<1>3. ASSUME NEW c \in Callers, Start(c)  PROVE  TypeOK'
  <2>1. CASE \E e \in Events : AddBegin(c, e)
    BY <2>1 DEF AddBegin, Begin
  <2>2. CASE ClearBegin(c)  BY <2>2 DEF ClearBegin, Begin
  <2>3. CASE BackupBegin(c)  BY <2>3 DEF BackupBegin, Begin
  <2>4. CASE CloseBegin(c)  BY <2>4 DEF CloseBegin, Begin
  <2>5. QED  BY <1>3, <2>1, <2>2, <2>3, <2>4 DEF Start
<1>4. ASSUME NEW c \in Callers, Resume(c)  PROVE  TypeOK'
  <2> USE <1>0 DEF Resumed, Ends
  <2>0. ASSUME NEW from \in Places, NEW to \in Places, Continue(c, from, to),
               to \in {"insert", "commit"} => from \in {"insert", "commit"}
        PROVE  TypeOK'
    <3>1. CASE at' = [at EXCEPT ![c] = to] /\ ops' = Append(ops, c)
      BY <2>0, <3>1 DEF Continue
    <3>2. CASE at' = [at EXCEPT ![c] = "raised"] /\ ops' = ops
      BY <2>0, <3>2 DEF Continue
    <3>3. QED  BY <2>0, <3>1, <3>2 DEF Continue
  <2>1. CASE AddInserted(c)  BY ONLY <2>0, <2>1 DEF AddInserted, Places
  <2>2. CASE ClearDeleted(c)  BY ONLY <2>0, <2>2 DEF ClearDeleted, Places
  <2>3. CASE BackupCopied(c)  BY ONLY <2>0, <2>3 DEF BackupCopied, Places
  <2>4. CASE AddCommitted(c)  BY <2>4 DEF AddCommitted
  <2>5. CASE ClearCommitted(c)  BY <2>5 DEF ClearCommitted
  <2>6. CASE BackupCounted(c)  BY <2>6 DEF BackupCounted, Snaps
  <2>7. CASE CloseDone(c)  BY <2>7 DEF CloseDone
  <2>8. CASE Raise(c)  BY <2>8 DEF Raise
  <2>9. CASE Caught(c)  BY <2>9 DEF Caught
  <2>10. CASE Discard(c)  BY <2>10 DEF Discard, calls
  <2>11. QED
    BY <1>4, <2>1, <2>2, <2>3, <2>4, <2>5, <2>6, <2>7, <2>8, <2>9, <2>10 DEF Resume
<1>5. ASSUME NEW c \in Callers, Exec(c)  PROVE  TypeOK'
  <2> USE <1>0 DEF Reply, Executing
  <2>1. CASE ExecInsert(c)
    <3>1. ev[c] \in Events  BY <2>1 DEF ExecInsert
    <3>2. txn' \in [open : BOOLEAN, wiped : BOOLEAN, added : Seq(Events)]
      BY <2>1, <3>1 DEF ExecInsert
    <3>3. QED  BY <2>1, <3>2 DEF ExecInsert
  <2>2. CASE ExecDelete(c)  BY <2>2 DEF ExecDelete
  <2>3. CASE ExecCommit(c)  BY <2>3 DEF ExecCommit, NoTxn
  <2>4. CASE ExecBackup(c)  BY <2>4 DEF ExecBackup, Snaps
  <2>5. CASE ExecCount(c)  BY <2>5 DEF ExecCount
  <2>6. CASE ExecClose(c)  BY <2>6 DEF ExecClose, NoTxn
  <2>7. CASE ExecRefused(c)  BY <2>7 DEF ExecRefused
  <2>8. CASE ExecFails(c)
    <3>1. txn' \in [open : BOOLEAN, wiped : BOOLEAN, added : Seq(Events)]
      BY <2>8 DEF ExecFails
    <3>2. /\ UNCHANGED <<committed, jsonl, conn, snap, wiped, broken>>
          /\ Reply(c, "err") /\ ops # <<>> /\ faults' = faults + 1 /\ faults < MaxFaults
      BY ONLY <2>8 DEF ExecFails, Executing
    <3>3. /\ ops' \in Seq(Callers) /\ replies' \in Seq(Callers)
          /\ res' \in [Callers -> {"none", "ok", "err"}]
          /\ UNCHANGED <<at, ev, live>>
      BY <3>2
    <3>4. faults' \in 0..MaxFaults
      BY <3>2
    <3>5. QED  BY ONLY TypeOK, <3>1, <3>2, <3>3, <3>4
  <2>9. QED
    BY ONLY <1>5, <2>1, <2>2, <2>3, <2>4, <2>5, <2>6, <2>7, <2>8 DEF Exec
<1>6. ASSUME NEW c \in Callers, CancelCall(c)  PROVE  TypeOK'
  BY <1>6 DEF CancelCall
<1>7. CASE UNCHANGED vars
  BY <1>7 DEF vars, calls
<1>8. QED
  BY <1>1, <1>2, <1>3, <1>4, <1>5, <1>6, <1>7 DEF Next

\* The initial state has the types of TypeOK.
LEMMA TypeInit == Init => TypeOK
<1> SUFFICES ASSUME Init  PROVE  TypeOK
  OBVIOUS
<1>1. /\ committed \in Seq(Events) /\ jsonl \in Seq(Events)
      /\ txn \in [open : BOOLEAN, wiped : BOOLEAN, added : Seq(Events)]
      /\ ops \in Seq(Callers) /\ replies \in Seq(Callers)
  BY DEF Init, NoTxn
<1>2. snap \in [Callers -> Snaps]
  BY DEF Init, NoSnap, Snaps
<1>3. /\ at \in [Callers -> Places] /\ ev \in [Callers -> Events \cup {NoEvent}]
      /\ res \in [Callers -> {"none", "ok", "err"}]
      /\ live \in [Callers -> BOOLEAN]
      /\ \A c \in Callers : at[c] \in {"insert", "commit"} => ev[c] \in Events
  BY DEF Init, Places
<1>4. broken \in BOOLEAN
  BY DEF Init
<1>5. conn \in {"new", "open", "shut", "closed"} /\ wiped \subseteq Events /\ faults \in 0..MaxFaults
  BY MaxFaultsAssumption DEF Init
<1>6. QED
  BY <1>1, <1>2, <1>3, <1>4, <1>5 DEF TypeOK

\* The type invariant is inductive by itself.
THEOREM StoreTypeOK == Spec => []TypeOK
<1>1. Init => TypeOK  BY TypeInit
<1>2. TypeOK /\ [Next]_vars => TypeOK'  BY TypeStep
<1>3. QED  BY <1>1, <1>2, PTL DEF Spec

(***************************************************************************)
(* Durability: what the mirror and the backups hold cannot be lost.        *)
(***************************************************************************)

\* A step that changes neither the files, nor the transaction, nor any add, nor
\* the backups keeps the invariant.
LEMMA DurabilityFrame ==
    ASSUME DurabilityInv,
           UNCHANGED <<committed, txn, jsonl, snap, wiped>>,
           conn' = "open" => conn = "open",
           conn' = "new" => \A c \in Callers : at'[c] = "idle",
           \A c \in Callers : at'[c] \in {"insert", "commit"} /\ res'[c] = "ok" =>
               at'[c] = at[c] /\ res'[c] = res[c] /\ ev'[c] = ev[c],
           \A c \in Callers : at'[c] = "commit" /\ res'[c] # "ok" =>
               \/ at[c] = "commit" /\ res[c] # "ok" /\ ev'[c] = ev[c]
               \/ at[c] = "insert" /\ res[c] = "ok" /\ ev'[c] = ev[c]
    PROVE  DurabilityInv'
<1>1. Held' = Held /\ Safe' = Safe /\ View' = View
  BY DEF Held, Safe, View
<1>2. ASSUME NEW c \in Callers  PROVE  AddIsSafe(c)'
  BY <1>1 DEF DurabilityInv, AddIsSafe
<1>3. QED
  BY <1>1, <1>2 DEF DurabilityInv, MirrorFollowsStore, BackupIsDurable

\* What is durable is readable, except for what a DELETE has removed.
LEMMA SafeIsHeld ==
    ASSUME TypeOK, DurabilityInv  PROVE  Safe \subseteq Held
BY ViewType DEF Safe, Held, DurabilityInv

\* The strengthened invariant is inductive.
LEMMA DurabilityStep ==
    ASSUME TypeOK, TypeOK', DurabilityInv, [Next]_vars  PROVE  DurabilityInv'
<1>0. conn = "new" => \A c \in Callers : at[c] = "idle"
  BY DEF DurabilityInv
<1>1. CASE Open
  BY <1>1, DurabilityFrame DEF Open, calls, DurabilityInv, AddIsSafe, MirrorFollowsStore,
     BackupIsDurable, Safe
<1>2. CASE ProcessEnds
  <2>1. Safe' = Safe  BY <1>2 DEF ProcessEnds, Safe
  <2>2. QED
    BY <1>2, <2>1 DEF ProcessEnds, NoTxn, DurabilityInv, AddIsSafe, MirrorFollowsStore,
       BackupIsDurable
<1>3. ASSUME NEW c \in Callers, Start(c)  PROVE  DurabilityInv'
  <2>1. ASSUME NEW place \in Places \ {"commit"}, NEW e, Begin(c, place, e)
        PROVE  DurabilityInv'
    BY <2>1, DurabilityFrame DEF Begin, Accepting, TypeOK
  <2>2. QED
    BY <1>3, <2>1 DEF Start, AddBegin, ClearBegin, BackupBegin, CloseBegin, Places
<1>4. ASSUME NEW c \in Callers, Resume(c)  PROVE  DurabilityInv'
  <2> USE <1>0 DEF Resumed, Ends
  <2>0. ASSUME NEW from \in {"insert", "delete", "backup"}, NEW to \in Places,
               Continue(c, from, to), to = "commit" => from = "insert", to # "insert"
        PROVE  DurabilityInv'
    <3>1. at' = [at EXCEPT ![c] = to] \/ at' = [at EXCEPT ![c] = "raised"]
      BY <2>0 DEF Continue
    <3>2. /\ conn # "new" /\ res'[c] = "none" /\ at'[c] \in {to, "raised"}
          /\ \A d \in Callers \ {c} : at'[d] = at[d] /\ res'[d] = res[d]
          /\ ev' = ev /\ conn' = conn /\ at[c] = from /\ res[c] = "ok"
          /\ UNCHANGED <<committed, txn, jsonl, snap, wiped>>
      BY <2>0, <3>1 DEF Continue, TypeOK
    <3>3. QED  BY ONLY <2>0, <3>2, DurabilityInv, DurabilityFrame
  <2>1. CASE AddInserted(c)  BY ONLY <2>0, <2>1 DEF AddInserted, Places
  <2>2. CASE ClearDeleted(c)  BY ONLY <2>0, <2>2 DEF ClearDeleted, Places
  <2>3. CASE BackupCopied(c)  BY ONLY <2>0, <2>3 DEF BackupCopied, Places
  <2>4. CASE AddCommitted(c)
    <3>1. jsonl' = jsonl \/ jsonl' = Append(jsonl, ev[c])
      BY <2>4 DEF AddCommitted
    <3>2. ev[c] \in Safe /\ ev[c] \in Events
      BY <2>4 DEF AddCommitted, DurabilityInv, AddIsSafe, TypeOK
    <3>3. Range(jsonl') \subseteq Safe
      <4>1. jsonl \in Seq(Events) /\ Range(jsonl) \subseteq Safe
        BY DEF DurabilityInv, MirrorFollowsStore, TypeOK
      <4>2. Range(Append(jsonl, ev[c])) = Range(jsonl) \cup {ev[c]}
        BY ONLY <3>2, <4>1, RangeAppend
      <4>3. QED  BY ONLY <3>1, <3>2, <4>1, <4>2
    <3>4. Safe' = Safe /\ Held' = Held
      BY <2>4 DEF AddCommitted, Safe, Held, View
    <3>5. ASSUME NEW d \in Callers  PROVE  AddIsSafe(d)'
      BY <2>4, <3>4 DEF AddCommitted, DurabilityInv, AddIsSafe, TypeOK
    <3>6. QED
      BY <2>4, <3>3, <3>4, <3>5 DEF AddCommitted, DurabilityInv, MirrorFollowsStore,
         BackupIsDurable
  <2>5. CASE ClearCommitted(c)
    BY <2>5, DurabilityFrame DEF ClearCommitted, TypeOK
  <2>6. CASE BackupCounted(c)
    <3>1. Safe' = Safe /\ Held' = Held
      BY <2>6 DEF BackupCounted, Safe, Held, View
    <3>2. ASSUME NEW d \in Callers  PROVE  AddIsSafe(d)' /\ snap'[d].db = snap[d].db
      BY <2>6, <3>1 DEF BackupCounted, DurabilityInv, AddIsSafe, TypeOK
    <3>3. QED
      BY <2>6, <3>1, <3>2 DEF BackupCounted, DurabilityInv, MirrorFollowsStore, BackupIsDurable
  <2>7. CASE CloseDone(c)
    BY <2>7, DurabilityFrame DEF CloseDone, TypeOK
  <2>8. CASE Raise(c)
    BY <2>8, DurabilityFrame DEF Raise, TypeOK
  <2>9. CASE Caught(c)
    BY <2>9, DurabilityFrame DEF Caught, TypeOK
  <2>10. CASE Discard(c)
    BY <2>10, DurabilityFrame DEF Discard, calls, TypeOK
  <2>11. QED
    BY <1>4, <2>1, <2>2, <2>3, <2>4, <2>5, <2>6, <2>7, <2>8, <2>9, <2>10 DEF Resume
<1>5. ASSUME NEW c \in Callers, Exec(c)  PROVE  DurabilityInv'
  <2> USE DEF Reply, Executing, TypeOK
  <2>0. Safe \subseteq Held  BY SafeIsHeld
  <2>1. CASE ExecInsert(c)
    <3>1. ev[c] \in Events  BY <2>1 DEF ExecInsert
    <3>2. Range(txn'.added) = Range(txn.added) \cup {ev[c]} \/ (txn'.added = txn.added /\ ev[c] \in Range(View))
      BY <2>1, <3>1, RangeAppend DEF ExecInsert
    <3>3. /\ Range(View) = (IF txn.wiped THEN {} ELSE Range(committed)) \cup Range(txn.added)
          /\ Range(View') = (IF txn'.wiped THEN {} ELSE Range(committed')) \cup Range(txn'.added)
      BY RangeRows DEF View
    <3>4. Held' = Held \cup {ev[c]} /\ Safe' = Safe
      BY <2>1, <3>2, <3>3 DEF ExecInsert, Held, Safe
    <3>5. ASSUME NEW d \in Callers  PROVE  AddIsSafe(d)'
      BY <2>1, <3>4 DEF ExecInsert, DurabilityInv, AddIsSafe
    <3>6. QED
      BY <2>1, <3>4, <3>5 DEF ExecInsert, DurabilityInv, MirrorFollowsStore, BackupIsDurable
  <2>2. CASE ExecDelete(c)
    <3>1. Range(View') = {}
      BY <2>2 DEF ExecDelete, View, Range
    <3>2. Held' = Held /\ Safe \subseteq Safe' /\ Range(committed) \subseteq wiped'
      BY <2>0, <2>2, <3>1 DEF ExecDelete, Held, Safe
    <3>3. ASSUME NEW d \in Callers  PROVE  AddIsSafe(d)'
      BY <2>2, <3>2 DEF ExecDelete, DurabilityInv, AddIsSafe
    <3>4. QED
      BY <2>2, <3>2, <3>3 DEF ExecDelete, DurabilityInv, MirrorFollowsStore, BackupIsDurable
  <2>3. CASE ExecCommit(c)
    <3>1. View' = View /\ Held' = Held /\ Safe' = Held
      BY <2>3, RangeRows DEF ExecCommit, View, Held, Safe, NoTxn
    <3>2. ASSUME NEW d \in Callers  PROVE  AddIsSafe(d)'
      BY <2>0, <2>3, <3>1 DEF ExecCommit, DurabilityInv, AddIsSafe
    <3>3. QED
      BY <2>0, <2>3, <3>1, <3>2 DEF ExecCommit, NoTxn, DurabilityInv, MirrorFollowsStore,
         BackupIsDurable
  <2>4. CASE ExecBackup(c)
    <3>1. Range(View) = Range(committed)
      <4>1. ~txn.wiped /\ txn.added = <<>>  BY <2>4 DEF ExecBackup, DurabilityInv
      <4>2. Range(txn.added) = {}  BY ONLY <4>1 DEF Range
      <4>3. Range(View) = (IF txn.wiped THEN {} ELSE Range(committed)) \cup Range(txn.added)
        BY ViewType
      <4>4. QED  BY ONLY <4>1, <4>2, <4>3
    <3>2. Safe' = Safe /\ Held' = Held
      BY <2>4 DEF ExecBackup, Safe, Held, View
    <3>3. ASSUME NEW d \in Callers  PROVE  AddIsSafe(d)' /\ snap'[d].db \subseteq Safe
      <4>1. AddIsSafe(d)'
        BY <2>4, <3>2 DEF ExecBackup, DurabilityInv, AddIsSafe
      <4>2. snap'[d].db \subseteq Safe
        BY <2>4, <3>1 DEF ExecBackup, DurabilityInv, BackupIsDurable, Safe
      <4>3. QED  BY <4>1, <4>2
    <3>4. QED
      BY <2>4, <3>2, <3>3 DEF ExecBackup, DurabilityInv, MirrorFollowsStore, BackupIsDurable
  <2>5. CASE ExecCount(c)
    BY <1>0, <2>5, DurabilityFrame DEF ExecCount
  <2>6. CASE ExecClose(c)
    <3>1. Safe' = Safe /\ conn' = "shut"  BY <2>6 DEF ExecClose, Safe
    <3>2. ASSUME NEW d \in Callers  PROVE  AddIsSafe(d)'
      BY <2>6, <3>1 DEF ExecClose, DurabilityInv, AddIsSafe
    <3>3. QED
      BY <2>6, <3>1, <3>2 DEF ExecClose, NoTxn, DurabilityInv, MirrorFollowsStore,
         BackupIsDurable
  <2>7. CASE ExecRefused(c)
    <3>1. Safe' = Safe /\ conn' # "open"  BY <2>7 DEF ExecRefused, Safe
    <3>2. ASSUME NEW d \in Callers  PROVE  AddIsSafe(d)'
      BY <2>7, <3>1 DEF ExecRefused, DurabilityInv, AddIsSafe
    <3>3. QED
      BY <2>7, <3>1, <3>2 DEF ExecRefused, DurabilityInv, MirrorFollowsStore, BackupIsDurable
  <2>8. CASE ExecFails(c)
    <3>1. Safe' = Safe /\ View' = View /\ Held' = Held
      BY <2>8 DEF ExecFails, Safe, View, Held
    <3>2. ASSUME NEW d \in Callers  PROVE  AddIsSafe(d)'
      BY <2>0, <2>8, <3>1 DEF ExecFails, DurabilityInv, AddIsSafe
    <3>3. QED
      BY <2>8, <3>1, <3>2 DEF ExecFails, DurabilityInv, MirrorFollowsStore, BackupIsDurable
  <2>9. QED
    BY <1>5, <2>1, <2>2, <2>3, <2>4, <2>5, <2>6, <2>7, <2>8 DEF Exec
<1>6. ASSUME NEW c \in Callers, CancelCall(c)  PROVE  DurabilityInv'
  BY <1>0, <1>6, DurabilityFrame DEF CancelCall
<1>7. CASE UNCHANGED vars
  BY <1>0, <1>7, DurabilityFrame DEF vars, calls
<1>8. QED
  BY <1>1, <1>2, <1>3, <1>4, <1>5, <1>6, <1>7 DEF Next

\* The strengthened invariant holds of every behaviour of the store.
THEOREM Durability == Spec => []DurabilityInv
<1>1. Init => DurabilityInv
  BY DEF Init, DurabilityInv, MirrorFollowsStore, BackupIsDurable, AddIsSafe, NoTxn, NoSnap, Range
<1>2. TypeOK /\ TypeOK' /\ DurabilityInv /\ [Next]_vars => DurabilityInv'
  BY DurabilityStep
<1>3. QED  BY <1>1, <1>2, StoreTypeOK, PTL DEF Spec

\* Store.add writes a line only for a row that can no longer be lost, however
\* many coroutines share the connection and wherever they fail or crash.
THEOREM MirrorFollowsStoreThm == Spec => []MirrorFollowsStore
<1>1. DurabilityInv => MirrorFollowsStore  BY DEF DurabilityInv
<1>2. QED  BY <1>1, Durability, PTL

\* Store.backup copies only rows that can no longer be lost.
THEOREM BackupIsDurableThm == Spec => []BackupIsDurable
<1>1. DurabilityInv => BackupIsDurable  BY DEF DurabilityInv
<1>2. QED  BY <1>1, Durability, PTL

-----------------------------------------------------------------------------
(* II  Nothing twice, and the abstract specifications.                     *)

(***************************************************************************)
(* Sequences without repetition.                                           *)
(***************************************************************************)

\* Appending what a sequence does not hold repeats nothing.
LEMMA InjectiveAppend ==
    ASSUME NEW S, NEW s \in Seq(S), NEW x \in S, IsInjective(s), x \notin Range(s)
    PROVE  IsInjective(Append(s, x))
<1>1. /\ DOMAIN s = 1..Len(s) /\ Len(s) \in Nat
      /\ DOMAIN Append(s, x) = 1..(Len(s) + 1)
      /\ \A i \in 1..Len(s) : Append(s, x)[i] = s[i]
      /\ Append(s, x)[Len(s) + 1] = x
  OBVIOUS
<1>2. \A i \in 1..Len(s) : s[i] # x
  BY <1>1 DEF Range
<1>3. SUFFICES ASSUME NEW i \in 1..(Len(s) + 1), NEW j \in 1..(Len(s) + 1),
                      Append(s, x)[i] = Append(s, x)[j]
               PROVE  i = j
  BY <1>1 DEF IsInjective
<1>4. CASE i \in 1..Len(s) /\ j \in 1..Len(s)
  BY <1>1, <1>3, <1>4 DEF IsInjective
<1>5. CASE i = Len(s) + 1 \/ j = Len(s) + 1
  BY <1>1, <1>2, <1>3, <1>5
<1>6. QED  BY <1>1, <1>4, <1>5

\* The tail of a sequence without repetition does not hold its head.
LEMMA InjectiveTail ==
    ASSUME NEW S, NEW s \in Seq(S), s # <<>>, IsInjective(s)
    PROVE  /\ IsInjective(Tail(s)) /\ Tail(s) \in Seq(S)
           /\ Range(Tail(s)) \subseteq Range(s)
           /\ Head(s) \in Range(s)
           /\ Head(s) \notin Range(Tail(s))
<1>1. /\ DOMAIN s = 1..Len(s) /\ Len(s) \in Nat \ {0}
      /\ DOMAIN Tail(s) = 1..(Len(s) - 1)
      /\ \A i \in 1..(Len(s) - 1) : Tail(s)[i] = s[i + 1]
      /\ Head(s) = s[1] /\ Tail(s) \in Seq(S)
  OBVIOUS
<1>2. \A i \in 1..(Len(s) - 1) : i + 1 \in DOMAIN s /\ i + 1 # 1
  BY <1>1
<1>3. IsInjective(Tail(s))
  BY <1>1, <1>2 DEF IsInjective
<1>4. Range(Tail(s)) \subseteq Range(s)
  BY <1>1, <1>2 DEF Range
<1>5. Head(s) \in Range(s) /\ 1 \in DOMAIN s
  BY <1>1 DEF Range
<1>6. Head(s) \notin Range(Tail(s))
  BY <1>1, <1>2, <1>5 DEF IsInjective, Range
<1>7. QED  BY <1>1, <1>3, <1>4, <1>5, <1>6

\* A sequence is a prefix of its concatenation with another.
LEMMA PrefixOfConcat ==
    ASSUME NEW S, NEW s \in Seq(S), NEW t \in Seq(S)
    PROVE  IsPrefix(s, s \o t)
<1>1. /\ s \o t \in Seq(S) /\ Len(s \o t) = Len(s) + Len(t)
      /\ Len(s) \in Nat /\ Len(t) \in Nat
      /\ \A i \in 1..Len(s) : (s \o t)[i] = s[i]
  OBVIOUS
<1>2. SubSeq(s, 1, Len(s)) = SubSeq(s \o t, 1, Len(s))
  BY <1>1
<1>3. QED  BY <1>1, <1>2 DEF IsPrefix

(***************************************************************************)
(* The two queues of the connection.                                       *)
(***************************************************************************)

\* Submitting a statement for a coroutine that waits for none.
LEMMA QueuesSubmit ==
    ASSUME TypeOK, NEW c \in Callers,
           IsInjective(ops), IsInjective(replies'), replies' \in Seq(Callers),
           Range(ops) \cap Range(replies') = {},
           c \notin Range(ops) \cup Range(replies'),
           ops' = Append(ops, c),
           at'[c] \notin {"idle", "raised"},
           \A d \in Range(ops) \cup Range(replies') : at'[d] \notin {"idle", "raised"}
    PROVE  QueuesInv'
<1>1. IsInjective(ops') /\ Range(ops') = Range(ops) \cup {c}
  BY InjectiveAppend, RangeAppend DEF TypeOK
<1>2. QED  BY <1>1 DEF QueuesInv

\* What a coroutine that is resumed takes from the replies.
LEMMA QueuesResume ==
    ASSUME TypeOK, QueuesInv, NEW c \in Callers,
           replies # <<>>, Head(replies) = c, replies' = Tail(replies)
    PROVE  /\ IsInjective(ops) /\ IsInjective(replies') /\ replies' \in Seq(Callers)
           /\ Range(ops) \cap Range(replies') = {}
           /\ c \notin Range(ops) \cup Range(replies')
           /\ \A d \in Range(ops) \cup Range(replies') :
                  at[d] \notin {"idle", "raised"} /\ d # c /\ d \in Callers
<1>1. /\ IsInjective(replies') /\ replies' \in Seq(Callers)
      /\ Range(replies') \subseteq Range(replies)
      /\ c \in Range(replies) /\ c \notin Range(replies')
  BY InjectiveTail DEF TypeOK, QueuesInv
<1>2. Range(ops) \subseteq Callers /\ Range(replies) \subseteq Callers
  BY RangeType DEF TypeOK
<1>3. QED  BY <1>1, <1>2 DEF QueuesInv

\* The queues of the lock and of the worker are kept in order by every step.
LEMMA QueuesStep ==
    ASSUME TypeOK, QueuesInv, [Next]_vars  PROVE  QueuesInv'
<1>1. CASE Open
  BY <1>1 DEF Open, calls, QueuesInv
<1>2. CASE ProcessEnds
  <2>1. IsInjective(<<>>) /\ Range(<<>>) = {}
    BY DEF IsInjective, Range
  <2>2. QED  BY <1>2, <2>1 DEF ProcessEnds, QueuesInv
<1>3. ASSUME NEW c \in Callers, Start(c)  PROVE  QueuesInv'
  <2>1. PICK place \in {"insert", "delete", "backup", "close"}, e \in Events \cup {NoEvent} :
            Begin(c, place, e)
    BY <1>3 DEF Start, AddBegin, ClearBegin, BackupBegin, CloseBegin
  <2>2. /\ ops' = Append(ops, c) /\ replies' = replies
        /\ at[c] = "idle" /\ at' = [at EXCEPT ![c] = place]
    BY <2>1 DEF Begin
  <2>3. c \notin Range(ops) \cup Range(replies)
    BY <2>2 DEF QueuesInv
  <2>4. \A d \in Range(ops) \cup Range(replies) : at'[d] \notin {"idle", "raised"}
    BY <2>2, <2>3 DEF QueuesInv, TypeOK
  <2>5. at'[c] \notin {"idle", "raised"}
    BY <2>2 DEF TypeOK
  <2>6. replies' \in Seq(Callers) /\ IsInjective(ops) /\ IsInjective(replies')
        /\ Range(ops) \cap Range(replies') = {}
    BY <2>2 DEF TypeOK, QueuesInv
  <2>7. QED  BY <2>2, <2>3, <2>4, <2>5, <2>6, QueuesSubmit
<1>4. ASSUME NEW c \in Callers, Resume(c)  PROVE  QueuesInv'
  <2>1. CASE \E from \in Places, to \in {"commit", "wipe", "count"} : Continue(c, from, to)
    <3>1. PICK from \in Places, to \in {"commit", "wipe", "count"} : Continue(c, from, to)
      BY <2>1
    <3>2. replies # <<>> /\ Head(replies) = c /\ replies' = Tail(replies)
      BY <3>1 DEF Continue, Resumed
    <3>3. CASE ops' = Append(ops, c) /\ at' = [at EXCEPT ![c] = to]
      <4>1. at'[c] \notin {"idle", "raised"}
        BY <3>3 DEF TypeOK
      <4>2. \A d \in Range(ops) \cup Range(replies') : at'[d] \notin {"idle", "raised"}
        BY <3>2, <3>3, QueuesResume DEF TypeOK
      <4>3. QED  BY <3>2, <3>3, <4>1, <4>2, QueuesResume, QueuesSubmit
    <3>4. CASE ops' = ops /\ at' = [at EXCEPT ![c] = "raised"]
      BY <3>2, <3>4, QueuesResume DEF QueuesInv, TypeOK
    <3>5. QED  BY <3>1, <3>3, <3>4 DEF Continue
  <2>2. CASE /\ replies # <<>> /\ Head(replies) = c /\ replies' = Tail(replies)
             /\ ops' = ops
             /\ \A d \in Callers \ {c} : at'[d] = at[d]
    BY <2>2, QueuesResume DEF QueuesInv
  <2>3. CASE Caught(c)
    <3>1. c \notin Range(ops) \cup Range(replies)
      BY <2>3 DEF Caught, QueuesInv
    <3>2. QED  BY <2>3, <3>1, RangeType DEF Caught, Ends, QueuesInv, TypeOK
  <2>4. AddInserted(c) \/ ClearDeleted(c) \/ BackupCopied(c) =>
            \E from \in Places, to \in {"commit", "wipe", "count"} : Continue(c, from, to)
    BY DEF AddInserted, ClearDeleted, BackupCopied, Places
  <2>5. \/ AddCommitted(c) \/ ClearCommitted(c) \/ BackupCounted(c) \/ CloseDone(c)
        \/ Raise(c) \/ Discard(c)
        => /\ replies # <<>> /\ Head(replies) = c /\ replies' = Tail(replies)
           /\ ops' = ops
           /\ \A d \in Callers \ {c} : at'[d] = at[d]
    BY DEF AddCommitted, ClearCommitted, BackupCounted, CloseDone, Raise, Discard,
           Resumed, Ends, calls, TypeOK
  <2>6. QED  BY <1>4, <2>1, <2>2, <2>3, <2>4, <2>5 DEF Resume
<1>5. ASSUME NEW c \in Callers, Exec(c)  PROVE  QueuesInv'
  <2>1. /\ ops # <<>> /\ Head(ops) = c /\ ops' = Tail(ops) /\ at' = at
        /\ replies' \in {replies, Append(replies, c)}
    BY <1>5 DEF Exec, ExecInsert, ExecDelete, ExecCommit, ExecBackup, ExecCount, ExecClose,
                ExecRefused, ExecFails, Executing, Reply
  <2>2. /\ IsInjective(ops') /\ Range(ops') \subseteq Range(ops)
        /\ c \in Range(ops) /\ c \notin Range(ops')
    BY <2>1, InjectiveTail DEF TypeOK, QueuesInv
  <2>3. IsInjective(replies') /\ Range(replies') \subseteq Range(replies) \cup {c}
    <3>1. CASE replies' = replies
      BY <3>1 DEF QueuesInv
    <3>2. CASE replies' = Append(replies, c)
      <4>1. c \notin Range(replies) /\ IsInjective(replies) /\ replies \in Seq(Callers)
        BY <2>2 DEF TypeOK, QueuesInv
      <4>2. IsInjective(Append(replies, c)) /\ Range(Append(replies, c)) = Range(replies) \cup {c}
        BY <4>1, InjectiveAppend, RangeAppend
      <4>3. QED  BY <3>2, <4>2
    <3>3. QED  BY <2>1, <3>1, <3>2
  <2>4. QED  BY <2>1, <2>2, <2>3 DEF QueuesInv
<1>6. ASSUME NEW c \in Callers, CancelCall(c)  PROVE  QueuesInv'
  BY <1>6 DEF CancelCall, QueuesInv
<1>7. CASE UNCHANGED vars
  BY <1>7 DEF vars, calls, QueuesInv
<1>8. QED  BY <1>1, <1>2, <1>3, <1>4, <1>5, <1>6, <1>7 DEF Next

(***************************************************************************)
(* No event is recorded twice.                                             *)
(***************************************************************************)

\* A step that changes no row and no line, and starts no add.
LEMMA FreshnessFrame ==
    ASSUME FreshnessInv, QueuesInv',
           UNCHANGED <<committed, jsonl, wiped>>,
           txn'.wiped = txn.wiped, txn'.added = txn.added,
           \A c \in Range(ops') : at'[c] = "insert" =>
               c \in Range(ops) /\ at[c] = "insert" /\ ev'[c] = ev[c],
           \A c \in Callers : ev'[c] \in {ev[c], NoEvent},
           \A c \in Callers : at'[c] \in {"insert", "commit"} =>
               at[c] \in {"insert", "commit"} /\ ev'[c] = ev[c]
    PROVE  FreshnessInv'
<1>1. View' = View
  BY DEF View
<1>2. QED  BY <1>1 DEF FreshnessInv, RecordedOnce

\* Rows added to an open transaction are added to what is read.
LEMMA ConcatAppend ==
    ASSUME NEW S, NEW s \in Seq(S), NEW t \in Seq(S), NEW x \in S
    PROVE  s \o Append(t, x) = Append(s \o t, x)
OBVIOUS

\* The row that an INSERT adds is new: the statement was waiting for the worker.
LEMMA InsertedRow ==
    ASSUME TypeOK, FreshnessInv, NEW c \in Callers, ExecInsert(c)
    PROVE  /\ ev[c] \in Events /\ ev[c] # NoEvent
           /\ ev[c] \notin Range(View) \cup Range(committed) \cup wiped
           /\ txn'.wiped = txn.wiped /\ txn'.added = Append(txn.added, ev[c])
           /\ View' = Append(View, ev[c])
           /\ UNCHANGED <<committed, wiped>>
<1> DEFINE e == ev[c]
<1>1. /\ txn' = [open |-> TRUE, wiped |-> txn.wiped,
                 added |-> IF e \in Range(View) THEN txn.added ELSE Append(txn.added, e)]
      /\ at[c] = "insert" /\ UNCHANGED <<committed, wiped>>
      /\ ops # <<>> /\ Head(ops) = c
  BY DEF ExecInsert, Executing
<1>2. c \in Range(ops)
  BY <1>1, InjectiveTail DEF TypeOK, FreshnessInv, QueuesInv
<1>3. /\ e \in Events /\ e # NoEvent
      /\ e \notin Range(View) \cup Range(committed) \cup wiped
  BY <1>1, <1>2, NoEventAssumption DEF TypeOK, FreshnessInv
<1>4. /\ txn'.wiped = txn.wiped /\ txn'.added = Append(txn.added, e)
      /\ txn.added \in Seq(Events) /\ committed \in Seq(Events)
  BY <1>1, <1>3 DEF TypeOK
<1>5. View' = Append(View, e)
  <2>1. CASE txn.wiped
    <3>1. View = <<>> \o txn.added /\ View' = <<>> \o txn'.added
      BY <1>4, <2>1 DEF View
    <3>2. <<>> \o Append(txn.added, e) = Append(<<>> \o txn.added, e)
      BY <1>3, <1>4, ConcatAppend
    <3>3. QED  BY <1>4, <3>1, <3>2
  <2>2. CASE ~txn.wiped
    <3>1. View = committed \o txn.added /\ View' = committed \o txn'.added
      BY <1>1, <1>4, <2>2 DEF View
    <3>2. committed \o Append(txn.added, e) = Append(committed \o txn.added, e)
      BY <1>3, <1>4, ConcatAppend
    <3>3. QED  BY <1>4, <3>1, <3>2
  <2>3. QED  BY <2>1, <2>2
<1>6. QED  BY <1>1, <1>3, <1>4, <1>5

\* Every step keeps the events that nobody recorded yet apart from all others.
LEMMA FreshnessStep ==
    ASSUME TypeOK, TypeOK', FreshnessInv, [Next]_vars  PROVE  FreshnessInv'
<1>0. /\ QueuesInv' /\ QueuesInv /\ RecordedOnce
      /\ Range(ops) \subseteq Callers /\ Range(ops') \subseteq Callers
  BY QueuesStep, RangeType DEF FreshnessInv, TypeOK
<1>a. \A a, b \in Callers : ev[a] = ev[b] /\ ev[a] # NoEvent => a = b
  BY DEF FreshnessInv
<1>b. \A a \in Callers : at[a] \in {"insert", "commit"} => ev[a] \notin Range(jsonl)
  BY DEF FreshnessInv
<1>c. \A a \in Range(ops) : at[a] = "insert" =>
          ev[a] \notin Range(View) \cup Range(committed) \cup wiped
  BY DEF FreshnessInv
<1>1. CASE Open
  BY <1>0, <1>1, FreshnessFrame DEF Open, calls
<1>2. CASE ProcessEnds
  <2>1. committed \o <<>> = committed /\ Range(<<>>) = {}
    BY DEF TypeOK, Range
  <2>2. View' = committed /\ committed' = committed /\ jsonl' = jsonl /\ ~txn'.wiped
    BY <1>2, <2>1 DEF ProcessEnds, View, NoTxn
  <2>3. /\ Range(ops') = {}
        /\ \A c \in Callers : ev'[c] = NoEvent /\ at'[c] = "idle"
    BY <1>2, <2>1 DEF ProcessEnds
  <2>4. QED  BY <1>0, <2>2, <2>3 DEF FreshnessInv, RecordedOnce
<1>3. ASSUME NEW c \in Callers, Start(c)  PROVE  FreshnessInv'
  <2>0. at[c] = "idle" /\ c \notin Range(ops)
    BY <1>0, <1>3 DEF Start, AddBegin, ClearBegin, BackupBegin, CloseBegin, Begin, QueuesInv
  <2>1. CASE \E e \in Events : Fresh(e) /\ AddBegin(c, e)
    <3>1. PICK e \in Events : Fresh(e) /\ Begin(c, "insert", e)
      BY <2>1 DEF AddBegin
    <3>2. /\ UNCHANGED <<committed, txn, jsonl, wiped>>
          /\ ev' = [ev EXCEPT ![c] = e] /\ at' = [at EXCEPT ![c] = "insert"]
          /\ ops' = Append(ops, c)
      BY <3>1 DEF Begin
    <3>3. View' = View
      BY <3>2 DEF View
    <3>4. Range(ops') = Range(ops) \cup {c}
      BY <3>2, RangeAppend DEF TypeOK
    <3>5. \A d \in Callers : /\ d # c => ev'[d] = ev[d] /\ at'[d] = at[d] /\ ev[d] # e
                             /\ d = c => ev'[d] = e /\ at'[d] = "insert"
      BY <3>1, <3>2 DEF TypeOK, Fresh
    <3>6. e \notin Range(jsonl) \cup Range(View) \cup Range(committed) \cup wiped
      BY <3>1 DEF Fresh
    <3>7. \A a, b \in Callers : ev'[a] = ev'[b] /\ ev'[a] # NoEvent => a = b
      BY <1>a, <3>5
    <3>8. \A a \in Callers : at'[a] \in {"insert", "commit"} => ev'[a] \notin Range(jsonl')
      BY <1>b, <3>2, <3>5, <3>6
    <3>9. \A a \in Range(ops') : at'[a] = "insert" =>
              ev'[a] \notin Range(View') \cup Range(committed') \cup wiped'
      BY <1>0, <1>c, <2>0, <3>2, <3>3, <3>4, <3>5, <3>6
    <3>10. RecordedOnce' /\ (txn'.wiped => Range(txn'.added) \cap wiped' = {})
      BY <3>2, <3>3 DEF FreshnessInv, RecordedOnce
    <3>11. QED  BY <1>0, <3>7, <3>8, <3>9, <3>10 DEF FreshnessInv
  <2>2. CASE ClearBegin(c) \/ BackupBegin(c) \/ CloseBegin(c)
    <3>1. PICK place \in {"delete", "backup", "close"} : Begin(c, place, NoEvent)
      BY <2>2 DEF ClearBegin, BackupBegin, CloseBegin
    <3>2. /\ UNCHANGED <<committed, txn, jsonl, wiped>>
          /\ ev' = [ev EXCEPT ![c] = NoEvent] /\ at' = [at EXCEPT ![c] = place]
          /\ Range(ops') = Range(ops) \cup {c}
      BY <3>1, RangeAppend DEF Begin, TypeOK
    <3>3. \A d \in Callers : /\ d # c => ev'[d] = ev[d] /\ at'[d] = at[d]
                             /\ d = c => ev'[d] = NoEvent /\ at'[d] = place
      BY <3>2 DEF TypeOK
    <3>4. \A d \in Range(ops') : at'[d] = "insert" =>
              d \in Range(ops) /\ at[d] = "insert" /\ ev'[d] = ev[d]
      BY <1>0, <3>2, <3>3
    <3>5. /\ \A d \in Callers : ev'[d] \in {ev[d], NoEvent}
          /\ \A d \in Callers : at'[d] \in {"insert", "commit"} =>
                 at[d] \in {"insert", "commit"} /\ ev'[d] = ev[d]
      BY <3>3
    <3>6. QED  BY <1>0, <3>2, <3>4, <3>5, FreshnessFrame
  <2>3. QED  BY <1>3, <2>1, <2>2 DEF Start
<1>4. ASSUME NEW c \in Callers, Resume(c)  PROVE  FreshnessInv'
  <2>1. CASE AddCommitted(c)
    <3>1. /\ UNCHANGED <<committed, txn, ops, wiped>>
          /\ jsonl' \in {jsonl, Append(jsonl, ev[c])}
          /\ ev' = [ev EXCEPT ![c] = NoEvent] /\ at' = [at EXCEPT ![c] = "idle"]
          /\ at[c] = "commit"
      BY <2>1 DEF AddCommitted, Resumed, Ends
    <3>2. View' = View
      BY <3>1 DEF View
    <3>3. ev[c] \in Events /\ ev[c] \notin Range(jsonl) /\ ev[c] # NoEvent
      BY <3>1, NoEventAssumption DEF TypeOK, FreshnessInv
    <3>4. IsInjective(jsonl') /\ Range(jsonl') \subseteq Range(jsonl) \cup {ev[c]}
      <4>1. IsInjective(Append(jsonl, ev[c])) /\ Range(Append(jsonl, ev[c])) = Range(jsonl) \cup {ev[c]}
        BY <1>0, <3>3, InjectiveAppend, RangeAppend DEF TypeOK, RecordedOnce
      <4>2. CASE jsonl' = jsonl  BY <1>0, <4>2 DEF RecordedOnce
      <4>3. CASE jsonl' = Append(jsonl, ev[c])  BY <4>1, <4>3
      <4>4. QED  BY <3>1, <4>2, <4>3
    <3>5. \A d \in Callers : /\ d # c => ev'[d] = ev[d] /\ at'[d] = at[d]
                             /\ d = c => ev'[d] = NoEvent /\ at'[d] = "idle"
      BY <3>1 DEF TypeOK
    <3>6. \A a \in Callers : at'[a] \in {"insert", "commit"} => ev'[a] \notin Range(jsonl')
      BY <1>a, <1>b, <3>3, <3>4, <3>5
    <3>7. \A a, b \in Callers : ev'[a] = ev'[b] /\ ev'[a] # NoEvent => a = b
      BY <1>a, <3>5
    <3>8. \A a \in Range(ops') : at'[a] = "insert" =>
              ev'[a] \notin Range(View') \cup Range(committed') \cup wiped'
      BY <1>0, <1>c, <3>1, <3>2, <3>5
    <3>9. RecordedOnce' /\ (txn'.wiped => Range(txn'.added) \cap wiped' = {})
      BY <3>1, <3>2, <3>4 DEF FreshnessInv, RecordedOnce
    <3>10. QED  BY <1>0, <3>6, <3>7, <3>8, <3>9 DEF FreshnessInv
  <2>2. CASE AddInserted(c) \/ ClearDeleted(c) \/ BackupCopied(c)
    <3>1. /\ UNCHANGED <<committed, txn, jsonl, wiped, ev>>
          /\ \E to \in {"commit", "wipe", "count", "raised"} : at' = [at EXCEPT ![c] = to]
          /\ at[c] = "insert" \/ at'[c] # "commit"
          /\ ops' = ops \/ ops' = Append(ops, c)
      BY <2>2 DEF AddInserted, ClearDeleted, BackupCopied, Continue, Resumed, TypeOK
    <3>2. Range(ops') \subseteq Range(ops) \cup {c}
      <4>1. Range(Append(ops, c)) = Range(ops) \cup {c}  BY RangeAppend DEF TypeOK
      <4>2. QED  BY <3>1, <4>1
    <3>3. \A d \in Callers : /\ d # c => at'[d] = at[d]
                             /\ d = c => at'[d] # "insert"
      BY <3>1 DEF TypeOK
    <3>4. \A d \in Range(ops') : at'[d] = "insert" =>
              d \in Range(ops) /\ at[d] = "insert" /\ ev'[d] = ev[d]
      BY <1>0, <3>1, <3>2, <3>3
    <3>5. /\ \A d \in Callers : ev'[d] \in {ev[d], NoEvent}
          /\ \A d \in Callers : at'[d] \in {"insert", "commit"} =>
                 at[d] \in {"insert", "commit"} /\ ev'[d] = ev[d]
      BY <3>1, <3>3
    <3>6. QED  BY <1>0, <3>1, <3>4, <3>5, FreshnessFrame
  <2>3. CASE ClearCommitted(c) \/ BackupCounted(c) \/ CloseDone(c) \/ Raise(c) \/ Caught(c) \/ Discard(c)
    <3>1. /\ UNCHANGED <<committed, txn, jsonl, wiped, ops>>
          /\ \A d \in Callers : ev'[d] \in {ev[d], NoEvent}
          /\ \A d \in Callers : (at'[d] = at[d] /\ ev'[d] = ev[d]) \/ at'[d] \in {"idle", "raised"}
      BY <2>3 DEF ClearCommitted, BackupCounted, CloseDone, Raise, Caught, Discard, Resumed,
                  Ends, calls, TypeOK
    <3>2. QED  BY <1>0, <3>1, FreshnessFrame
  <2>4. QED  BY <1>4, <2>1, <2>2, <2>3 DEF Resume
<1>5. ASSUME NEW c \in Callers, Exec(c)  PROVE  FreshnessInv'
  <2>1. /\ ops # <<>> /\ Head(ops) = c /\ ops' = Tail(ops) /\ at' = at /\ ev' = ev
        /\ jsonl' = jsonl
    BY <1>5 DEF Exec, ExecInsert, ExecDelete, ExecCommit, ExecBackup, ExecCount, ExecClose,
                ExecRefused, ExecFails, Executing, Reply
  <2>2. Range(ops') \subseteq Range(ops) /\ c \in Range(ops) /\ c \notin Range(ops')
    BY <1>0, <2>1, InjectiveTail DEF TypeOK, QueuesInv
  \* What is left to show of a statement that changes rows.
  <2>3. ASSUME IsInjective(View'), IsInjective(committed'),
               txn'.wiped => Range(txn'.added) \cap wiped' = {},
               \A d \in Range(ops') : at[d] = "insert" =>
                   ev[d] \notin Range(View') \cup Range(committed') \cup wiped'
        PROVE  FreshnessInv'
    BY <1>0, <2>1, <2>3 DEF FreshnessInv, RecordedOnce
  <2> DEFINE e == ev[c]
  <2>4. CASE ExecInsert(c)
    <3>1. /\ e \in Events /\ e # NoEvent
          /\ e \notin Range(View) \cup Range(committed) \cup wiped
          /\ txn'.wiped = txn.wiped /\ txn'.added = Append(txn.added, e)
          /\ View' = Append(View, e)
          /\ UNCHANGED <<committed, wiped>>
      BY <2>4, InsertedRow
    <3>2. View \in Seq(Events) /\ txn.added \in Seq(Events)
      BY ViewType DEF TypeOK
    <3>3. /\ IsInjective(View') /\ Range(View') = Range(View) \cup {e}
          /\ Range(txn'.added) = Range(txn.added) \cup {e}
      BY <1>0, <3>1, <3>2, InjectiveAppend, RangeAppend DEF RecordedOnce
    <3>4. \A d \in Range(ops') : ev[d] # e
      BY <1>0, <1>a, <2>2, <3>1
    <3>5. \A d \in Range(ops') : at[d] = "insert" =>
              ev[d] \notin Range(View') \cup Range(committed') \cup wiped'
      BY <1>c, <2>2, <3>1, <3>3, <3>4
    <3>6. txn'.wiped => Range(txn'.added) \cap wiped' = {}
      BY <3>1, <3>3 DEF FreshnessInv
    <3>7. QED  BY <1>0, <2>3, <3>1, <3>3, <3>5, <3>6 DEF RecordedOnce
  <2>5. CASE ExecDelete(c)
    <3>1. /\ txn' = [open |-> TRUE, wiped |-> TRUE, added |-> <<>>]
          /\ wiped' = wiped \cup Range(View) /\ committed' = committed
      BY <2>5 DEF ExecDelete
    <3>2. View' = <<>> /\ IsInjective(<<>>) /\ Range(<<>>) = {}
      BY <3>1 DEF View, IsInjective, Range
    <3>3. QED  BY <1>0, <2>2, <2>3, <3>1, <3>2 DEF FreshnessInv, RecordedOnce
  <2>6. CASE ExecCommit(c)
    <3>1. txn' = NoTxn /\ committed' = View /\ wiped' = wiped /\ View \in Seq(Events)
      BY <2>6, ViewType DEF ExecCommit
    <3>2. View' = View
      <4>1. View \o <<>> = View  BY <3>1
      <4>2. View' = committed' \o <<>>  BY <3>1 DEF View, NoTxn
      <4>3. QED  BY <3>1, <4>1, <4>2
    <3>3. QED  BY <1>0, <2>2, <2>3, <3>1, <3>2 DEF FreshnessInv, RecordedOnce, NoTxn
  <2>7. CASE ExecClose(c)
    <3>1. txn' = NoTxn /\ committed' = committed /\ wiped' = wiped /\ committed \in Seq(Events)
      BY <2>7 DEF ExecClose, TypeOK
    <3>2. View' = committed
      <4>1. committed \o <<>> = committed  BY <3>1
      <4>2. QED  BY <3>1, <4>1 DEF View, NoTxn
    <3>3. QED  BY <1>0, <2>2, <2>3, <3>1, <3>2 DEF FreshnessInv, RecordedOnce, NoTxn
  <2>8. CASE ExecBackup(c) \/ ExecCount(c) \/ ExecRefused(c) \/ ExecFails(c)
    <3>1. /\ UNCHANGED <<committed, wiped>>
          /\ txn'.wiped = txn.wiped /\ txn'.added = txn.added
      BY <2>8 DEF ExecBackup, ExecCount, ExecRefused, ExecFails, TypeOK
    <3>2. QED  BY <1>0, <2>1, <2>2, <3>1, FreshnessFrame
  <2>9. QED  BY <1>5, <2>4, <2>5, <2>6, <2>7, <2>8 DEF Exec
<1>6. ASSUME NEW c \in Callers, CancelCall(c)  PROVE  FreshnessInv'
  BY <1>0, <1>6, FreshnessFrame DEF CancelCall
<1>7. CASE UNCHANGED vars
  BY <1>0, <1>7, FreshnessFrame DEF vars, calls
<1>8. QED  BY <1>1, <1>2, <1>3, <1>4, <1>5, <1>6, <1>7 DEF Next

\* An INSERT that waits for the worker is of an event that is recorded nowhere
\* and is in no other add, however the calls interleave.
THEOREM Freshness == Spec => []FreshnessInv
<1>1. Init => FreshnessInv
  BY DEF Init, FreshnessInv, QueuesInv, RecordedOnce, View, NoTxn, IsInjective, Range
<1>2. TypeOK /\ TypeOK' /\ FreshnessInv /\ [Next]_vars => FreshnessInv'
  BY FreshnessStep
<1>3. QED  BY <1>1, <1>2, StoreTypeOK, PTL DEF Spec

\* The invariants of the connection, of durability and of freshness hold together.
THEOREM Inductive == Spec => []InductiveInv
BY StoreTypeOK, Durability, Freshness, PTL DEF InductiveInv

\* No event is twice in the table, as read or as committed, or in the mirror.
THEOREM RecordedOnceThm == Spec => []RecordedOnce
<1>1. FreshnessInv => RecordedOnce  BY DEF FreshnessInv
<1>2. QED  BY <1>1, Freshness, PTL

(***************************************************************************)
(* The store implements the durable log and the readers' table.            *)
(***************************************************************************)

\* The steps that change rows: three statements, and the end of the connection.
LEMMA RowSteps ==
    ASSUME TypeOK, [Next]_vars
    PROVE  \/ committed' = committed /\ txn'.wiped = txn.wiped /\ txn'.added = txn.added
           \/ committed' = committed /\ txn' = NoTxn
           \/ \E c \in Callers : ExecInsert(c) \/ ExecDelete(c) \/ ExecCommit(c)
<1>1. CASE Open \/ UNCHANGED vars
  BY <1>1 DEF Open, vars
<1>2. CASE ProcessEnds
  BY <1>2 DEF ProcessEnds
<1>3. ASSUME NEW c \in Callers, Start(c) \/ CancelCall(c)
      PROVE  committed' = committed /\ txn' = txn
  BY <1>3 DEF Start, AddBegin, ClearBegin, BackupBegin, CloseBegin, Begin, CancelCall
<1>4. ASSUME NEW c \in Callers, Resume(c)
      PROVE  committed' = committed /\ txn' = txn
  BY <1>4 DEF Resume, AddInserted, ClearDeleted, BackupCopied, Continue, AddCommitted,
              ClearCommitted, BackupCounted, CloseDone, Raise, Caught, Discard
<1>5. ASSUME NEW c \in Callers, Exec(c)
      PROVE  \/ committed' = committed /\ txn'.wiped = txn.wiped /\ txn'.added = txn.added
             \/ committed' = committed /\ txn' = NoTxn
             \/ ExecInsert(c) \/ ExecDelete(c) \/ ExecCommit(c)
  BY <1>5 DEF Exec, ExecBackup, ExecCount, ExecClose, ExecRefused, ExecFails, TypeOK
<1>6. QED  BY <1>1, <1>2, <1>3, <1>4, <1>5 DEF Next

\* The rows that are read: of an empty transaction, of one that holds a DELETE, of
\* any other.
LEMMA RowsOf ==
    ASSUME NEW S, NEW rows \in Seq(S), NEW added \in Seq(S), NEW deleted \in BOOLEAN
    PROVE  /\ ~deleted /\ added = <<>> => (IF deleted THEN <<>> ELSE rows) \o added = rows
           /\ deleted => (IF deleted THEN <<>> ELSE rows) \o added = added
           /\ ~deleted => (IF deleted THEN <<>> ELSE rows) \o added = rows \o added
<1>1. rows \o <<>> = rows /\ <<>> \o added = added
  OBVIOUS
<1>2. CASE deleted  BY <1>1, <1>2
<1>3. CASE ~deleted  BY <1>1, <1>3
<1>4. QED  BY <1>2, <1>3

\* What the connection shows its own readers, by the state of its transaction.
LEMMA ViewOf ==
    ASSUME TypeOK
    PROVE  /\ txn = NoTxn => View = committed
           /\ txn.wiped => View = txn.added
           /\ ~txn.wiped => View = committed \o txn.added
<1>1. committed \in Seq(Events) /\ txn.added \in Seq(Events) /\ txn.wiped \in BOOLEAN
  BY DEF TypeOK
<1>2. View = (IF txn.wiped THEN <<>> ELSE committed) \o txn.added
  BY DEF View
<1>3. committed \o <<>> = committed /\ <<>> \o txn.added = txn.added
  BY <1>1
<1>4. CASE txn.wiped
  BY <1>2, <1>3, <1>4 DEF NoTxn
<1>5. CASE ~txn.wiped
  <2>1. View = committed \o txn.added  BY <1>2, <1>5
  <2>2. txn = NoTxn => txn.added = <<>>  BY DEF NoTxn
  <2>3. QED  BY <1>3, <1>5, <2>1, <2>2
<1>6. QED  BY <1>4, <1>5

\* The instances of the abstract modules have copies of the library's operators.
LEMMA SameOperators ==
    /\ \A s : Log!Range(s) = Range(s) /\ Readers!Range(s) = Range(s)
    /\ \A s : Log!IsInjective(s) <=> IsInjective(s)
    /\ \A s, t : Log!IsPrefix(s, t) <=> IsPrefix(s, t)
BY DEF Range, Log!Range, Readers!Range, IsInjective, Log!IsInjective, IsPrefix, Log!IsPrefix

\* Every step of the store is one of the abstract log, or changes nothing it shows.
LEMMA LogStep ==
    ASSUME TypeOK, TypeOK', DurabilityInv, FreshnessInv, FreshnessInv', [Next]_vars
    PROVE  [Log!Next]_<<committed, txn.wiped>>
<1>0. IsInjective(committed')
  BY DEF FreshnessInv, RecordedOnce
<1>1. CASE committed' = committed /\ txn'.wiped = txn.wiped
  BY <1>1
<1>2. CASE committed' = committed /\ txn' = NoTxn
  <2>1. CASE txn.wiped
    BY <1>2, <2>1 DEF Log!Next, Log!Undo, NoTxn
  <2>2. CASE ~txn.wiped
    <3>1. txn.wiped = FALSE  BY <2>2 DEF TypeOK
    <3>2. QED  BY <1>2, <3>1 DEF NoTxn
  <2>3. QED  BY <2>1, <2>2
<1>3. ASSUME NEW c \in Callers, ExecInsert(c)  PROVE  [Log!Next]_<<committed, txn.wiped>>
  BY <1>3 DEF ExecInsert
<1>4. ASSUME NEW c \in Callers, ExecDelete(c)  PROVE  [Log!Next]_<<committed, txn.wiped>>
  <2>1. committed' = committed /\ txn'.wiped = TRUE
    BY <1>4 DEF ExecDelete
  <2>2. CASE txn.wiped
    <3>1. txn.wiped = TRUE  BY <2>2 DEF TypeOK
    <3>2. QED  BY <2>1, <3>1
  <2>3. CASE ~txn.wiped
    BY <2>1, <2>3 DEF Log!Next, Log!RequestClear
  <2>4. QED  BY <2>2, <2>3
<1>5. ASSUME NEW c \in Callers, ExecCommit(c)  PROVE  [Log!Next]_<<committed, txn.wiped>>
  <2>1. committed' = View /\ txn'.wiped = FALSE
    BY <1>5 DEF ExecCommit, NoTxn
  <2>2. CASE txn.wiped
    <3>1. Range(committed) \cap Range(committed') = {}
      BY <2>1, <2>2, ViewOf DEF FreshnessInv, DurabilityInv
    <3>2. QED  BY <1>0, <2>1, <2>2, <3>1, SameOperators DEF Log!Next, Log!Clear
  <2>3. CASE ~txn.wiped
    <3>1. IsPrefix(committed, committed')
      <4>1. committed \in Seq(Events) /\ txn.added \in Seq(Events)  BY DEF TypeOK
      <4>2. IsPrefix(committed, committed \o txn.added)  BY <4>1, PrefixOfConcat
      <4>3. QED  BY <2>1, <2>3, <4>2, ViewOf
    <3>2. txn.wiped = FALSE  BY <2>3 DEF TypeOK
    <3>3. QED  BY <1>0, <2>1, <3>1, <3>2, SameOperators DEF Log!Next, Log!Grow
  <2>4. QED  BY <2>2, <2>3
<1>6. QED  BY <1>1, <1>2, <1>3, <1>4, <1>5, RowSteps

\* The rows of the database file are the log that EventLog promises: whatever
\* coroutines share the transaction, a COMMIT adds to the end of the log or, when
\* a clear was asked for, leaves only what was recorded since.
THEOREM StoreImplementsEventLog == Spec => ImplementsEventLog
<1>1. Init => Log!Init
  BY DEF Init, Log!Init, NoTxn
<1>2. TypeOK /\ TypeOK' /\ DurabilityInv /\ FreshnessInv /\ FreshnessInv' /\ [Next]_vars
        => [Log!Next]_<<committed, txn.wiped>>
  BY LogStep
<1>3. QED
  BY <1>1, <1>2, StoreTypeOK, Durability, Freshness, PTL DEF Spec, ImplementsEventLog, Log!Spec

\* Every step of the store is one of the abstract table that readers poll, or
\* changes nothing they see.
LEMMA TableStep ==
    ASSUME TypeOK, TypeOK', FreshnessInv, FreshnessInv', [Next]_vars
    PROVE  [Readers!NextTable]_<<View, committed>>
<1>0. /\ View' = (IF txn'.wiped THEN <<>> ELSE committed') \o txn'.added
      /\ committed' \in Seq(Events) /\ txn'.added \in Seq(Events) /\ txn'.wiped \in BOOLEAN
  BY DEF View, TypeOK
<1>1. CASE committed' = committed /\ txn'.wiped = txn.wiped /\ txn'.added = txn.added
  BY <1>1 DEF View
<1>2. CASE committed' = committed /\ txn' = NoTxn
  <2>1. View' = committed
    BY <1>0, <1>2, RowsOf DEF NoTxn
  <2>2. QED  BY <1>2, <2>1 DEF Readers!NextTable, Readers!Rollback
<1>3. ASSUME NEW c \in Callers, ExecInsert(c)  PROVE  [Readers!NextTable]_<<View, committed>>
  <2>1. PICK e \in Events : /\ View' = Append(View, e) /\ committed' = committed
                            /\ e \notin Range(View) \cup Range(committed)
    BY <1>3, InsertedRow
  <2>2. QED  BY <2>1, SameOperators DEF Readers!NextTable, Readers!Insert
<1>4. ASSUME NEW c \in Callers, ExecDelete(c)  PROVE  [Readers!NextTable]_<<View, committed>>
  <2>1. committed' = committed /\ txn'.wiped /\ txn'.added = <<>>
    BY <1>4 DEF ExecDelete
  <2>2. View' = <<>>
    BY <1>0, <2>1, RowsOf
  <2>3. QED  BY <2>1, <2>2 DEF Readers!NextTable, Readers!Delete
<1>5. ASSUME NEW c \in Callers, ExecCommit(c)  PROVE  [Readers!NextTable]_<<View, committed>>
  <2>1. committed' = View /\ txn' = NoTxn
    BY <1>5 DEF ExecCommit
  <2>2. View' = View
    BY <1>0, <2>1, RowsOf DEF NoTxn
  <2>3. QED  BY <2>1, <2>2 DEF Readers!NextTable, Readers!Commit
<1>6. QED  BY <1>1, <1>2, <1>3, <1>4, <1>5, RowSteps

\* What the daemon's readers see, uncommitted rows included, is the table that
\* `cia tail' pages through.
THEOREM StoreImplementsTable == Spec => ImplementsTable
<1>1. Init => Readers!InitTable
  BY DEF Init, Readers!InitTable, NoTxn, View
<1>2. TypeOK /\ TypeOK' /\ FreshnessInv /\ FreshnessInv' /\ [Next]_vars
        => [Readers!NextTable]_<<View, committed>>
  BY TableStep
<1>3. QED
  BY <1>1, <1>2, StoreTypeOK, Freshness, PTL DEF Spec, ImplementsTable, Readers!SpecTable

-----------------------------------------------------------------------------
(* III  Order.                                                             *)

(***************************************************************************)
(* Order in a sequence.                                                    *)
(***************************************************************************)

\* x has a place in s before a place of y.
Precedes(s, x, y) == \E i, j \in DOMAIN s : i < j /\ s[i] = x /\ s[j] = y

\* What precedes what in an appended sequence.
LEMMA PrecedesAppend ==
    ASSUME NEW S, NEW s \in Seq(S), NEW z \in S, NEW x, NEW y
    PROVE  Precedes(Append(s, z), x, y)
               <=> Precedes(s, x, y) \/ (x \in Range(s) /\ y = z)
<1>1. /\ Len(s) \in Nat /\ DOMAIN s = 1..Len(s)
      /\ DOMAIN Append(s, z) = 1..(Len(s) + 1)
      /\ \A i \in 1..Len(s) : Append(s, z)[i] = s[i]
      /\ Append(s, z)[Len(s) + 1] = z
  OBVIOUS
<1>2. ASSUME NEW i \in 1..Len(s), NEW j \in 1..Len(s), i < j, s[i] = x, s[j] = y
      PROVE  Precedes(Append(s, z), x, y)
  <2>1. i \in DOMAIN Append(s, z) /\ j \in DOMAIN Append(s, z)  BY <1>1
  <2>2. Append(s, z)[i] = x /\ Append(s, z)[j] = y  BY <1>1, <1>2
  <2>3. QED  BY <1>2, <2>1, <2>2 DEF Precedes
<1>3. ASSUME NEW i \in 1..Len(s), s[i] = x, y = z  PROVE  Precedes(Append(s, z), x, y)
  <2>1. i \in DOMAIN Append(s, z) /\ Len(s) + 1 \in DOMAIN Append(s, z) /\ i < Len(s) + 1
    BY <1>1
  <2>2. Append(s, z)[i] = x /\ Append(s, z)[Len(s) + 1] = y  BY <1>1, <1>3
  <2>3. QED  BY <2>1, <2>2 DEF Precedes
<1>4. ASSUME NEW i \in 1..(Len(s) + 1), NEW j \in 1..(Len(s) + 1), i < j,
             Append(s, z)[i] = x, Append(s, z)[j] = y
      PROVE  Precedes(s, x, y) \/ (x \in Range(s) /\ y = z)
  <2>1. i \in 1..Len(s) /\ s[i] = x  BY <1>1, <1>4
  <2>2. CASE j \in 1..Len(s)
    <3>1. s[j] = y  BY <1>1, <1>4, <2>2
    <3>2. QED  BY <1>1, <1>4, <2>1, <2>2, <3>1 DEF Precedes
  <2>3. CASE j = Len(s) + 1
    BY <1>1, <1>4, <2>1, <2>3 DEF Range
  <2>4. QED  BY <1>1, <2>2, <2>3
<1>5. QED
  <2>1. Precedes(s, x, y) => Precedes(Append(s, z), x, y)
    BY <1>1, <1>2 DEF Precedes
  <2>2. x \in Range(s) /\ y = z => Precedes(Append(s, z), x, y)
    BY <1>1, <1>3 DEF Range
  <2>3. Precedes(Append(s, z), x, y) => Precedes(s, x, y) \/ (x \in Range(s) /\ y = z)
    BY <1>1, <1>4 DEF Precedes
  <2>4. QED  BY <2>1, <2>2, <2>3

\* In a sequence without repetition, nothing precedes the head, and what it
\* precedes goes with it.
LEMMA PrecedesTail ==
    ASSUME NEW S, NEW s \in Seq(S), s # <<>>, IsInjective(s), NEW x, NEW y, Precedes(s, x, y)
    PROVE  /\ y # Head(s) /\ x # y
           /\ x # Head(s) => Precedes(Tail(s), x, y)
<1>1. /\ DOMAIN s = 1..Len(s) /\ Len(s) \in Nat \ {0}
      /\ DOMAIN Tail(s) = 1..(Len(s) - 1)
      /\ \A i \in 1..(Len(s) - 1) : Tail(s)[i] = s[i + 1]
      /\ Head(s) = s[1]
  OBVIOUS
<1>2. PICK i \in 1..Len(s), j \in 1..Len(s) : i < j /\ s[i] = x /\ s[j] = y
  BY <1>1 DEF Precedes
<1>3. y # Head(s) /\ x # y
  BY <1>1, <1>2 DEF IsInjective
<1>4. ASSUME x # Head(s)  PROVE  Precedes(Tail(s), x, y)
  <2>1. i - 1 \in 1..(Len(s) - 1) /\ j - 1 \in 1..(Len(s) - 1) /\ i - 1 < j - 1
    BY <1>1, <1>2, <1>4
  <2>2. Tail(s)[i - 1] = x /\ Tail(s)[j - 1] = y
    BY <1>1, <1>2, <2>1
  <2>3. QED  BY <1>1, <2>1, <2>2 DEF Precedes
<1>5. QED  BY <1>3, <1>4

\* What precedes and what is preceded are in the sequence.
LEMMA PrecedesRange ==
    ASSUME NEW s, NEW x, NEW y, Precedes(s, x, y)
    PROVE  x \in Range(s) /\ y \in Range(s)
BY DEF Precedes, Range

\* The head precedes all the rest.
LEMMA HeadPrecedes ==
    ASSUME NEW S, NEW s \in Seq(S), s # <<>>
    PROVE  Range(s) = {Head(s)} \cup Range(Tail(s))
<1>1. /\ DOMAIN s = 1..Len(s) /\ Len(s) \in Nat \ {0}
      /\ DOMAIN Tail(s) = 1..(Len(s) - 1)
      /\ \A i \in 1..(Len(s) - 1) : Tail(s)[i] = s[i + 1]
      /\ Head(s) = s[1]
  OBVIOUS
<1>2. ASSUME NEW i \in 1..Len(s)  PROVE  s[i] \in {Head(s)} \cup Range(Tail(s))
  <2>1. CASE i = 1  BY <1>1, <2>1
  <2>2. CASE i # 1
    <3>1. i - 1 \in 1..(Len(s) - 1) /\ Tail(s)[i - 1] = s[i]  BY <1>1, <2>2
    <3>2. QED  BY <1>1, <3>1 DEF Range
  <2>3. QED  BY <2>1, <2>2
<1>3. ASSUME NEW i \in 1..(Len(s) - 1)  PROVE  Tail(s)[i] \in Range(s)
  <2>1. i + 1 \in 1..Len(s)  BY <1>1
  <2>2. QED  BY <1>1, <2>1 DEF Range
<1>4. Head(s) \in Range(s)
  <2>1. 1 \in 1..Len(s)  BY <1>1
  <2>2. QED  BY <1>1, <2>1 DEF Range
<1>5. Range(s) \subseteq {Head(s)} \cup Range(Tail(s))
  BY <1>1, <1>2 DEF Range
<1>6. Range(Tail(s)) \subseteq Range(s)
  BY <1>1, <1>3 DEF Range
<1>7. QED  BY <1>4, <1>5, <1>6

\* Positions in a sequence without repetition.
LEMMA PosPrecedes ==
    ASSUME NEW S, NEW s \in Seq(S), IsInjective(s), NEW x \in Range(s), NEW y \in Range(s)
    PROVE  Pos(s, x) < Pos(s, y) <=> Precedes(s, x, y)
<1>1. /\ Pos(s, x) \in DOMAIN s /\ s[Pos(s, x)] = x
      /\ Pos(s, y) \in DOMAIN s /\ s[Pos(s, y)] = y
  BY DEF Pos, Range
<1>2. \A i \in DOMAIN s : (s[i] = x => i = Pos(s, x)) /\ (s[i] = y => i = Pos(s, y))
  BY <1>1 DEF IsInjective
<1>3. QED  BY <1>1, <1>2 DEF Precedes

(***************************************************************************)
(* The order in which coroutines wait.                                     *)
(***************************************************************************)

\* c will be resumed before d: its statement is ahead in the queues.
Before(c, d) == \/ Precedes(replies, c, d)
                \/ c \in Range(replies) /\ d \in Range(ops)
                \/ Precedes(ops, c, d)

\* The coroutines that wait for a statement.
Waiting == Range(ops) \cup Range(replies)

\* A coroutine in the middle of a call waits for its statement, unless it was
\* cancelled.
WaitsInv == \A c \in Callers : live[c] /\ at[c] \notin {"idle", "raised"} => c \in Waiting

Submits(c) == ops' = Append(ops, c) /\ replies' = replies
Leaves(c) == replies # <<>> /\ Head(replies) = c /\ replies' = Tail(replies)
Executes(c) == /\ ops # <<>> /\ Head(ops) = c /\ ops' = Tail(ops)
               /\ replies' = IF live[c] THEN Append(replies, c) ELSE replies

\* What a step may do to the two queues: submit a statement, resume a coroutine,
\* which may submit its next statement, or execute a statement.
LEMMA QueueSteps ==
    ASSUME TypeOK, [Next]_vars
    PROVE  \/ ops' = ops /\ replies' = replies
           \/ ProcessEnds
           \/ \E c \in Callers : Start(c) /\ Submits(c)
           \/ \E c \in Callers : Resume(c) /\ Leaves(c) /\ ops' \in {ops, Append(ops, c)}
           \/ \E c \in Callers : Exec(c) /\ Executes(c)
<1>1. CASE Open \/ UNCHANGED vars
  BY <1>1 DEF Open, vars
<1>2. ASSUME NEW c \in Callers, Start(c)  PROVE  Submits(c)
  BY <1>2 DEF Start, AddBegin, ClearBegin, BackupBegin, CloseBegin, Begin, Submits
<1>3. ASSUME NEW c \in Callers, Resume(c)
      PROVE  \/ ops' = ops /\ replies' = replies
             \/ Leaves(c) /\ ops' \in {ops, Append(ops, c)}
  BY <1>3 DEF Resume, AddInserted, ClearDeleted, BackupCopied, Continue, AddCommitted,
              ClearCommitted, BackupCounted, CloseDone, Raise, Caught, Discard, Resumed, Leaves
<1>4. ASSUME NEW c \in Callers, Exec(c)  PROVE  Executes(c)
  BY <1>4 DEF Exec, ExecInsert, ExecDelete, ExecCommit, ExecBackup, ExecCount, ExecClose,
              ExecRefused, ExecFails, Executing, Reply, Executes
<1>5. ASSUME NEW c \in Callers, CancelCall(c)  PROVE  ops' = ops /\ replies' = replies
  BY <1>5 DEF CancelCall
<1>6. QED  BY <1>1, <1>2, <1>3, <1>4, <1>5 DEF Next

\* Who waits after a step of each kind.
LEMMA WaitingSteps ==
    ASSUME TypeOK, NEW c \in Callers
    PROVE  /\ Submits(c) => Range(ops') = Range(ops) \cup {c} /\ Range(replies') = Range(replies)
           /\ Leaves(c) /\ QueuesInv =>
                  /\ Range(replies) = {c} \cup Range(replies') /\ c \notin Range(replies')
                  /\ c \notin Range(ops)
           /\ Executes(c) /\ QueuesInv =>
                  /\ Range(ops) = {c} \cup Range(ops') /\ c \notin Range(ops')
                  /\ Range(replies') = IF live[c] THEN Range(replies) \cup {c} ELSE Range(replies)
<1>1. Submits(c) => Range(ops') = Range(ops) \cup {c} /\ Range(replies') = Range(replies)
  BY RangeAppend DEF Submits, TypeOK
<1>2. ASSUME Leaves(c), QueuesInv
      PROVE  /\ Range(replies) = {c} \cup Range(replies') /\ c \notin Range(replies')
             /\ c \notin Range(ops)
  BY <1>2, HeadPrecedes, InjectiveTail DEF Leaves, QueuesInv, TypeOK
<1>3. ASSUME Executes(c), QueuesInv
      PROVE  /\ Range(ops) = {c} \cup Range(ops') /\ c \notin Range(ops')
             /\ Range(replies') = IF live[c] THEN Range(replies) \cup {c} ELSE Range(replies)
  <2>1. Range(ops) = {c} \cup Range(ops') /\ c \notin Range(ops')
    BY <1>3, HeadPrecedes, InjectiveTail DEF Executes, QueuesInv, TypeOK
  <2>2. Range(Append(replies, c)) = Range(replies) \cup {c}
    BY RangeAppend DEF TypeOK
  <2>3. QED  BY <1>3, <2>1, <2>2 DEF Executes
<1>4. QED  BY <1>1, <1>2, <1>3

\* Nobody is before the coroutine that is resumed, and nobody before himself.
LEMMA NoneBeforeHead ==
    ASSUME TypeOK, QueuesInv, NEW c, NEW d, Before(c, d)
    PROVE  /\ c # d /\ c \in Waiting /\ d \in Waiting
           /\ replies # <<>> => d # Head(replies)
<1>0. /\ replies \in Seq(Callers) /\ ops \in Seq(Callers)
      /\ IsInjective(ops) /\ IsInjective(replies) /\ Range(ops) \cap Range(replies) = {}
  BY DEF TypeOK, QueuesInv
<1>1. replies # <<>> => Head(replies) \in Range(replies)
  BY <1>0, HeadPrecedes
<1>2. CASE Precedes(replies, c, d)
  <2>1. replies # <<>>  BY <1>2 DEF Precedes
  <2>2. QED  BY <1>0, <1>2, <2>1, PrecedesTail, PrecedesRange DEF Waiting
<1>3. CASE c \in Range(replies) /\ d \in Range(ops)
  BY <1>0, <1>1, <1>3 DEF Waiting
<1>4. CASE Precedes(ops, c, d)
  <2>1. ops # <<>>  BY <1>4 DEF Precedes
  <2>2. c # d  BY <1>0, <1>4, <2>1, PrecedesTail
  <2>3. c \in Range(ops) /\ d \in Range(ops)  BY <1>4, PrecedesRange
  <2>4. QED  BY <1>0, <1>1, <2>2, <2>3 DEF Waiting
<1>5. QED  BY <1>2, <1>3, <1>4 DEF Before

\* The order of two coroutines stays until the first is resumed.
LEMMA BeforeStep ==
    ASSUME TypeOK, QueuesInv, [Next]_vars, ~ProcessEnds,
           NEW c \in Callers, NEW d \in Callers, Before(c, d), live[c], live[d], ~Leaves(c)
    PROVE  Before(c, d)'
<1>0. /\ replies \in Seq(Callers) /\ ops \in Seq(Callers)
      /\ IsInjective(ops) /\ IsInjective(replies) /\ Range(ops) \cap Range(replies) = {}
  BY DEF TypeOK, QueuesInv
<1>1. CASE ops' = ops /\ replies' = replies
  BY <1>1 DEF Before
<1>2. ASSUME NEW b \in Callers, Submits(b)  PROVE  Before(c, d)'
  BY <1>0, <1>2, PrecedesAppend, WaitingSteps DEF Before, Submits
<1>3. ASSUME NEW b \in Callers, Leaves(b), ops' \in {ops, Append(ops, b)}
      PROVE  Before(c, d)'
  <2>1. b # c /\ b # d
    BY <1>3, NoneBeforeHead DEF Leaves
  <2>2. Precedes(replies, c, d) => Precedes(replies', c, d)
    BY <1>0, <1>3, <2>1, PrecedesTail DEF Leaves
  <2>3. c \in Range(replies) => c \in Range(replies')
    BY <1>3, <2>1, WaitingSteps
  <2>4. /\ Precedes(ops, c, d) => Precedes(ops', c, d)
        /\ d \in Range(ops) => d \in Range(ops')
    <3>1. /\ Precedes(ops, c, d) => Precedes(Append(ops, b), c, d)
          /\ Range(Append(ops, b)) = Range(ops) \cup {b}
      BY <1>0, PrecedesAppend, RangeAppend
    <3>2. CASE ops' = ops  BY <3>2
    <3>3. CASE ops' = Append(ops, b)  BY <3>1, <3>3
    <3>4. QED  BY <1>3, <3>2, <3>3
  <2>5. QED  BY <2>2, <2>3, <2>4 DEF Before
<1>4. ASSUME NEW b \in Callers, Executes(b)  PROVE  Before(c, d)'
  <2>1. Precedes(replies, c, d) => Precedes(replies', c, d)
    BY <1>0, <1>4, PrecedesAppend DEF Executes
  <2>2. CASE c \in Range(replies) /\ d \in Range(ops)
    <3>1. c \in Range(replies')  BY <1>4, <2>2, WaitingSteps
    <3>2. CASE d = b
      <4>1. Precedes(replies', c, d)
        BY <1>0, <1>4, <2>2, <3>2, PrecedesAppend DEF Executes
      <4>2. QED  BY <4>1 DEF Before
    <3>3. CASE d # b
      <4>1. d \in Range(ops')  BY <1>4, <2>2, <3>3, WaitingSteps
      <4>2. QED  BY <3>1, <4>1 DEF Before
    <3>4. QED  BY <3>2, <3>3
  <2>3. CASE Precedes(ops, c, d)
    <3>1. d # b /\ (c # b => Precedes(ops', c, d))
      BY <1>0, <1>4, <2>3, PrecedesTail DEF Executes
    <3>2. c = b => c \in Range(replies')
      BY <1>4, WaitingSteps
    <3>3. d \in Range(ops')
      BY <1>4, <2>3, <3>1, PrecedesRange, WaitingSteps
    <3>4. QED  BY <3>1, <3>2, <3>3 DEF Before
  <2>4. QED  BY <2>1, <2>2, <2>3 DEF Before
<1>5. QED  BY <1>1, <1>2, <1>3, <1>4, QueueSteps

\* Whoever submits a statement comes after all that wait.
LEMMA BeforeSubmitted ==
    ASSUME TypeOK, QueuesInv, NEW c \in Callers, NEW d \in Callers, c # d, c \in Waiting,
           Submits(d) \/ (Leaves(d) /\ ops' = Append(ops, d))
    PROVE  Before(c, d)'
<1>0. replies \in Seq(Callers) /\ ops \in Seq(Callers)
  BY DEF TypeOK
<1>1. ops' = Append(ops, d) /\ d \in Range(ops')
  <2>1. Range(Append(ops, d)) = Range(ops) \cup {d}  BY <1>0, RangeAppend
  <2>2. QED  BY <2>1 DEF Submits
<1>2. CASE c \in Range(ops)
  BY <1>0, <1>1, <1>2, PrecedesAppend DEF Before
<1>3. CASE c \in Range(replies)
  <2>1. c \in Range(replies')
    BY <1>3, WaitingSteps DEF Submits
  <2>2. QED  BY <1>1, <2>1 DEF Before
<1>4. QED  BY <1>2, <1>3 DEF Waiting

\* A coroutine that is executed comes after all that were executed.
LEMMA BeforeExecuted ==
    ASSUME TypeOK, NEW c \in Range(replies), NEW d \in Callers, Executes(d), live[d]
    PROVE  Before(c, d)'
BY PrecedesAppend DEF Executes, Before, TypeOK

\* In the middle of a call a coroutine waits, unless it was cancelled.
LEMMA WaitsStep ==
    ASSUME TypeOK, TypeOK', QueuesInv, WaitsInv, [Next]_vars  PROVE  WaitsInv'
<1>1. CASE UNCHANGED <<ops, replies, at, live>>
  BY <1>1 DEF WaitsInv, Waiting
<1>2. CASE Open \/ UNCHANGED vars
  BY <1>1, <1>2 DEF Open, vars, calls
<1>3. CASE ProcessEnds
  BY <1>3 DEF ProcessEnds, WaitsInv
<1>4. ASSUME NEW c \in Callers, Start(c)  PROVE  WaitsInv'
  <2>1. Submits(c) /\ live' = live /\ \A d \in Callers : d # c => at'[d] = at[d]
    BY <1>4 DEF Start, AddBegin, ClearBegin, BackupBegin, CloseBegin, Begin, Submits, TypeOK
  <2>2. QED  BY <2>1, WaitingSteps DEF WaitsInv, Waiting
<1>5. ASSUME NEW c \in Callers, Resume(c)  PROVE  WaitsInv'
  <2>1. /\ live' = live /\ \A d \in Callers : d # c => at'[d] = at[d]
        /\ \/ ops' = ops /\ replies' = replies
           \/ Leaves(c) /\ ops' \in {ops, Append(ops, c)}
        /\ ~live[c] \/ at'[c] \in {"idle", "raised"} \/ ops' = Append(ops, c)
    BY <1>5 DEF Resume, AddInserted, ClearDeleted, BackupCopied, Continue, AddCommitted,
                ClearCommitted, BackupCounted, CloseDone, Raise, Caught, Discard, Resumed,
                Leaves, Ends, calls, TypeOK
  <2>2. Range(ops) \subseteq Range(ops') /\ (ops' = Append(ops, c) => c \in Range(ops'))
    <3>1. Range(Append(ops, c)) = Range(ops) \cup {c}  BY RangeAppend DEF TypeOK
    <3>2. QED  BY <2>1, <3>1
  <2>3. \A d \in Waiting : d # c => d \in Waiting'
    BY <2>1, <2>2, WaitingSteps DEF Waiting
  <2>4. QED  BY <2>1, <2>2, <2>3 DEF WaitsInv, Waiting
<1>6. ASSUME NEW c \in Callers, Exec(c)  PROVE  WaitsInv'
  <2>1. Executes(c) /\ at' = at /\ live' = live
    BY <1>6 DEF Exec, ExecInsert, ExecDelete, ExecCommit, ExecBackup, ExecCount, ExecClose,
                ExecRefused, ExecFails, Executing, Reply, Executes
  <2>2. QED  BY <2>1, WaitingSteps DEF WaitsInv, Waiting
<1>7. ASSUME NEW c \in Callers, CancelCall(c)  PROVE  WaitsInv'
  BY <1>7 DEF CancelCall, WaitsInv, Waiting, TypeOK
<1>8. QED  BY <1>2, <1>3, <1>4, <1>5, <1>6, <1>7 DEF Next

(***************************************************************************)
(* Rows and lines have the same order.                                     *)
(***************************************************************************)

\* The add of c can still write its line.
OnItsWay(c) == live[c] /\ at[c] \in {"insert", "commit"}

\* e has no line and gets none.
Missed(e) == e \notin Range(jsonl) /\ \A c \in Callers : OnItsWay(c) => ev[c] # e

\* What holds of two rows, e above f: their lines are in that order, or the add of
\* e writes none any more, or it will do so before the add of f.
InOrder(e, f) ==
    /\ f \in Range(jsonl) => Precedes(jsonl, e, f) \/ Missed(e)
    /\ \A c, d \in Callers :
           OnItsWay(c) /\ OnItsWay(d) /\ ev[c] = e /\ ev[d] = f =>
               \/ at[c] = "commit" /\ at[d] = "insert"
               \/ at[c] = at[d] /\ Before(c, d)

Above(e, f) == Precedes(View, e, f) \/ Precedes(committed, e, f)

OrderInv == \A e, f \in Events : Above(e, f) => InOrder(e, f)

\* The row that gets into the pair is one an INSERT adds below all that are read.
LEMMA AboveStep ==
    ASSUME TypeOK, TypeOK', FreshnessInv, [Next]_vars, NEW e, NEW f, Above(e, f)'
    PROVE  \/ Above(e, f)
           \/ \E d \in Callers : ExecInsert(d) /\ f = ev[d] /\ e \in Range(View)
<1>0. /\ View' = (IF txn'.wiped THEN <<>> ELSE committed') \o txn'.added
      /\ committed' \in Seq(Events) /\ txn'.added \in Seq(Events) /\ txn'.wiped \in BOOLEAN
  BY DEF View, TypeOK
<1>1. CASE committed' = committed /\ txn'.wiped = txn.wiped /\ txn'.added = txn.added
  BY <1>1 DEF Above, View
<1>2. CASE committed' = committed /\ txn' = NoTxn
  <2>1. View' = committed  BY <1>0, <1>2, RowsOf DEF NoTxn
  <2>2. QED  BY <1>2, <2>1 DEF Above
<1>3. ASSUME NEW c \in Callers, ExecInsert(c)
      PROVE  Above(e, f) \/ (f = ev[c] /\ e \in Range(View))
  <2>1. View' = Append(View, ev[c]) /\ committed' = committed /\ ev[c] \in Events
    BY <1>3, InsertedRow
  <2>2. View \in Seq(Events)  BY ViewType
  <2>3. QED  BY <2>1, <2>2, PrecedesAppend DEF Above
<1>4. ASSUME NEW c \in Callers, ExecDelete(c)  PROVE  Above(e, f)
  <2>1. committed' = committed /\ txn'.wiped /\ txn'.added = <<>>
    BY <1>4 DEF ExecDelete
  <2>2. View' = <<>> /\ ~Precedes(<<>>, e, f)
    BY <1>0, <2>1, RowsOf DEF Precedes
  <2>3. QED  BY <2>1, <2>2 DEF Above
<1>5. ASSUME NEW c \in Callers, ExecCommit(c)  PROVE  Above(e, f)
  <2>1. committed' = View /\ txn' = NoTxn  BY <1>5 DEF ExecCommit
  <2>2. View' = View  BY <1>0, <2>1, RowsOf DEF NoTxn
  <2>3. QED  BY <2>1, <2>2 DEF Above
<1>6. QED  BY <1>1, <1>2, <1>3, <1>4, <1>5, RowSteps

\* Taking the head off a queue is neither nothing nor an append.
LEMMA TailIsShorter ==
    ASSUME NEW S, NEW s \in Seq(S), s # <<>>
    PROVE  Tail(s) # s /\ \A x \in S : Tail(s) # Append(s, x)
<1>1. Len(Tail(s)) = Len(s) - 1 /\ \A x \in S : Len(Append(s, x)) = Len(s) + 1
  OBVIOUS
<1>2. Len(s) \in Nat  OBVIOUS
<1>3. Len(s) - 1 # Len(s) /\ Len(s) - 1 # Len(s) + 1
  BY <1>2
<1>4. QED  BY <1>1, <1>3, Zenon

\* An add that is under way after a step, of an event that was known before, was
\* under way before, and has been resumed only to go from its INSERT to its COMMIT.
LEMMA WayStep ==
    ASSUME TypeOK, [Next]_vars, NEW e, ~Fresh(e), NEW c \in Callers,
           OnItsWay(c)', ev'[c] = e
    PROVE  /\ OnItsWay(c) /\ ev[c] = e /\ ~ProcessEnds
           /\ \/ at'[c] = at[c] /\ ~Leaves(c)
              \/ at[c] = "insert" /\ at'[c] = "commit" /\ Leaves(c) /\ ops' = Append(ops, c)
<1> DEFINE Kept == OnItsWay(c) /\ ev[c] = e /\ at'[c] = at[c]
<1>0. replies # <<>> => /\ Tail(replies) # replies
                        /\ \A d \in Callers : Tail(replies) # Append(replies, d)
  BY TailIsShorter DEF TypeOK
<1>2. ~ProcessEnds
  BY DEF ProcessEnds, OnItsWay
<1>3. ASSUME NEW d \in Callers, Start(d)  PROVE  Kept /\ ~Leaves(c)
  <2>1. PICK p \in {"insert", "delete", "backup", "close"}, x \in Events \cup {NoEvent} :
            Begin(d, p, x) /\ (p # "insert" \/ Fresh(x))
    BY <1>3 DEF Start, AddBegin, ClearBegin, BackupBegin, CloseBegin
  <2>2. d # c
    BY <2>1 DEF Begin, OnItsWay, TypeOK
  <2>3. QED  BY <1>0, <2>1, <2>2 DEF Begin, OnItsWay, TypeOK, Leaves
<1>4. ASSUME NEW d \in Callers, Resume(d)
      PROVE  /\ OnItsWay(c) /\ ev[c] = e
             /\ \/ at'[c] = at[c] /\ ~Leaves(c)
                \/ at[c] = "insert" /\ at'[c] = "commit" /\ Leaves(c) /\ ops' = Append(ops, c)
  <2>1. CASE d = c
    BY <1>4, <2>1 DEF Resume, AddInserted, ClearDeleted, BackupCopied, Continue, AddCommitted,
       ClearCommitted, BackupCounted, CloseDone, Raise, Caught, Discard, Resumed, Leaves, Ends,
       calls, OnItsWay, TypeOK
  <2>2. CASE d # c
    BY <1>0, <1>4, <2>2 DEF Resume, AddInserted, ClearDeleted, BackupCopied, Continue, AddCommitted,
       ClearCommitted, BackupCounted, CloseDone, Raise, Caught, Discard, Resumed, Leaves, Ends,
       calls, OnItsWay, TypeOK
  <2>3. QED  BY <2>1, <2>2
<1>5. ASSUME NEW d \in Callers, Exec(d)  PROVE  Kept /\ ~Leaves(c)
  <2>1. Executes(d) /\ at' = at /\ live' = live /\ ev' = ev
    BY <1>5 DEF Exec, ExecInsert, ExecDelete, ExecCommit, ExecBackup, ExecCount, ExecClose,
                ExecRefused, ExecFails, Executing, Reply, Executes
  <2>2. QED  BY <1>0, <2>1 DEF Executes, Leaves, OnItsWay
<1>6. ASSUME NEW d \in Callers, CancelCall(d)  PROVE  Kept /\ ~Leaves(c)
  <2>1. d # c  BY <1>6 DEF CancelCall, OnItsWay, TypeOK
  <2>2. QED  BY <1>0, <1>6, <2>1 DEF CancelCall, OnItsWay, Leaves, TypeOK
<1>7. CASE Open \/ UNCHANGED vars
  BY <1>0, <1>2, <1>7 DEF Open, vars, calls, OnItsWay, Leaves
<1>8. QED  BY <1>2, <1>3, <1>4, <1>5, <1>6, <1>7 DEF Next

\* Only an add that ends writes a line.
LEMMA LineStep ==
    ASSUME TypeOK, [Next]_vars
    PROVE  \/ jsonl' = jsonl
           \/ \E d \in Callers : /\ jsonl' = Append(jsonl, ev[d]) /\ ev[d] \in Events
                                 /\ OnItsWay(d) /\ at[d] = "commit" /\ Leaves(d)
<1>1. CASE Open \/ ProcessEnds \/ UNCHANGED vars
  BY <1>1 DEF Open, ProcessEnds, vars
<1>2. ASSUME NEW c \in Callers, Start(c) \/ Exec(c) \/ CancelCall(c)  PROVE  jsonl' = jsonl
  BY <1>2 DEF Start, AddBegin, ClearBegin, BackupBegin, CloseBegin, Begin, CancelCall, Exec,
              ExecInsert, ExecDelete, ExecCommit, ExecBackup, ExecCount, ExecClose, ExecRefused,
              ExecFails
<1>3. ASSUME NEW c \in Callers, AddCommitted(c)
      PROVE  \/ jsonl' = jsonl
             \/ /\ jsonl' = Append(jsonl, ev[c]) /\ ev[c] \in Events
                /\ OnItsWay(c) /\ at[c] = "commit" /\ Leaves(c)
  BY <1>3 DEF AddCommitted, Resumed, OnItsWay, Leaves, TypeOK
<1>4. ASSUME NEW c \in Callers, Resume(c), ~AddCommitted(c)  PROVE  jsonl' = jsonl
  BY <1>4 DEF Resume, AddInserted, ClearDeleted, BackupCopied, Continue,
              ClearCommitted, BackupCounted, CloseDone, Raise, Caught, Discard
<1>5. QED  BY <1>1, <1>2, <1>3, <1>4 DEF Next

\* An event that was missed stays without its line.
LEMMA MissedStep ==
    ASSUME TypeOK, [Next]_vars, NEW e, ~Fresh(e), Missed(e)  PROVE  Missed(e)'
<1>1. \A c \in Callers : OnItsWay(c)' => ev'[c] # e
  BY WayStep DEF Missed
<1>2. e \notin Range(jsonl')
  <2>1. CASE jsonl' = jsonl  BY <2>1 DEF Missed
  <2>2. ASSUME NEW d \in Callers, jsonl' = Append(jsonl, ev[d]), ev[d] \in Events, OnItsWay(d)
        PROVE  e \notin Range(jsonl')
    <3>1. Range(Append(jsonl, ev[d])) = Range(jsonl) \cup {ev[d]}
      BY <2>2, RangeAppend DEF TypeOK
    <3>2. QED  BY <2>2, <3>1 DEF Missed
  <2>3. QED  BY <2>1, <2>2, LineStep
<1>3. QED  BY <1>1, <1>2 DEF Missed

\* Two rows that are in order stay in order.
LEMMA InOrderStep ==
    ASSUME TypeOK, TypeOK', FreshnessInv, WaitsInv, [Next]_vars,
           NEW e \in Events, NEW f \in Events, e # f, ~Fresh(e), ~Fresh(f), InOrder(e, f)
    PROVE  InOrder(e, f)'
<1>0. QueuesInv /\ jsonl \in Seq(Events)
  BY DEF FreshnessInv, TypeOK
<1>1. ASSUME f \in Range(jsonl')  PROVE  Precedes(jsonl', e, f) \/ Missed(e)'
  <2>1. CASE f \in Range(jsonl)
    <3>1. Missed(e) => Missed(e)'  BY MissedStep
    <3>2. Precedes(jsonl, e, f) => Precedes(jsonl', e, f)
      <4>1. CASE jsonl' = jsonl  BY <4>1
      <4>2. ASSUME NEW d \in Callers, jsonl' = Append(jsonl, ev[d]), ev[d] \in Events
            PROVE  Precedes(jsonl, e, f) => Precedes(jsonl', e, f)
        BY <1>0, <4>2, PrecedesAppend
      <4>3. QED  BY <4>1, <4>2, LineStep
    <3>3. QED  BY <2>1, <3>1, <3>2 DEF InOrder
  <2>2. CASE f \notin Range(jsonl)
    <3>1. PICK d \in Callers : /\ jsonl' = Append(jsonl, ev[d]) /\ ev[d] \in Events
                               /\ OnItsWay(d) /\ at[d] = "commit" /\ Leaves(d)
      BY <1>1, <2>2, LineStep
    <3>2. ev[d] = f
      <4>1. Range(Append(jsonl, ev[d])) = Range(jsonl) \cup {ev[d]}
        BY <1>0, <3>1, RangeAppend
      <4>2. QED  BY <1>1, <2>2, <3>1, <4>1
    <3>3. CASE e \in Range(jsonl)
      BY <1>0, <3>1, <3>2, <3>3, PrecedesAppend
    <3>4. CASE e \notin Range(jsonl)
      <4>1. ASSUME NEW c \in Callers, OnItsWay(c), ev[c] = e  PROVE  FALSE
        <5>1. Before(c, d)  BY <3>1, <3>2, <4>1 DEF InOrder
        <5>2. QED  BY <1>0, <3>1, <5>1, NoneBeforeHead DEF Leaves
      <4>2. Missed(e)  BY <3>4, <4>1 DEF Missed
      <4>3. QED  BY <4>2, MissedStep
    <3>5. QED  BY <3>3, <3>4
  <2>3. QED  BY <2>1, <2>2
<1>2. ASSUME NEW c \in Callers, NEW d \in Callers,
             OnItsWay(c)', OnItsWay(d)', ev'[c] = e, ev'[d] = f
      PROVE  \/ at'[c] = "commit" /\ at'[d] = "insert"
             \/ at'[c] = at'[d] /\ Before(c, d)'
  <2>1. /\ OnItsWay(c) /\ ev[c] = e /\ ~ProcessEnds
        /\ \/ at'[c] = at[c] /\ ~Leaves(c)
           \/ at[c] = "insert" /\ at'[c] = "commit" /\ Leaves(c) /\ ops' = Append(ops, c)
    BY <1>2, WayStep
  <2>2. /\ OnItsWay(d) /\ ev[d] = f
        /\ \/ at'[d] = at[d] /\ ~Leaves(d)
           \/ at[d] = "insert" /\ at'[d] = "commit" /\ Leaves(d) /\ ops' = Append(ops, d)
    BY <1>2, WayStep
  <2>3. c # d /\ live[c] /\ live[d] /\ c \in Waiting
    BY <2>1, <2>2 DEF OnItsWay, WaitsInv
  <2>4. CASE at[c] = "commit" /\ at[d] = "insert"
    <3>1. at'[c] = "commit"  BY <2>1, <2>4
    <3>2. Leaves(d) /\ ops' = Append(ops, d) => Before(c, d)'
      BY <1>0, <2>3, BeforeSubmitted
    <3>3. QED  BY <2>2, <2>4, <3>1, <3>2
  <2>5. CASE at[c] = at[d] /\ Before(c, d)
    <3>1. ~Leaves(d)
      BY <1>0, <2>5, NoneBeforeHead DEF Leaves
    <3>2. CASE at'[c] = at[c] /\ ~Leaves(c)
      <4>1. Before(c, d)'
        BY <1>0, <2>1, <2>3, <2>5, <3>2, BeforeStep
      <4>2. QED  BY <2>2, <2>5, <3>1, <3>2, <4>1
    <3>3. CASE at[c] = "insert" /\ at'[c] = "commit"
      BY <2>2, <2>5, <3>1, <3>3
    <3>4. QED  BY <2>1, <3>2, <3>3
  <2>6. QED  BY <2>1, <2>2, <2>4, <2>5 DEF InOrder
<1>3. QED  BY <1>1, <1>2 DEF InOrder

\* An inserted row is in order with every row above it.
LEMMA InOrderInserted ==
    ASSUME TypeOK, FreshnessInv, FreshnessInv', WaitsInv,
           NEW d \in Callers, ExecInsert(d), NEW e \in Range(View)
    PROVE  InOrder(e, ev[d])'
<1>0. /\ at[d] = "insert" /\ UNCHANGED <<at, ev, live>> /\ Executes(d)
  BY DEF ExecInsert, Executing, Reply, Executes
<1>1. ev[d] # NoEvent /\ ev'[d] \notin Range(jsonl')
  BY <1>0, InsertedRow DEF FreshnessInv
<1>2. ASSUME NEW b \in Callers, NEW c \in Callers,
             OnItsWay(b)', OnItsWay(c)', ev'[b] = e, ev'[c] = ev[d]
      PROVE  \/ at'[b] = "commit" /\ at'[c] = "insert"
             \/ at'[b] = at'[c] /\ Before(b, c)'
  <2>1. c = d  BY <1>0, <1>1, <1>2 DEF FreshnessInv
  <2>2. CASE at[b] = "commit"  BY <1>0, <2>1, <2>2
  <2>3. CASE at[b] = "insert"
    <3>1. b \in Range(replies)
      <4>1. b \in Waiting  BY <1>0, <1>2, <2>3 DEF WaitsInv, OnItsWay
      <4>2. b \notin Range(ops)  BY <1>0, <1>2, <2>3 DEF FreshnessInv
      <4>3. QED  BY <4>1, <4>2 DEF Waiting
    <3>2. live[d]  BY <1>0, <1>2, <2>1 DEF OnItsWay
    <3>3. Before(b, d)'  BY <1>0, <3>1, <3>2, BeforeExecuted
    <3>4. QED  BY <1>0, <2>1, <2>3, <3>3
  <2>4. QED  BY <1>0, <1>2, <2>2, <2>3 DEF OnItsWay
<1>3. QED  BY <1>0, <1>1, <1>2 DEF InOrder

\* Every step keeps two events in the order they were recorded in.
LEMMA OrderStep ==
    ASSUME TypeOK, TypeOK', FreshnessInv, FreshnessInv', WaitsInv, OrderInv, [Next]_vars
    PROVE  OrderInv'
<1> SUFFICES ASSUME NEW e \in Events, NEW f \in Events, Above(e, f)'
             PROVE  InOrder(e, f)'
  BY DEF OrderInv
<1>1. CASE Above(e, f)
  <2>1. /\ View \in Seq(Events) /\ committed \in Seq(Events)
        /\ IsInjective(View) /\ IsInjective(committed)
    BY ViewType DEF TypeOK, FreshnessInv, RecordedOnce
  <2>2. e \in Range(View) \cup Range(committed) /\ f \in Range(View) \cup Range(committed)
    BY <1>1, PrecedesRange DEF Above
  <2>3. e # f
    <3>1. View # <<>> /\ Precedes(View, e, f) => e # f  BY <2>1, PrecedesTail
    <3>2. committed # <<>> /\ Precedes(committed, e, f) => e # f  BY <2>1, PrecedesTail
    <3>3. ~Precedes(<<>>, e, f)  BY DEF Precedes
    <3>4. QED  BY <1>1, <3>1, <3>2, <3>3 DEF Above
  <2>4. ~Fresh(e) /\ ~Fresh(f)  BY <2>2 DEF Fresh
  <2>5. InOrder(e, f)  BY <1>1 DEF OrderInv
  <2>6. QED  BY <2>3, <2>4, <2>5, InOrderStep
<1>2. ASSUME NEW d \in Callers, ExecInsert(d), f = ev[d], e \in Range(View)
      PROVE  InOrder(e, f)'
  <2>1. ev' = ev  BY <1>2 DEF ExecInsert, Reply
  <2>2. QED  BY <1>2, <2>1, InOrderInserted
<1>3. QED  BY <1>1, <1>2, AboveStep

\* In every state the coroutines in the middle of a call wait for a statement.
THEOREM Waits == Spec => []WaitsInv
<1>1. Init => WaitsInv  BY DEF Init, WaitsInv
<1>2. TypeOK /\ TypeOK' /\ FreshnessInv /\ WaitsInv /\ [Next]_vars => WaitsInv'
  BY WaitsStep DEF FreshnessInv
<1>3. QED  BY <1>1, <1>2, StoreTypeOK, Freshness, PTL DEF Spec

\* The adds of rows come to their ends in the order of the rows.
THEOREM Order == Spec => []OrderInv
<1>1. Init => OrderInv
  <2>1. ASSUME Init, NEW e, NEW f  PROVE  ~Above(e, f)
    BY <2>1 DEF Init, Above, View, NoTxn, Precedes
  <2>2. QED  BY <2>1 DEF OrderInv
<1>2. TypeOK /\ TypeOK' /\ FreshnessInv /\ FreshnessInv' /\ WaitsInv /\ OrderInv /\ [Next]_vars
        => OrderInv'
  BY OrderStep
<1>3. QED  BY <1>1, <1>2, StoreTypeOK, Freshness, Waits, PTL DEF Spec

\* Two events that are both in the table and in the mirror are there in the same
\* order, whatever other coroutines do to the shared connection, and whatever fails.
THEOREM SameOrderThm == Spec => []SameOrder
<1>1. TypeOK /\ FreshnessInv /\ OrderInv => SameOrder
  <2> SUFFICES ASSUME TypeOK, FreshnessInv, OrderInv,
                      NEW e \in Range(committed) \cap Range(jsonl),
                      NEW f \in Range(committed) \cap Range(jsonl),
                      Pos(committed, e) < Pos(committed, f)
               PROVE  Pos(jsonl, e) < Pos(jsonl, f)
    BY DEF SameOrder
  <2>1. /\ committed \in Seq(Events) /\ jsonl \in Seq(Events)
        /\ IsInjective(committed) /\ IsInjective(jsonl)
        /\ e \in Events /\ f \in Events
    BY RangeType DEF TypeOK, FreshnessInv, RecordedOnce
  <2>2. Precedes(committed, e, f)  BY <2>1, PosPrecedes
  <2>3. Precedes(jsonl, e, f)  BY <2>1, <2>2 DEF OrderInv, Above, InOrder, Missed
  <2>4. QED  BY <2>1, <2>3, PosPrecedes
<1>2. QED  BY <1>1, StoreTypeOK, Freshness, Order, PTL

(***************************************************************************)
(* No row is without its line, while nothing fails.                        *)
(***************************************************************************)

Unbroken == faults = 0 /\ ~broken

\* Once the worker has closed the connection, the coroutine of close is the last
\* that has a reply to wait for.
ClosesLast ==
    /\ conn \in {"new", "open"} => \A c \in Callers : ~(at[c] = "close" /\ res[c] = "ok")
    /\ conn = "shut" =>
           /\ replies # <<>>
           /\ \A c \in Callers : at[c] = "close" /\ res[c] = "ok" <=> c = replies[Len(replies)]
    /\ conn = "closed" => replies = <<>>

CompleteInv ==
    Unbroken =>
        /\ \A c \in Callers : live[c] /\ res[c] # "err" /\ at[c] # "raised"
        /\ ClosesLast
        /\ \A e \in Range(View) \cup Range(committed) :
               \/ e \in Range(jsonl)
               \/ \E c \in Callers : ev[c] = e /\ at[c] \in {"insert", "commit"}

\* The rows that a backup has copied have their lines, or will have them by the
\* time it copies the lines.
CoversInv ==
    Unbroken =>
        \A c \in Callers :
            /\ snap[c].done => snap[c].db \subseteq snap[c].lines
            /\ at[c] = "backup" /\ res[c] = "ok" =>
                   \A e \in snap[c].db \ Range(jsonl) :
                       \E d \in Callers : /\ ev[d] = e
                                          /\ at[d] = "commit" \/ (at[d] = "insert" /\ Before(d, c))
            /\ at[c] = "count" =>
                   \A e \in snap[c].db \ Range(jsonl) :
                       \E d \in Callers : ev[d] = e /\ at[d] = "commit" /\ Before(d, c)

\* The last element of a sequence that is extended, or loses its head.
LEMMA LastOf ==
    ASSUME NEW S, NEW s \in Seq(S)
    PROVE  /\ \A x \in S : Append(s, x) # <<>> /\ Append(s, x)[Len(Append(s, x))] = x
           /\ s # <<>> => Len(s) \in DOMAIN s /\ s[Len(s)] \in S
           /\ s # <<>> /\ IsInjective(s) /\ Head(s) = s[Len(s)] => Tail(s) = <<>>
           /\ s # <<>> /\ Head(s) # s[Len(s)] =>
                  Tail(s) # <<>> /\ Tail(s)[Len(Tail(s))] = s[Len(s)]
<1>1. /\ Len(s) \in Nat /\ DOMAIN s = 1..Len(s)
      /\ \A x \in S : Len(Append(s, x)) = Len(s) + 1 /\ Append(s, x)[Len(s) + 1] = x
  OBVIOUS
<1>2. \A x \in S : Append(s, x) # <<>> /\ Append(s, x)[Len(Append(s, x))] = x
  BY <1>1
<1>3. ASSUME s # <<>>
      PROVE  /\ Len(s) \in DOMAIN s /\ 1 \in DOMAIN s /\ s[Len(s)] \in S /\ Head(s) = s[1]
             /\ Len(Tail(s)) = Len(s) - 1
             /\ \A i \in 1..(Len(s) - 1) : Tail(s)[i] = s[i + 1]
  BY <1>3
<1>4. ASSUME s # <<>>, IsInjective(s), Head(s) = s[Len(s)]  PROVE  Tail(s) = <<>>
  <2>1. s[1] = s[Len(s)]  BY <1>3, <1>4
  <2>2. Len(s) = 1  BY <1>3, <1>4, <2>1 DEF IsInjective
  <2>3. Tail(s) \in Seq(S) /\ Len(Tail(s)) = 0  BY <1>3, <1>4, <2>2
  <2>4. \A t \in Seq(S) : Len(t) = 0 => t = <<>>  OBVIOUS
  <2>5. QED  BY <2>3, <2>4
<1>5. ASSUME s # <<>>, Head(s) # s[Len(s)]
      PROVE  Tail(s) # <<>> /\ Tail(s)[Len(Tail(s))] = s[Len(s)]
  <2>1. Len(s) > 1  BY <1>1, <1>3, <1>5
  <2>2. Len(s) - 1 \in 1..(Len(s) - 1)  BY <1>1, <2>1
  <2>3. Tail(s)[Len(s) - 1] = s[Len(s)]  BY <1>1, <1>3, <1>5, <2>2
  <2>4. Len(Tail(s)) = Len(s) - 1 /\ Len(s) - 1 # 0  BY <1>1, <1>3, <1>5, <2>1
  <2>5. Len(<<>>) = 0  OBVIOUS
  <2>6. QED  BY <2>3, <2>4, <2>5, Zenon
<1>6. QED  BY <1>2, <1>3, <1>4, <1>5

\* The steps of a store in which nothing is broken and nothing fails.
LEMMA UnbrokenSteps ==
    ASSUME TypeOK, CompleteInv, Unbroken', [Next]_vars
    PROVE  /\ Unbroken
           /\ ProcessEnds => \A c \in Callers : at[c] = "idle"
           /\ \A c \in Callers :
                  /\ ~CancelCall(c) /\ ~ExecRefused(c) /\ ~ExecFails(c)
                  /\ ~Raise(c) /\ ~Caught(c) /\ ~Discard(c)
                  /\ AddInserted(c) \/ ClearDeleted(c) \/ BackupCopied(c) => Accepting
<1>1. Unbroken
  <2>1. CASE Open \/ UNCHANGED vars
    BY <2>1 DEF Open, vars, Unbroken
  <2>2. CASE ProcessEnds
    BY <2>2 DEF ProcessEnds, Unbroken
  <2>3. ASSUME NEW c \in Callers, Start(c) \/ CancelCall(c)  PROVE  Unbroken
    BY <2>3 DEF Start, AddBegin, ClearBegin, BackupBegin, CloseBegin, Begin, CancelCall, Unbroken
  <2>4. ASSUME NEW c \in Callers, Resume(c)  PROVE  Unbroken
    <3>1. CASE AddInserted(c) \/ ClearDeleted(c) \/ BackupCopied(c)
      <4>1. faults' = faults /\ broken' = (broken \/ ~Accepting)
        BY <3>1 DEF AddInserted, ClearDeleted, BackupCopied, Continue
      <4>2. QED  BY <4>1, Zenon DEF Unbroken
    <3>2. CASE \/ AddCommitted(c) \/ ClearCommitted(c) \/ BackupCounted(c) \/ CloseDone(c)
               \/ Raise(c) \/ Caught(c) \/ Discard(c)
      BY <3>2 DEF AddCommitted, ClearCommitted, BackupCounted, CloseDone, Raise, Caught, Discard,
                  Unbroken
    <3>3. QED  BY <2>4, <3>1, <3>2 DEF Resume
  <2>5. ASSUME NEW c \in Callers, Exec(c)  PROVE  Unbroken
    BY <2>5, MaxFaultsAssumption DEF Exec, ExecInsert, ExecDelete, ExecCommit, ExecBackup,
       ExecCount, ExecClose, ExecRefused, ExecFails, Unbroken, TypeOK
  <2>6. QED  BY <2>1, <2>2, <2>3, <2>4, <2>5 DEF Next
<1>2. \A c \in Callers : live[c] /\ res[c] # "err" /\ at[c] # "raised"
  BY <1>1 DEF CompleteInv
<1>3. ProcessEnds => \A c \in Callers : at[c] = "idle"
  BY DEF ProcessEnds, Unbroken
<1>4. ASSUME NEW c \in Callers
      PROVE  /\ ~CancelCall(c) /\ ~ExecRefused(c) /\ ~ExecFails(c)
             /\ ~Raise(c) /\ ~Caught(c) /\ ~Discard(c)
             /\ AddInserted(c) \/ ClearDeleted(c) \/ BackupCopied(c) => Accepting
  <2>1. ~ExecFails(c)
    BY MaxFaultsAssumption DEF ExecFails, Unbroken, TypeOK
  <2>2. QED
    BY <1>2, <2>1 DEF CancelCall, ExecRefused, Raise, Caught, Discard, Resumed, Unbroken,
       AddInserted, ClearDeleted, BackupCopied, Continue
<1>5. QED  BY <1>1, <1>3, <1>4

\* While nothing is broken, the one that closes the store is the last to wait.
LEMMA ClosesLastStep ==
    ASSUME TypeOK, TypeOK', QueuesInv, CompleteInv, Unbroken', [Next]_vars
    PROVE  ClosesLast'
<1>0. /\ Unbroken /\ ClosesLast /\ replies \in Seq(Callers) /\ IsInjective(replies)
      /\ \A c \in Callers : live[c] /\ res[c] # "err" /\ at[c] # "raised"
  BY UnbrokenSteps DEF CompleteInv, QueuesInv, TypeOK
<1>1. CASE Open \/ UNCHANGED vars
  BY <1>0, <1>1 DEF Open, vars, calls, ClosesLast
<1>2. CASE ProcessEnds
  BY <1>2 DEF ProcessEnds, ClosesLast
<1>3. ASSUME NEW c \in Callers, Start(c)  PROVE  ClosesLast'
  <2>1. /\ conn' = conn /\ conn \in {"open", "shut"} /\ replies' = replies
        /\ res'[c] = "none" /\ at[c] = "idle"
        /\ \A d \in Callers : d # c => at'[d] = at[d] /\ res'[d] = res[d]
    BY <1>3 DEF Start, AddBegin, ClearBegin, BackupBegin, CloseBegin, Begin, Accepting, TypeOK
  <2>2. CASE conn = "open"  BY <1>0, <2>1, <2>2 DEF ClosesLast
  <2>3. CASE conn = "shut"
    <3>1. replies # <<>> /\ c # replies[Len(replies)]
      BY <1>0, <2>1, <2>3 DEF ClosesLast
    <3>2. QED  BY <1>0, <2>1, <2>3, <3>1 DEF ClosesLast
  <2>4. QED  BY <2>1, <2>2, <2>3
<1>4. ASSUME NEW c \in Callers, Resume(c)  PROVE  ClosesLast'
  <2>1. CASE CloseDone(c)
    <3>1. /\ conn' = "closed" /\ replies' = Tail(replies) /\ replies # <<>>
          /\ Head(replies) = c /\ at[c] = "close" /\ res[c] = "ok"
      BY <2>1 DEF CloseDone, Resumed
    <3>2. conn # "closed" /\ conn = "shut"
      BY <1>0, <3>1 DEF ClosesLast, TypeOK
    <3>3. c = replies[Len(replies)]  BY <1>0, <3>1, <3>2 DEF ClosesLast
    <3>4. replies' = <<>>  BY <1>0, <3>1, <3>3, LastOf
    <3>5. QED  BY <3>1, <3>4 DEF ClosesLast
  <2>2. CASE ~CloseDone(c)
    <3>1. /\ conn' = conn /\ replies' = Tail(replies) /\ replies # <<>> /\ Head(replies) = c
          /\ at[c] # "close" /\ at'[c] # "close"
          /\ \A d \in Callers : d # c => at'[d] = at[d] /\ res'[d] = res[d]
      <4>1. ~Raise(c) /\ ~Caught(c) /\ ~Discard(c)  BY UnbrokenSteps
      <4>2. QED
        BY <1>4, <2>2, <4>1 DEF Resume, AddInserted, ClearDeleted, BackupCopied, Continue,
           AddCommitted, ClearCommitted, BackupCounted, Resumed, Ends, TypeOK
    <3>2. conn # "closed"  BY <1>0, <3>1 DEF ClosesLast
    <3>3. CASE conn \in {"new", "open"}  BY <1>0, <3>1, <3>3 DEF ClosesLast
    <3>4. CASE conn = "shut"
      <4>1. c # replies[Len(replies)]  BY <1>0, <3>1, <3>4 DEF ClosesLast
      <4>2. replies' # <<>> /\ replies'[Len(replies')] = replies[Len(replies)]
        BY <1>0, <3>1, <4>1, LastOf
      <4>3. QED  BY <1>0, <3>1, <3>4, <4>1, <4>2 DEF ClosesLast
    <3>5. QED  BY <3>2, <3>3, <3>4 DEF TypeOK
  <2>3. QED  BY <2>1, <2>2
<1>5. ASSUME NEW c \in Callers, Exec(c)  PROVE  ClosesLast'
  <2>0. ~ExecRefused(c) /\ ~ExecFails(c)  BY UnbrokenSteps
  <2>1. /\ conn = "open" /\ Executes(c) /\ at' = at
        /\ \A d \in Callers : d # c => res'[d] = res[d]
        /\ \/ conn' = "open" /\ at[c] # "close"
           \/ conn' = "shut" /\ at[c] = "close" /\ res'[c] = "ok"
    BY <1>5, <2>0 DEF Exec, ExecInsert, ExecDelete, ExecCommit, ExecBackup, ExecCount, ExecClose,
       Executing, Reply, Executes, TypeOK
  <2>2. replies' = Append(replies, c)
    BY <1>0, <2>1 DEF Executes
  <2>3. replies' # <<>> /\ replies'[Len(replies')] = c
    BY <1>0, <2>2, LastOf
  <2>4. QED  BY <1>0, <2>1, <2>3 DEF ClosesLast
<1>6. QED  BY <1>1, <1>2, <1>3, <1>4, <1>5, UnbrokenSteps DEF Next

\* An add under way, of an event that has no line yet, stays under way.
LEMMA AdderStep ==
    ASSUME TypeOK, QueuesInv, CompleteInv, Unbroken', [Next]_vars,
           NEW c \in Callers, at[c] \in {"insert", "commit"}, ev[c] \notin Range(jsonl')
    PROVE  /\ ev'[c] = ev[c] /\ ~ProcessEnds
           /\ \/ at'[c] = at[c] /\ ~Leaves(c)
              \/ at[c] = "insert" /\ at'[c] = "commit"
<1>0. /\ ClosesLast /\ \A d \in Callers : live[d] /\ res[d] # "err" /\ at[d] # "raised"
      /\ Unbroken
  BY UnbrokenSteps DEF CompleteInv
<1>1. replies # <<>> => /\ Tail(replies) # replies
                        /\ \A d \in Callers : Tail(replies) # Append(replies, d)
  BY TailIsShorter DEF TypeOK
<1>2. ~ProcessEnds  BY UnbrokenSteps
<1>3. CASE Open \/ UNCHANGED vars
  BY <1>1, <1>2, <1>3 DEF Open, vars, calls, Leaves
<1>4. ASSUME NEW d \in Callers, Start(d)
      PROVE  ev'[c] = ev[c] /\ at'[c] = at[c] /\ ~Leaves(c)
  <2>1. d # c /\ replies' = replies
    BY <1>4 DEF Start, AddBegin, ClearBegin, BackupBegin, CloseBegin, Begin
  <2>2. QED
    BY <1>1, <1>4, <2>1 DEF Start, AddBegin, ClearBegin, BackupBegin, CloseBegin, Begin, TypeOK,
       Leaves
<1>5. ASSUME NEW d \in Callers, Resume(d)
      PROVE  /\ ev'[c] = ev[c]
             /\ \/ at'[c] = at[c] /\ ~Leaves(c)
                \/ at[c] = "insert" /\ at'[c] = "commit"
  <2>1. /\ ~Raise(d) /\ ~Caught(d) /\ ~Discard(d)
        /\ (AddInserted(d) \/ ClearDeleted(d) \/ BackupCopied(d) => Accepting)
    BY UnbrokenSteps
  <2>2. CASE d # c
    <3>1. Head(replies) = d
      BY <1>5, <2>1 DEF Resume, AddInserted, ClearDeleted, BackupCopied, Continue,
         AddCommitted, ClearCommitted, BackupCounted, CloseDone, Resumed
    <3>2. ev'[c] = ev[c] /\ at'[c] = at[c]
      BY <1>5, <2>1, <2>2 DEF Resume, AddInserted, ClearDeleted, BackupCopied, Continue,
         AddCommitted, ClearCommitted, BackupCounted, CloseDone, Ends, TypeOK
    <3>3. QED  BY <2>2, <3>1, <3>2 DEF Leaves
  <2>3. CASE d = c
    <3>1. AddInserted(c) \/ AddCommitted(c)
      BY <1>5, <2>1, <2>3 DEF Resume, ClearDeleted, BackupCopied, Continue, ClearCommitted,
         BackupCounted, CloseDone, Resumed
    <3>2. CASE AddInserted(c)
      BY <2>1, <2>3, <3>2 DEF AddInserted, Continue, Resumed, TypeOK
    <3>3. ~AddCommitted(c)
      <4>1. SUFFICES ASSUME AddCommitted(c)  PROVE  FALSE  OBVIOUS
      <4>2. conn # "closed" /\ ev[c] \in Events
        BY <1>0, <4>1 DEF AddCommitted, Resumed, ClosesLast, TypeOK
      <4>3. jsonl' = Append(jsonl, ev[c])  BY <4>1, <4>2 DEF AddCommitted
      <4>4. Range(Append(jsonl, ev[c])) = Range(jsonl) \cup {ev[c]}
        BY <4>2, RangeAppend DEF TypeOK
      <4>5. QED  BY <4>3, <4>4
    <3>4. QED  BY <3>1, <3>2, <3>3
  <2>4. QED  BY <2>2, <2>3
<1>6. ASSUME NEW d \in Callers, Exec(d)
      PROVE  ev'[c] = ev[c] /\ at'[c] = at[c] /\ ~Leaves(c)
  <2>1. Executes(d) /\ at' = at /\ ev' = ev
    BY <1>6 DEF Exec, ExecInsert, ExecDelete, ExecCommit, ExecBackup, ExecCount, ExecClose,
                ExecRefused, ExecFails, Executing, Reply, Executes
  <2>2. QED  BY <1>1, <2>1 DEF Executes, Leaves
<1>7. QED  BY <1>2, <1>3, <1>4, <1>5, <1>6, UnbrokenSteps DEF Next

\* Rows are new only in an INSERT.
LEMMA RowsStep ==
    ASSUME TypeOK, TypeOK', FreshnessInv, [Next]_vars,
           NEW e \in Range(View') \cup Range(committed')
    PROVE  \/ e \in Range(View) \cup Range(committed)
           \/ \E c \in Callers : ExecInsert(c) /\ e = ev[c]
<1>0. /\ View' = (IF txn'.wiped THEN <<>> ELSE committed') \o txn'.added
      /\ committed' \in Seq(Events) /\ txn'.added \in Seq(Events) /\ txn'.wiped \in BOOLEAN
  BY DEF View, TypeOK
<1>1. CASE committed' = committed /\ txn'.wiped = txn.wiped /\ txn'.added = txn.added
  BY <1>1 DEF View
<1>2. CASE committed' = committed /\ txn' = NoTxn
  <2>1. View' = committed  BY <1>0, <1>2, RowsOf DEF NoTxn
  <2>2. QED  BY <1>2, <2>1
<1>3. ASSUME NEW c \in Callers, ExecInsert(c)
      PROVE  e \in Range(View) \cup Range(committed) \/ e = ev[c]
  <2>1. View' = Append(View, ev[c]) /\ committed' = committed /\ ev[c] \in Events
    BY <1>3, InsertedRow
  <2>2. Range(Append(View, ev[c])) = Range(View) \cup {ev[c]}
    BY <2>1, ViewType, RangeAppend
  <2>3. QED  BY <2>1, <2>2
<1>4. ASSUME NEW c \in Callers, ExecDelete(c)  PROVE  e \in Range(View) \cup Range(committed)
  <2>1. committed' = committed /\ txn'.wiped /\ txn'.added = <<>>
    BY <1>4 DEF ExecDelete
  <2>2. View' = <<>> /\ Range(<<>>) = {}
    BY <1>0, <2>1, RowsOf DEF Range
  <2>3. QED  BY <2>1, <2>2
<1>5. ASSUME NEW c \in Callers, ExecCommit(c)  PROVE  e \in Range(View) \cup Range(committed)
  <2>1. committed' = View /\ txn' = NoTxn  BY <1>5 DEF ExecCommit
  <2>2. View' = View  BY <1>0, <2>1, RowsOf DEF NoTxn
  <2>3. QED  BY <2>1, <2>2
<1>6. QED  BY <1>1, <1>2, <1>3, <1>4, <1>5, RowSteps

\* While nothing is broken, what the table shows is in the file or on its way there.
LEMMA CompleteStep ==
    ASSUME TypeOK, TypeOK', FreshnessInv, CompleteInv, [Next]_vars  PROVE  CompleteInv'
<1> SUFFICES ASSUME Unbroken'
             PROVE  /\ (\A c \in Callers : live[c] /\ res[c] # "err" /\ at[c] # "raised")'
                    /\ ClosesLast'
                    /\ \A e \in Range(View') \cup Range(committed') :
                           \/ e \in Range(jsonl')
                           \/ \E c \in Callers : ev'[c] = e /\ at'[c] \in {"insert", "commit"}
  BY DEF CompleteInv
<1>0. /\ Unbroken /\ QueuesInv
      /\ \A c \in Callers : live[c] /\ res[c] # "err" /\ at[c] # "raised"
  BY UnbrokenSteps DEF CompleteInv, FreshnessInv
<1>1. ASSUME NEW c \in Callers  PROVE  live'[c] /\ res'[c] # "err" /\ at'[c] # "raised"
  <2>1. CASE Open \/ ProcessEnds \/ UNCHANGED vars
    BY <1>0, <2>1 DEF Open, ProcessEnds, vars, calls
  <2>2. ASSUME NEW d \in Callers, Start(d)  PROVE  live'[c] /\ res'[c] # "err" /\ at'[c] # "raised"
    BY <1>0, <2>2 DEF Start, AddBegin, ClearBegin, BackupBegin, CloseBegin, Begin, TypeOK
  <2>3. ASSUME NEW d \in Callers, Resume(d)  PROVE  live'[c] /\ res'[c] # "err" /\ at'[c] # "raised"
    <3>1. /\ ~Raise(d) /\ ~Caught(d) /\ ~Discard(d)
          /\ (AddInserted(d) \/ ClearDeleted(d) \/ BackupCopied(d) => Accepting)
      BY UnbrokenSteps
    <3>2. CASE AddInserted(d) \/ ClearDeleted(d) \/ BackupCopied(d)
      BY <1>0, <3>1, <3>2 DEF AddInserted, ClearDeleted, BackupCopied, Continue, Resumed, TypeOK
    <3>3. CASE AddCommitted(d) \/ ClearCommitted(d) \/ BackupCounted(d) \/ CloseDone(d)
      BY <1>0, <3>3 DEF AddCommitted, ClearCommitted, BackupCounted, CloseDone, Resumed, Ends,
         TypeOK
    <3>4. QED  BY <2>3, <3>1, <3>2, <3>3 DEF Resume
  <2>4. ASSUME NEW d \in Callers, Exec(d)  PROVE  live'[c] /\ res'[c] # "err" /\ at'[c] # "raised"
    <3>1. ~ExecRefused(d) /\ ~ExecFails(d)  BY UnbrokenSteps
    <3>2. QED
      BY <1>0, <2>4, <3>1 DEF Exec, ExecInsert, ExecDelete, ExecCommit, ExecBackup, ExecCount,
         ExecClose, Reply, TypeOK
  <2>5. QED  BY <2>1, <2>2, <2>3, <2>4, UnbrokenSteps DEF Next
<1>2. ClosesLast'
  BY <1>0, ClosesLastStep
<1>3. ASSUME NEW e \in Range(View') \cup Range(committed'), e \notin Range(jsonl')
      PROVE  \E c \in Callers : ev'[c] = e /\ at'[c] \in {"insert", "commit"}
  <2>1. CASE e \in Range(View) \cup Range(committed)
    <3>1. e \notin Range(jsonl)
      <4>1. CASE jsonl' = jsonl  BY <1>3, <4>1
      <4>2. ASSUME NEW d \in Callers, jsonl' = Append(jsonl, ev[d]), ev[d] \in Events
            PROVE  e \notin Range(jsonl)
        <5>1. Range(Append(jsonl, ev[d])) = Range(jsonl) \cup {ev[d]}
          BY <4>2, RangeAppend DEF TypeOK
        <5>2. QED  BY <1>3, <4>2, <5>1
      <4>3. QED  BY <4>1, <4>2, LineStep
    <3>2. PICK c \in Callers : ev[c] = e /\ at[c] \in {"insert", "commit"}
      BY <1>0, <2>1, <3>1 DEF CompleteInv
    <3>3. ev'[c] = e /\ at'[c] \in {"insert", "commit"}
      BY <1>0, <1>3, <3>2, AdderStep
    <3>4. QED  BY <3>3
  <2>2. ASSUME NEW c \in Callers, ExecInsert(c), e = ev[c]
        PROVE  \E d \in Callers : ev'[d] = e /\ at'[d] \in {"insert", "commit"}
    BY <2>2 DEF ExecInsert, Executing, Reply
  <2>3. QED  BY <2>1, <2>2, RowsStep
<1>4. QED  BY <1>1, <1>2, <1>3

\* An event that nobody has begun to add stays fresh until somebody does.
LEMMA FreshStep ==
    ASSUME TypeOK, TypeOK', FreshnessInv, [Next]_vars, NEW e, Fresh(e),
           \A c \in Callers : ev'[c] # e
    PROVE  Fresh(e)'
<1>1. e \notin Range(View') \cup Range(committed')
  BY RowsStep DEF Fresh
<1>2. e \notin Range(jsonl')
  <2>1. CASE jsonl' = jsonl  BY <2>1 DEF Fresh
  <2>2. ASSUME NEW d \in Callers, jsonl' = Append(jsonl, ev[d]), ev[d] \in Events
        PROVE  e \notin Range(jsonl')
    <3>1. Range(Append(jsonl, ev[d])) = Range(jsonl) \cup {ev[d]}
      BY <2>2, RangeAppend DEF TypeOK
    <3>2. QED  BY <2>2, <3>1 DEF Fresh
  <2>3. QED  BY <2>1, <2>2, LineStep
<1>3. wiped' = wiped \/ wiped' = wiped \cup Range(View)
  <2>1. CASE Open \/ ProcessEnds \/ UNCHANGED vars
    BY <2>1 DEF Open, ProcessEnds, vars
  <2>2. ASSUME NEW c \in Callers, Start(c) \/ CancelCall(c)  PROVE  wiped' = wiped
    BY <2>2 DEF Start, AddBegin, ClearBegin, BackupBegin, CloseBegin, Begin, CancelCall
  <2>3. ASSUME NEW c \in Callers, Resume(c)  PROVE  wiped' = wiped
    BY <2>3 DEF Resume, AddInserted, ClearDeleted, BackupCopied, Continue, AddCommitted,
       ClearCommitted, BackupCounted, CloseDone, Raise, Caught, Discard
  <2>4. ASSUME NEW c \in Callers, Exec(c)
        PROVE  wiped' = wiped \/ wiped' = wiped \cup Range(View)
    BY <2>4 DEF Exec, ExecInsert, ExecDelete, ExecCommit, ExecBackup, ExecCount, ExecClose,
       ExecRefused, ExecFails
  <2>5. QED  BY <2>1, <2>2, <2>3, <2>4 DEF Next
<1>4. QED  BY <1>1, <1>2, <1>3 DEF Fresh

(***************************************************************************)
(* A backup copies the lines of all the rows it copies.                    *)
(***************************************************************************)

\* Where the places and the snapshots of a backup come from.
LEMMA BackupSteps ==
    ASSUME TypeOK, [Next]_vars, NEW c \in Callers
    PROVE  /\ snap'[c].done => snap'[c] = snap[c] \/ BackupCounted(c)
           /\ at'[c] = "backup" /\ res'[c] = "ok" =>
                  \/ ExecBackup(c)
                  \/ at[c] = "backup" /\ res[c] = "ok" /\ snap'[c] = snap[c]
           /\ at'[c] = "count" =>
                  /\ snap'[c] = snap[c]
                  /\ at[c] = "count" \/ BackupCopied(c)
<1> DEFINE Goal == /\ snap'[c].done => snap'[c] = snap[c] \/ BackupCounted(c)
                   /\ at'[c] = "backup" /\ res'[c] = "ok" =>
                          \/ ExecBackup(c)
                          \/ at[c] = "backup" /\ res[c] = "ok" /\ snap'[c] = snap[c]
                   /\ at'[c] = "count" =>
                          /\ snap'[c] = snap[c]
                          /\ at[c] = "count" \/ BackupCopied(c)
<1>1. CASE Open \/ ProcessEnds \/ UNCHANGED vars
  BY <1>1 DEF Open, ProcessEnds, vars, calls
<1>2. ASSUME NEW d \in Callers, Start(d) \/ CancelCall(d)  PROVE  Goal
  BY <1>2 DEF Start, AddBegin, ClearBegin, BackupBegin, CloseBegin, Begin, CancelCall, TypeOK
<1>3. ASSUME NEW d \in Callers, Resume(d)  PROVE  Goal
  <2>1. CASE d = c
    <3>1. CASE BackupCopied(c)
      BY <3>1 DEF BackupCopied, Continue, Resumed, TypeOK
    <3>2. CASE BackupCounted(c)
      BY <3>2 DEF BackupCounted, Ends, TypeOK
    <3>3. CASE ~BackupCopied(c) /\ ~BackupCounted(c)
      BY <1>3, <2>1, <3>3 DEF Resume, AddInserted, ClearDeleted, Continue,
         AddCommitted, ClearCommitted, CloseDone, Raise, Caught, Discard, Resumed, Ends, calls,
         TypeOK
    <3>4. QED  BY <3>1, <3>2, <3>3
  <2>2. CASE d # c
    <3>1. snap'[c] = snap[c] /\ at'[c] = at[c] /\ res'[c] = res[c]
      BY <1>3, <2>2 DEF Resume, AddInserted, ClearDeleted, BackupCopied, Continue,
         AddCommitted, ClearCommitted, BackupCounted, CloseDone, Raise, Caught, Discard, Resumed,
         Ends, calls, TypeOK
    <3>2. QED  BY <3>1
  <2>3. QED  BY <2>1, <2>2
<1>4. ASSUME NEW d \in Callers, Exec(d)  PROVE  Goal
  <2>1. CASE ExecBackup(d)
    BY <2>1 DEF ExecBackup, Executing, Reply, TypeOK, Snaps
  <2>2. CASE ~ExecBackup(d)
    <3>1. snap' = snap /\ at' = at /\ (d # c => res'[c] = res[c])
      BY <1>4, <2>2 DEF Exec, ExecInsert, ExecDelete, ExecCommit, ExecCount, ExecClose,
         ExecRefused, ExecFails, Reply, TypeOK
    <3>2. d = c /\ at[c] = "backup" => res'[c] = "err"
      BY <1>4, <2>2 DEF Exec, ExecInsert, ExecDelete, ExecCommit, ExecCount, ExecClose,
         ExecRefused, ExecFails, Executing, Reply, TypeOK
    <3>3. QED  BY <3>1, <3>2
  <2>3. QED  BY <2>1, <2>2
<1>5. QED  BY <1>1, <1>2, <1>3, <1>4 DEF Next

\* Lines stay.
LEMMA LinesStay ==
    ASSUME TypeOK, [Next]_vars  PROVE  Range(jsonl) \subseteq Range(jsonl')
<1>1. CASE jsonl' = jsonl  BY <1>1
<1>2. ASSUME NEW d \in Callers, jsonl' = Append(jsonl, ev[d]), ev[d] \in Events
      PROVE  Range(jsonl) \subseteq Range(jsonl')
  <2>1. Range(Append(jsonl, ev[d])) = Range(jsonl) \cup {ev[d]}
    BY <1>2, RangeAppend DEF TypeOK
  <2>2. QED  BY <1>2, <2>1
<1>3. QED  BY <1>1, <1>2, LineStep

\* Every step keeps a backup's lines ahead of the rows it read.
LEMMA CoversStep ==
    ASSUME TypeOK, TypeOK', DurabilityInv, FreshnessInv, WaitsInv, CompleteInv, CoversInv,
           [Next]_vars
    PROVE  CoversInv'
<1> SUFFICES ASSUME Unbroken', NEW c \in Callers
             PROVE  /\ snap'[c].done => snap'[c].db \subseteq snap'[c].lines
                    /\ at'[c] = "backup" /\ res'[c] = "ok" =>
                           \A e \in snap'[c].db \ Range(jsonl') :
                               \E d \in Callers :
                                   /\ ev'[d] = e
                                   /\ at'[d] = "commit" \/ (at'[d] = "insert" /\ Before(d, c)')
                    /\ at'[c] = "count" =>
                           \A e \in snap'[c].db \ Range(jsonl') :
                               \E d \in Callers : ev'[d] = e /\ at'[d] = "commit" /\ Before(d, c)'
  BY DEF CoversInv
<1>0. /\ Unbroken /\ QueuesInv /\ Range(jsonl) \subseteq Range(jsonl')
      /\ \A d \in Callers : live[d] /\ res[d] # "err" /\ at[d] # "raised"
      /\ \A d \in Callers : at[d] # "idle" => d \in Waiting
  BY UnbrokenSteps, LinesStay DEF CompleteInv, FreshnessInv, WaitsInv
<1>1. ASSUME snap'[c].done  PROVE  snap'[c].db \subseteq snap'[c].lines
  <2>1. CASE snap'[c] = snap[c]  BY <1>0, <1>1, <2>1 DEF CoversInv
  <2>2. CASE BackupCounted(c)
    <3>1. /\ at[c] = "count" /\ replies # <<>> /\ Head(replies) = c
          /\ snap'[c].db = snap[c].db /\ snap'[c].lines = Range(jsonl)
      BY <2>2 DEF BackupCounted, Resumed, TypeOK, Snaps
    <3>2. ASSUME NEW e \in snap[c].db \ Range(jsonl)  PROVE  FALSE
      <4>1. PICK d \in Callers : Before(d, c)  BY <1>0, <3>1, <3>2 DEF CoversInv
      <4>2. QED  BY <1>0, <3>1, <4>1, NoneBeforeHead
    <3>3. QED  BY <3>1, <3>2
  <2>3. QED  BY <1>1, <2>1, <2>2, BackupSteps
<1>2. ASSUME at'[c] = "backup", res'[c] = "ok", NEW e \in snap'[c].db \ Range(jsonl')
      PROVE  \E d \in Callers :
                 /\ ev'[d] = e
                 /\ at'[d] = "commit" \/ (at'[d] = "insert" /\ Before(d, c)')
  <2>1. CASE ExecBackup(c)
    <3>1. /\ snap'[c].db = Range(View) /\ Executes(c) /\ UNCHANGED <<at, ev, jsonl>>
      BY <2>1 DEF ExecBackup, Executing, Reply, Executes, TypeOK
    <3>2. PICK d \in Callers : ev[d] = e /\ at[d] \in {"insert", "commit"}
      BY <1>0, <1>2, <3>1 DEF CompleteInv
    <3>3. CASE at[d] = "commit"  BY <3>1, <3>2, <3>3
    <3>4. CASE at[d] = "insert"
      <4>1. d \in Waiting /\ d \notin Range(ops)
        BY <1>0, <1>2, <3>1, <3>2, <3>4 DEF FreshnessInv
      <4>2. d \in Range(replies)  BY <4>1 DEF Waiting
      <4>3. Before(d, c)'  BY <1>0, <3>1, <4>2, BeforeExecuted
      <4>4. QED  BY <3>1, <3>2, <3>4, <4>3
    <3>5. QED  BY <3>2, <3>3, <3>4
  <2>2. CASE at[c] = "backup" /\ res[c] = "ok" /\ snap'[c] = snap[c]
    <3>1. PICK d \in Callers : /\ ev[d] = e
                               /\ at[d] = "commit" \/ (at[d] = "insert" /\ Before(d, c))
      BY <1>0, <1>2, <2>2 DEF CoversInv
    <3>2. /\ ev'[d] = e /\ ~ProcessEnds
          /\ \/ at'[d] = at[d] /\ ~Leaves(d)
             \/ at[d] = "insert" /\ at'[d] = "commit"
      BY <1>0, <1>2, <3>1, AdderStep
    <3>3. CASE at'[d] = "commit"  BY <3>2, <3>3
    <3>4. CASE at[d] = "insert" /\ at'[d] = "insert"
      <4>1. Before(d, c) /\ ~Leaves(d)  BY <3>1, <3>2, <3>4
      <4>2. Before(d, c)'  BY <1>0, <3>2, <4>1, BeforeStep
      <4>3. QED  BY <3>2, <3>4, <4>2
    <3>5. QED  BY <3>1, <3>2, <3>3, <3>4
  <2>3. QED  BY <1>2, <2>1, <2>2, BackupSteps
<1>3. ASSUME at'[c] = "count", NEW e \in snap'[c].db \ Range(jsonl')
      PROVE  \E d \in Callers : ev'[d] = e /\ at'[d] = "commit" /\ Before(d, c)'
  <2>0. snap'[c] = snap[c] /\ (at[c] = "count" \/ BackupCopied(c))
    BY <1>3, BackupSteps
  <2>1. CASE at[c] = "count"
    <3>1. PICK d \in Callers : ev[d] = e /\ at[d] = "commit" /\ Before(d, c)
      BY <1>0, <1>3, <2>0, <2>1 DEF CoversInv
    <3>2. ev'[d] = e /\ ~ProcessEnds /\ at'[d] = "commit" /\ ~Leaves(d)
      BY <1>0, <1>3, <3>1, AdderStep
    <3>3. Before(d, c)'  BY <1>0, <3>1, <3>2, BeforeStep
    <3>4. QED  BY <3>2, <3>3
  <2>2. CASE BackupCopied(c)
    <3>1. /\ at[c] = "backup" /\ res[c] = "ok" /\ Leaves(c) /\ ops' = Append(ops, c)
          /\ ev' = ev /\ \A d \in Callers : d # c => at'[d] = at[d]
      BY <2>2, UnbrokenSteps DEF BackupCopied, Continue, Resumed, Leaves, TypeOK
    <3>2. PICK d \in Callers : /\ ev[d] = e
                               /\ at[d] = "commit" \/ (at[d] = "insert" /\ Before(d, c))
      BY <1>0, <1>3, <2>0, <3>1 DEF CoversInv
    <3>3. ~Before(d, c)  BY <1>0, <3>1, NoneBeforeHead DEF Leaves
    <3>4. d # c /\ at[d] = "commit" /\ d \in Waiting  BY <1>0, <3>1, <3>2, <3>3
    <3>5. Before(d, c)'  BY <1>0, <3>1, <3>4, BeforeSubmitted
    <3>6. QED  BY <3>1, <3>2, <3>4, <3>5
  <2>3. QED  BY <2>0, <2>1, <2>2
<1>4. QED  BY <1>1, <1>2, <1>3

\* While nothing is broken, no call has failed and every row has its line or an
\* add that is going to write it.
THEOREM Complete == Spec => []CompleteInv
<1>1. Init => CompleteInv
  <2> SUFFICES ASSUME Init  PROVE  CompleteInv  OBVIOUS
  <2>1. Range(View) = {} /\ Range(committed) = {}
    BY DEF Init, View, NoTxn, Range
  <2>2. QED  BY <2>1 DEF Init, CompleteInv, ClosesLast
<1>2. TypeOK /\ TypeOK' /\ FreshnessInv /\ CompleteInv /\ [Next]_vars => CompleteInv'
  BY CompleteStep
<1>3. QED  BY <1>1, <1>2, StoreTypeOK, Freshness, PTL DEF Spec

\* While no statement fails and no call is cut short, no committed row is without
\* its line, but for the adds that are on their way to write it.
THEOREM MirrorCompleteThm == Spec => []MirrorComplete
<1>1. CompleteInv => MirrorComplete
  BY DEF CompleteInv, MirrorComplete, Unbroken
<1>2. QED  BY <1>1, Complete, PTL

\* While nothing is broken, the rows a backup has copied have their lines, or adds
\* that will be resumed before the backup is.
THEOREM Covers == Spec => []CoversInv
<1>1. Init => CoversInv
  BY DEF Init, CoversInv, NoSnap
<1>2. TypeOK /\ TypeOK' /\ DurabilityInv /\ FreshnessInv /\ WaitsInv /\ CompleteInv /\ CoversInv
        /\ [Next]_vars => CoversInv'
  BY CoversStep
<1>3. QED  BY <1>1, <1>2, StoreTypeOK, Durability, Freshness, Waits, Complete, PTL DEF Spec

\* A backup copies the database first and the mirror two awaits later: while
\* nothing fails, the copied mirror has the line of every row that was copied.
THEOREM BackupMirrorCoversThm == Spec => []BackupMirrorCovers
<1>1. CoversInv => BackupMirrorCovers
  BY DEF CoversInv, BackupMirrorCovers, Unbroken
<1>2. QED  BY <1>1, Covers, PTL

-----------------------------------------------------------------------------
(* IV  The daemon.                                                         *)

(***************************************************************************)
(* Suffixes.                                                               *)
(***************************************************************************)

\* s ends with q.
Suffix(q, s) == /\ Len(q) <= Len(s)
                /\ \A i \in 1..Len(q) : q[i] = s[Len(s) - Len(q) + i]

\* What is appended to both belongs to both.
LEMMA SuffixAppend ==
    ASSUME NEW S, NEW q \in Seq(S), NEW s \in Seq(S), NEW x \in S, Suffix(q, s)
    PROVE  Suffix(Append(q, x), Append(s, x))
<1>1. /\ Len(q) \in Nat /\ Len(s) \in Nat /\ Len(q) <= Len(s)
      /\ Len(Append(q, x)) = Len(q) + 1 /\ Len(Append(s, x)) = Len(s) + 1
      /\ \A i \in 1..Len(q) : Append(q, x)[i] = q[i] /\ q[i] = s[Len(s) - Len(q) + i]
      /\ \A i \in 1..Len(s) : Append(s, x)[i] = s[i]
      /\ Append(q, x)[Len(q) + 1] = x /\ Append(s, x)[Len(s) + 1] = x
  BY DEF Suffix
<1>2. ASSUME NEW i \in 1..(Len(q) + 1)
      PROVE  Append(q, x)[i] = Append(s, x)[Len(s) - Len(q) + i]
  <2>1. CASE i \in 1..Len(q)
    <3>1. Len(s) - Len(q) + i \in 1..Len(s)  BY <1>1, <2>1
    <3>2. QED  BY <1>1, <2>1, <3>1
  <2>2. CASE i = Len(q) + 1
    <3>1. Len(s) - Len(q) + i = Len(s) + 1  BY <1>1, <2>2
    <3>2. QED  BY <1>1, <2>2, <3>1
  <2>3. i \in 1..Len(q) \/ i = Len(q) + 1  BY <1>1
  <2>4. QED  BY <2>1, <2>2, <2>3
<1>3. /\ Len(s) + 1 - (Len(q) + 1) = Len(s) - Len(q)
      /\ Len(q) + 1 <= Len(s) + 1
  BY <1>1
<1>4. /\ Len(Append(q, x)) <= Len(Append(s, x))
      /\ Len(Append(s, x)) - Len(Append(q, x)) = Len(s) - Len(q)
      /\ 1..Len(Append(q, x)) = 1..(Len(q) + 1)
  BY <1>1, <1>3
<1>5. QED  BY ONLY <1>2, <1>4 DEF Suffix

\* Without its head a suffix is a suffix; its head is where it begins.
LEMMA SuffixTail ==
    ASSUME NEW S, NEW q \in Seq(S), NEW s \in Seq(S), q # <<>>, Suffix(q, s)
    PROVE  /\ Suffix(Tail(q), s) /\ Tail(q) \in Seq(S) /\ Len(Tail(q)) = Len(q) - 1
           /\ Len(s) - Len(q) + 1 \in 1..Len(s)
           /\ Head(q) = s[Len(s) - Len(q) + 1]
<1>1. /\ Len(q) \in Nat \ {0} /\ Len(s) \in Nat /\ Len(q) <= Len(s)
      /\ Len(Tail(q)) = Len(q) - 1 /\ Tail(q) \in Seq(S) /\ Head(q) = q[1]
      /\ \A i \in 1..(Len(q) - 1) : Tail(q)[i] = q[i + 1]
      /\ \A i \in 1..Len(q) : q[i] = s[Len(s) - Len(q) + i]
  BY DEF Suffix
<1>2. ASSUME NEW i \in 1..(Len(q) - 1)  PROVE  Tail(q)[i] = s[Len(s) - (Len(q) - 1) + i]
  <2>1. i + 1 \in 1..Len(q) /\ Len(s) - (Len(q) - 1) + i = Len(s) - Len(q) + (i + 1)
    BY <1>1
  <2>2. QED  BY <1>1, <2>1
<1>3. Len(s) - Len(q) + 1 \in 1..Len(s) /\ 1 \in 1..Len(q)
  BY <1>1
<1>4. QED  BY <1>1, <1>2, <1>3 DEF Suffix

\* In a sequence without repetition, what stands before a suffix is not in it.
LEMMA BeforeSuffix ==
    ASSUME NEW S, NEW q \in Seq(S), NEW s \in Seq(S), Suffix(q, s), IsInjective(s)
    PROVE  /\ \A i \in 1..(Len(s) - Len(q)) : s[i] \notin Range(q)
           /\ \A i \in 1..Len(s) : i > Len(s) - Len(q) => s[i] \in Range(q)
           /\ Range(q) \subseteq Range(s)
<1>1. /\ Len(q) \in Nat /\ Len(s) \in Nat /\ Len(q) <= Len(s)
      /\ DOMAIN q = 1..Len(q) /\ DOMAIN s = 1..Len(s)
      /\ \A i \in 1..Len(q) : q[i] = s[Len(s) - Len(q) + i]
  BY DEF Suffix
<1>2. ASSUME NEW i \in 1..(Len(s) - Len(q)), NEW j \in 1..Len(q)  PROVE  s[i] # q[j]
  <2>1. i \in 1..Len(s) /\ Len(s) - Len(q) + j \in 1..Len(s) /\ i # Len(s) - Len(q) + j
    BY <1>1
  <2>2. QED  BY <1>1, <2>1 DEF IsInjective
<1>3. ASSUME NEW i \in 1..Len(s), i > Len(s) - Len(q)  PROVE  s[i] \in Range(q)
  <2>1. i - (Len(s) - Len(q)) \in 1..Len(q) /\ Len(s) - Len(q) + (i - (Len(s) - Len(q))) = i
    BY <1>1, <1>3
  <2>2. q[i - (Len(s) - Len(q))] = s[i]  BY <1>1, <2>1
  <2>3. QED  BY <1>1, <2>1, <2>2 DEF Range
<1>4. ASSUME NEW j \in 1..Len(q)  PROVE  q[j] \in Range(s)
  <2>1. Len(s) - Len(q) + j \in 1..Len(s)  BY <1>1
  <2>2. QED  BY <1>1, <2>1 DEF Range
<1>5. QED  BY <1>1, <1>2, <1>3, <1>4 DEF Range

(***************************************************************************)
(* The inductive invariant.                                                *)
(***************************************************************************)

\* Where the daemon's coroutines stand in their calls of the store, and what the
\* connection is meanwhile: only Main opens and closes it.
PlacesInv ==
    /\ drain \in {"get", "taken"} => at[Drain] = "idle" /\ live[Drain]
    /\ drain = "adding" => at[Drain] \in {"insert", "commit", "raised"}
    /\ drain = "over" => at[Drain] = "idle" \/ ~live[Drain]
    /\ live[Main]
    /\ main \in {"down", "opening", "serving", "exited"} => at[Main] = "idle"
    /\ main = "flush" => at[Main] \in {"idle", "insert", "commit", "raised"}
    /\ main = "closing" =>
           /\ at[Main] = "close"
           /\ \/ conn = "open" /\ res[Main] = "none"
              \/ conn = "shut" /\ res[Main] = "ok" /\ Main \notin Range(ops)
    /\ \A k \in Clients : at[k] \notin {"insert", "commit"}
    /\ \A c \in Callers \ {Main} : at[c] # "close"
    /\ \A c \in Callers : at[c] = "idle" => ev[c] = NoEvent
    /\ main \in {"down", "opening"} => conn = "new" /\ \A c \in Callers : live[c]
    /\ main \in {"serving", "flush"} => conn = "open"
    /\ main = "exited" => conn = "closed"

\* The queue holds the events emitted last, in their order, and nobody has begun
\* to add one of them, nor the one that the drain loop has in hand.
Begun == Len(session) - Len(queue)

QueueInv ==
    /\ IsInjective(session)
    /\ Suffix(queue, session)
    /\ taken # NoEvent => \E i \in 1..Begun : session[i] = taken
    /\ \A e \in Range(queue) : Fresh(e)
    /\ taken # NoEvent => Fresh(taken)
    /\ main \in {"down", "opening"} => queue = <<>> /\ taken = NoEvent
    /\ main = "opening" => session = <<>>

DaemonInv == InductiveInv /\ DaemonTypeOK /\ PlacesInv /\ QueueInv

\* Each step of the daemon is a step of the store, or leaves it alone.
LEMMA StoreStep ==
    ASSUME TypeOK, DaemonTypeOK, QueueInv, [DaemonNext]_daemonVars  PROVE  [Next]_vars
<1> USE CallersAssumption
<1>0. \A k \in Clients : k \in Callers
  BY DEF Clients
<1>1. CASE StartProcess \/ ComponentFails \/ Unwind \/ Emit \/ DrainTake \/ UNCHANGED daemonVars
  BY <1>1 DEF StartProcess, ComponentFails, Unwind, Emit, DrainTake, daemonVars, store
<1>2. CASE Crash \/ Exit
  BY <1>2 DEF Crash, Exit, Gone, Next
<1>3. CASE Stop
  BY <1>3 DEF Stop, store, Next
<1>4. CASE Serve
  BY <1>4 DEF Serve, Next
<1>5. CASE DrainAdd
  <2>1. CASE AddBegin(Drain, taken)
    <3>1. taken \in Events /\ Fresh(taken)
      BY <1>5 DEF DrainAdd, DaemonTypeOK, QueueInv
    <3>2. Start(Drain)  BY <2>1, <3>1 DEF Start
    <3>3. QED  BY <3>2 DEF Next
  <2>2. CASE UNCHANGED store  BY <2>2 DEF store
  <2>3. QED  BY <1>5, <2>1, <2>2 DEF DrainAdd
<1>6. CASE DrainGoesOn \/ DrainAdded \/ DrainRaises
  <2>1. Resume(Drain)
    BY <1>6 DEF DrainGoesOn, DrainAdded, DrainRaises, Resume
  <2>2. QED  BY <2>1 DEF Next
<1>7. CASE FlushOne
  <2>1. Head(queue) \in Events /\ Head(queue) \in Range(queue)
    BY <1>7, HeadPrecedes DEF FlushOne, DaemonTypeOK
  <2>2. Start(Main)
    BY <1>7, <2>1 DEF FlushOne, QueueInv, Start
  <2>3. QED  BY <2>2 DEF Next
<1>8. CASE FlushGoesOn \/ Closed
  <2>1. Resume(Main)  BY <1>8 DEF FlushGoesOn, Closed, Resume
  <2>2. QED  BY <2>1 DEF Next
<1>9. CASE FlushEnds
  <2>1. Start(Main)  BY <1>9 DEF FlushEnds, Start
  <2>2. QED  BY <2>1 DEF Next
<1>10. CASE Worker
  BY <1>10 DEF Worker, Next
<1>11. ASSUME NEW k \in Clients, Command(k) \/ HandlerGoesOn(k)  PROVE  [Next]_vars
  <2>1. Start(k) \/ Resume(k)
    BY <1>11 DEF Command, HandlerGoesOn, Start, Resume
  <2>2. QED  BY <1>0, <2>1 DEF Next
<1>12. QED
  BY <1>1, <1>2, <1>3, <1>4, <1>5, <1>6, <1>7, <1>8, <1>9, <1>10, <1>11
     DEF DaemonNext, DrainStep, MainStep

\* Only the worker's statements fail.
LEMMA FaultsStay ==
    /\ Open \/ ProcessEnds \/ UNCHANGED store => faults' = faults
    /\ \A c : Start(c) \/ Resume(c) \/ CancelCall(c) => faults' = faults
<1>1. ASSUME NEW c, Start(c)  PROVE  faults' = faults
  BY <1>1 DEF Start, AddBegin, ClearBegin, BackupBegin, CloseBegin, Begin
<1>2. ASSUME NEW c, Resume(c)  PROVE  faults' = faults
  BY <1>2 DEF Resume, AddInserted, ClearDeleted, BackupCopied, Continue, AddCommitted,
     ClearCommitted, BackupCounted, CloseDone, Raise, Caught, Discard
<1>3. ASSUME NEW c, CancelCall(c)  PROVE  faults' = faults
  BY <1>3 DEF CancelCall
<1>4. Open \/ ProcessEnds \/ UNCHANGED store => faults' = faults
  BY DEF Open, ProcessEnds, store, vars
<1>5. QED  BY <1>1, <1>2, <1>3, <1>4

\* Every step of the daemon keeps the types of its own variables.
LEMMA DaemonTypeStep ==
    ASSUME TypeOK, TypeOK', DaemonTypeOK, PlacesInv, QueueInv, [DaemonNext]_daemonVars
    PROVE  DaemonTypeOK'
<1> USE CallersAssumption, CommandsAssumption, MaxMishapsAssumption DEF DaemonTypeOK, NotAsked
<1>0. /\ faults \in Nat /\ faults' \in Nat
      /\ queue # <<>> => Head(queue) \in Events /\ Tail(queue) \in Seq(Events)
      /\ NoEvent \notin Events /\ Len(session) \in Nat
  BY MaxFaultsAssumption, NoEventAssumption DEF TypeOK
<1>1. CASE StartProcess
  BY <1>0, <1>1, FaultsStay DEF StartProcess
<1>2. CASE ComponentFails
  BY <1>0, <1>2, FaultsStay DEF ComponentFails
<1>3. CASE Unwind
  BY <1>0, <1>3, FaultsStay DEF Unwind
<1>4. CASE Emit
  <2>1. PICK e \in Events : session' = Append(session, e) /\ queue' = Append(queue, e)
    <3> DEFINE new == {e \in Events : Fresh(e) /\ e \notin Range(session)}
    <3>1. new # {} /\ (CHOOSE e \in new : TRUE) \in new
      BY <1>4 DEF Emit
    <3>2. QED  BY <1>4, <3>1 DEF Emit
  <2>2. Len(session') = Len(session) + 1  BY <2>1
  <2>3. asked \in {NotAsked} \cup 0..Len(session')  BY <1>0, <2>2
  <2>4. QED  BY <1>0, <1>4, <2>1, <2>3, FaultsStay DEF Emit
<1>5. CASE Serve
  BY <1>0, <1>5, FaultsStay DEF Serve, QueueInv
<1>6. CASE DrainTake
  BY <1>0, <1>6, FaultsStay DEF DrainTake
<1>7. CASE DrainAdd
  <2>1. faults' = faults
    <3>1. CASE AddBegin(Drain, taken)  BY <3>1 DEF AddBegin, Begin
    <3>2. CASE UNCHANGED store  BY <3>2, FaultsStay
    <3>3. QED  BY <1>7, <3>1, <3>2 DEF DrainAdd
  <2>2. QED  BY <1>0, <1>7, <2>1 DEF DrainAdd
<1>8. CASE DrainGoesOn
  <2>1. Resume(Drain)  BY <1>8 DEF DrainGoesOn, Resume
  <2>2. QED  BY <1>0, <1>8, <2>1, FaultsStay DEF DrainGoesOn, own
<1>9. CASE DrainAdded \/ DrainRaises
  <2>1. Resume(Drain) /\ at[Drain] \in {"commit", "raised"}
    BY <1>9 DEF DrainAdded, DrainRaises, Resume, AddCommitted, Caught, Resumed
  <2>2. drain # "taken"  BY <2>1 DEF PlacesInv
  <2>3. QED  BY <1>0, <1>9, <2>1, <2>2, FaultsStay DEF DrainAdded, DrainRaises
<1>10. CASE Stop
  <2>1. faults' = faults
    <3>1. CASE CancelCall(Drain)  BY <3>1, FaultsStay
    <3>2. CASE UNCHANGED store  BY <3>2, FaultsStay
    <3>3. QED  BY <1>10, <3>1, <3>2 DEF Stop
  <2>2. drain' \in {drain, "over"} /\ (drain = "taken" <=> drain' = "taken")
    BY <1>10 DEF Stop
  <2>3. asked' \in {NotAsked} \cup 0..Len(session)
    BY <1>0, <1>10 DEF Stop
  <2>4. QED  BY <1>0, <1>10, <2>1, <2>2, <2>3 DEF Stop
<1>11. CASE FlushOne \/ FlushEnds
  <2>1. faults' = faults
    BY <1>11 DEF FlushOne, FlushEnds, AddBegin, CloseBegin, Begin
  <2>2. QED  BY <1>0, <1>11, <2>1 DEF FlushOne, FlushEnds
<1>12. CASE FlushGoesOn \/ Closed
  <2>1. Resume(Main)  BY <1>12 DEF FlushGoesOn, Closed, Resume
  <2>2. QED  BY <1>0, <1>12, <2>1, FaultsStay DEF FlushGoesOn, Closed, own
<1>13. CASE Exit \/ Crash
  <2>1. faults' = faults  BY <1>13, FaultsStay DEF Exit, Crash, Gone
  <2>2. crashes' \in Nat /\ crashes' + faults' <= MaxMishaps
    <3>1. CASE Exit  BY <2>1, <3>1 DEF Exit
    <3>2. CASE Crash  BY <1>0, <2>1, <3>2 DEF Crash
    <3>3. QED  BY <1>13, <3>1, <3>2
  <2>3. Gone  BY <1>13 DEF Exit, Crash
  <2>4. <<>> \in Seq(Events)  OBVIOUS
  <2>5. QED  BY <1>0, <2>2, <2>3, <2>4 DEF Gone
<1>14. CASE Worker
  <2>1. /\ faults' + crashes <= MaxMishaps
        /\ UNCHANGED <<main, drain, taken, queue, running, session, asked, overtaken, crashes>>
    BY <1>14 DEF Worker, own
  <2>2. crashes + faults' <= MaxMishaps
    <3>1. crashes \in Nat /\ faults' \in Nat /\ MaxMishaps \in Nat  BY <1>0
    <3>2. \A a, b, m \in Nat : a + b <= m => b + a <= m  OBVIOUS
    <3>3. QED  BY <2>1, <3>1, <3>2
  <2>3. QED  BY <2>1, <2>2
<1>15. ASSUME NEW k \in Clients, Command(k) \/ HandlerGoesOn(k)  PROVE  DaemonTypeOK'
  <2>1. (Start(k) \/ Resume(k)) /\ UNCHANGED own
    BY <1>15 DEF Command, HandlerGoesOn, Start, Resume
  <2>2. QED  BY <1>0, <2>1, FaultsStay DEF own
<1>16. CASE UNCHANGED daemonVars
  BY <1>0, <1>16, FaultsStay DEF daemonVars, own
<1>17. QED
  BY <1>1, <1>2, <1>3, <1>4, <1>5, <1>6, <1>7, <1>8, <1>9, <1>10, <1>11, <1>12, <1>13, <1>14,
     <1>15, <1>16 DEF DaemonNext, DrainStep, MainStep

\* The daemon's coroutines stay in their places.
LEMMA PlacesStep ==
    ASSUME InductiveInv, DaemonTypeOK, PlacesInv, [DaemonNext]_daemonVars
    PROVE  PlacesInv'
<1> USE CallersAssumption DEF PlacesInv
<1>0. /\ conn = "new" => \A c \in Callers : at[c] = "idle"
      /\ \A k \in Clients : k \in Callers /\ k # Main /\ k # Drain
      /\ \A c \in Callers : c \in Clients \/ c = Drain \/ c = Main
  BY DEF InductiveInv, DurabilityInv, FreshnessInv, Clients
<1>a. /\ TypeOK /\ QueuesInv
      /\ \A c \in Callers : Range(Append(ops, c)) = Range(ops) \cup {c}
  BY RangeAppend DEF InductiveInv, FreshnessInv, TypeOK
\* A step of one of the others, in the middle of its call.
<1>b. ASSUME NEW c \in Callers \ {Main}, UNCHANGED <<main, conn, live>>,
             ops' \in {ops, Append(ops, c)},
             \A d \in Callers : d # c => at'[d] = at[d] /\ ev'[d] = ev[d] /\ res'[d] = res[d],
             at'[c] # "close", at'[c] = "idle" => ev'[c] = NoEvent,
             c \in Clients => drain' = drain /\ at'[c] \notin {"insert", "commit"},
             c = Drain =>
                 /\ drain' \in {"get", "taken"} => at'[c] = "idle" /\ live[c]
                 /\ drain' = "adding" => at'[c] \in {"insert", "commit", "raised"}
                 /\ drain' = "over" => at'[c] = "idle" \/ ~live[c],
             at[c] # "idle" \/ at'[c] = "idle" \/ main \notin {"down", "opening"}
      PROVE  PlacesInv'
  <2>1. Range(ops') \subseteq Range(ops) \cup {c}
    <3>1. CASE ops' = ops  BY <3>1
    <3>2. CASE ops' = Append(ops, c)  BY <1>a, <3>2
    <3>3. QED  BY <1>b, <3>1, <3>2
  <2>2. CASE c = Drain  BY <1>0, <1>b, <2>1, <2>2
  <2>3. CASE c # Drain  BY <1>0, <1>b, <2>1, <2>3
  <2>4. QED  BY <2>2, <2>3
<1>1. CASE StartProcess \/ ComponentFails \/ Unwind \/ Emit \/ DrainTake \/ UNCHANGED daemonVars
  BY <1>0, <1>1 DEF StartProcess, ComponentFails, Unwind, Emit, DrainTake, daemonVars, own, store,
     vars, calls, DaemonTypeOK
<1>2. CASE Serve
  BY <1>0, <1>a, <1>2 DEF Serve, Open, calls, DaemonTypeOK
<1>3. CASE DrainAdd
  <2>1. CASE AddBegin(Drain, taken) /\ drain' = "adding"
    <3>1. /\ ops' = Append(ops, Drain) /\ at'[Drain] = "insert" /\ conn # "new"
          /\ UNCHANGED <<main, conn, live>>
          /\ \A d \in Callers : d # Drain => at'[d] = at[d] /\ ev'[d] = ev[d] /\ res'[d] = res[d]
      BY <1>a, <1>3, <2>1 DEF DrainAdd, AddBegin, Begin, Accepting, TypeOK
    <3>2. main \notin {"down", "opening"} /\ Drain \notin Clients  BY <1>0, <3>1
    <3>3. QED  BY <1>b, <2>1, <3>1, <3>2
  <2>2. CASE UNCHANGED store /\ drain' = "over" /\ drain = "taken"
    BY <1>0, <1>a, <1>3, <2>2 DEF DrainAdd, store, vars, calls
  <2>3. QED  BY <1>3, <2>1, <2>2 DEF DrainAdd
<1>4. CASE DrainGoesOn
  <2>0. UNCHANGED own  BY <1>4 DEF DrainGoesOn
  <2>1. CASE AddInserted(Drain)
    <3>1. drain = "adding"  BY <2>1 DEF AddInserted, Continue, Resumed, DaemonTypeOK
    <3>2. /\ ops' \in {ops, Append(ops, Drain)} /\ at'[Drain] \in {"commit", "raised"}
          /\ UNCHANGED <<main, conn, live>> /\ drain' = drain /\ at[Drain] = "insert"
          /\ \A d \in Callers : d # Drain => at'[d] = at[d] /\ ev'[d] = ev[d] /\ res'[d] = res[d]
      BY <1>a, <2>0, <2>1 DEF own, AddInserted, Continue, Resumed, TypeOK
    <3>3. QED  BY <1>b, <3>1, <3>2
  <2>2. CASE Raise(Drain)
    <3>1. /\ ops' = ops /\ at'[Drain] = "raised" /\ at[Drain] # "idle" /\ live[Drain]
          /\ UNCHANGED <<main, conn, live>> /\ drain' = drain
          /\ \A d \in Callers : d # Drain => at'[d] = at[d] /\ ev'[d] = ev[d] /\ res'[d] = res[d]
      BY <1>a, <2>0, <2>2 DEF own, Raise, Resumed, TypeOK
    <3>2. drain = "adding"  BY <3>1 DEF DaemonTypeOK
    <3>3. QED  BY <1>b, <3>1, <3>2
  <2>3. CASE Discard(Drain)
    BY <1>0, <1>a, <2>0, <2>3 DEF own, Discard, calls
  <2>4. QED  BY <1>4, <2>1, <2>2, <2>3 DEF DrainGoesOn
<1>5. CASE DrainAdded
  BY <1>0, <1>a, <1>5 DEF DrainAdded, AddCommitted, Resumed, Ends, TypeOK
<1>6. CASE DrainRaises
  BY <1>0, <1>a, <1>6 DEF DrainRaises, Caught, Ends, TypeOK
<1>7. CASE Stop
  <2>1. CASE UNCHANGED store /\ (drain' = drain \/ (drain = "get" /\ drain' = "over"))
    BY <1>0, <1>a, <1>7, <2>1 DEF Stop, store, vars, calls
  <2>2. CASE CancelCall(Drain) /\ drain' = "over"
    BY <1>0, <1>a, <1>7, <2>2 DEF Stop, CancelCall, TypeOK
  <2>3. QED  BY <1>7, <2>1, <2>2 DEF Stop
<1>8. CASE FlushOne
  BY <1>0, <1>a, <1>8 DEF FlushOne, AddBegin, Begin, TypeOK
<1>9. CASE FlushGoesOn
  <2>1. CASE AddInserted(Main)
    BY <1>0, <1>a, <1>9, <2>1 DEF FlushGoesOn, own, AddInserted, Continue, Resumed, TypeOK,
       DaemonTypeOK
  <2>2. CASE AddCommitted(Main)
    BY <1>0, <1>a, <1>9, <2>2 DEF FlushGoesOn, own, AddCommitted, Ends, Resumed, TypeOK,
       DaemonTypeOK
  <2>3. CASE Raise(Main)
    BY <1>0, <1>a, <1>9, <2>3 DEF FlushGoesOn, own, Raise, Resumed, TypeOK, DaemonTypeOK
  <2>4. CASE Caught(Main)
    BY <1>0, <1>a, <1>9, <2>4 DEF FlushGoesOn, own, Caught, Ends, TypeOK, DaemonTypeOK
  <2>5. QED  BY <1>9, <2>1, <2>2, <2>3, <2>4 DEF FlushGoesOn
<1>10. CASE FlushEnds
  BY <1>0, <1>a, <1>10 DEF FlushEnds, CloseBegin, Begin, TypeOK
<1>11. CASE Closed
  BY <1>0, <1>a, <1>11 DEF Closed, CloseDone, Resumed, Ends, TypeOK, DaemonTypeOK
<1>12. CASE Exit \/ Crash
  <2>1. Gone  BY <1>12 DEF Exit, Crash
  <2>2. QED  BY <1>0, <2>1 DEF Gone, ProcessEnds
<1>13. CASE Worker
  <2>1. PICK c \in Callers : Exec(c)  BY <1>13 DEF Worker
  <2>2. /\ UNCHANGED <<main, drain, taken, queue, running, session, asked, overtaken, crashes>>
        /\ UNCHANGED <<at, ev, live>> /\ ops # <<>> /\ Head(ops) = c /\ ops' = Tail(ops)
        /\ \A d \in Callers : d # c => res'[d] = res[d]
        /\ \/ conn' = conn /\ conn = "open" /\ at[c] # "close"
           \/ conn' = conn /\ conn \in {"shut", "closed"}
           \/ conn = "open" /\ conn' = "shut" /\ at[c] = "close" /\ res'[c] = "ok"
    <3>1. UNCHANGED <<main, drain, taken, queue, running, session, asked, overtaken, crashes>>
      BY <1>13 DEF Worker, own
    <3>2. CASE ExecClose(c)
      BY <1>a, <3>1, <3>2 DEF ExecClose, Executing, Reply, TypeOK
    <3>3. CASE ExecRefused(c)
      BY <1>a, <3>1, <3>3 DEF ExecRefused, Executing, Reply, TypeOK
    <3>4. CASE ExecFails(c)
      BY <1>a, <3>1, <3>4 DEF ExecFails, Executing, Reply, TypeOK
    <3>5. CASE ExecInsert(c) \/ ExecDelete(c) \/ ExecCommit(c)
      BY <1>a, <3>1, <3>5 DEF ExecInsert, ExecDelete, ExecCommit, Executing, Reply, TypeOK
    <3>6. CASE ExecBackup(c) \/ ExecCount(c)
      BY <1>a, <3>1, <3>6 DEF ExecBackup, ExecCount, Executing, Reply, TypeOK
    <3>7. QED  BY <2>1, <3>2, <3>3, <3>4, <3>5, <3>6 DEF Exec
  <2>3. Range(ops') \subseteq Range(ops) /\ c \in Range(ops) /\ c \notin Range(ops')
    BY <1>a, <2>2, InjectiveTail DEF TypeOK, QueuesInv
  <2>4. at[c] = "close" => c = Main /\ main = "closing"
    BY DEF DaemonTypeOK
  <2>5. CASE main = "closing"
    <3>1. CASE c = Main  BY <2>2, <2>3, <2>5, <3>1
    <3>2. CASE c # Main  BY <2>2, <2>3, <2>4, <2>5, <3>2
    <3>3. QED  BY <3>1, <3>2
  <2>6. CASE main # "closing"
    <3>1. conn' = conn  BY <2>2, <2>4, <2>6
    <3>2. QED  BY <2>2, <2>6, <3>1
  <2>7. QED  BY <2>5, <2>6
<1>14. ASSUME NEW k \in Clients, Command(k) \/ HandlerGoesOn(k)  PROVE  PlacesInv'
  <2>0. UNCHANGED own /\ k \in Callers /\ k # Main /\ k # Drain
    BY <1>0, <1>14 DEF Command, HandlerGoesOn
  <2>1. /\ ops' \in {ops, Append(ops, k)} /\ UNCHANGED <<conn, live>>
        /\ at'[k] \in {"idle", "delete", "wipe", "backup", "count", "raised"}
        /\ at'[k] = "idle" => ev'[k] = NoEvent
        /\ at[k] # "idle" \/ conn # "new"
        /\ \A d \in Callers : d # k => at'[d] = at[d] /\ ev'[d] = ev[d] /\ res'[d] = res[d]
    <3>1. CASE ClearBegin(k) \/ BackupBegin(k)
      BY <1>a, <2>0, <3>1 DEF ClearBegin, BackupBegin, Begin, Accepting, TypeOK
    <3>2. CASE ClearDeleted(k) \/ BackupCopied(k)
      BY <1>a, <2>0, <3>2 DEF ClearDeleted, BackupCopied, Continue, Resumed, TypeOK
    <3>3. CASE ClearCommitted(k) \/ BackupCounted(k) \/ Raise(k) \/ Caught(k)
      BY <1>a, <2>0, <3>3 DEF ClearCommitted, BackupCounted, Raise, Caught, Resumed, Ends, TypeOK
    <3>4. QED  BY <1>14, <3>1, <3>2, <3>3 DEF Command, HandlerGoesOn
  <2>2. QED  BY <1>b, <2>0, <2>1 DEF own
<1>15. QED
  BY <1>1, <1>2, <1>3, <1>4, <1>5, <1>6, <1>7, <1>8, <1>9, <1>10, <1>11, <1>12, <1>13, <1>14
     DEF DaemonNext, DrainStep, MainStep

\* Only the drain loop and the flush begin to add events.
LEMMA AddsBegin ==
    ASSUME TypeOK, [DaemonNext]_daemonVars
    PROVE  \/ \A c \in Callers : ev'[c] \in {ev[c], NoEvent}
           \/ DrainAdd /\ AddBegin(Drain, taken) /\ ev' = [ev EXCEPT ![Drain] = taken]
           \/ FlushOne /\ AddBegin(Main, Head(queue)) /\ ev' = [ev EXCEPT ![Main] = Head(queue)]
<1> DEFINE None == \A c \in Callers : ev'[c] \in {ev[c], NoEvent}
<1> USE CallersAssumption
<1>1. UNCHANGED store => None
  BY DEF store, vars, calls
<1>2. ASSUME NEW c \in Callers, Resume(c)  PROVE  None
  BY <1>2 DEF Resume, AddInserted, ClearDeleted, BackupCopied, Continue, AddCommitted,
     ClearCommitted, BackupCounted, CloseDone, Raise, Caught, Discard, Ends, calls, TypeOK
<1>3. ASSUME NEW c \in Callers, ClearBegin(c) \/ BackupBegin(c) \/ CloseBegin(c) \/ CancelCall(c)
      PROVE  None
  BY <1>3 DEF ClearBegin, BackupBegin, CloseBegin, Begin, CancelCall, TypeOK
<1>4. ASSUME NEW c \in Callers, Exec(c)  PROVE  None
  BY <1>4 DEF Exec, ExecInsert, ExecDelete, ExecCommit, ExecBackup, ExecCount, ExecClose,
     ExecRefused, ExecFails, Reply
<1>5. ProcessEnds \/ Open => None
  BY DEF ProcessEnds, Open, calls
<1>6. CASE DrainStep
  <2>1. CASE DrainTake  BY <1>1, <2>1 DEF DrainTake
  <2>2. CASE DrainAdd
    BY <1>1, <2>2 DEF DrainAdd, AddBegin, Begin
  <2>3. CASE DrainGoesOn \/ DrainAdded \/ DrainRaises
    <3>1. Resume(Drain)  BY <2>3 DEF DrainGoesOn, DrainAdded, DrainRaises, Resume
    <3>2. QED  BY <1>2, <3>1
  <2>4. QED  BY <1>6, <2>1, <2>2, <2>3 DEF DrainStep
<1>7. CASE MainStep
  <2>1. CASE Serve \/ Exit  BY <1>5, <2>1 DEF Serve, Exit, Gone
  <2>2. CASE Unwind  BY <1>1, <2>2 DEF Unwind
  <2>3. CASE FlushOne  BY <2>3 DEF FlushOne, AddBegin, Begin
  <2>4. CASE FlushGoesOn \/ Closed
    <3>1. Resume(Main)  BY <2>4 DEF FlushGoesOn, Closed, Resume
    <3>2. QED  BY <1>2, <3>1
  <2>5. CASE FlushEnds  BY <1>3, <2>5 DEF FlushEnds
  <2>6. QED  BY <1>7, <2>1, <2>2, <2>3, <2>4, <2>5 DEF MainStep
<1>8. CASE StartProcess \/ ComponentFails \/ Emit \/ UNCHANGED daemonVars
  BY <1>1, <1>8 DEF StartProcess, ComponentFails, Emit, daemonVars
<1>9. CASE Crash \/ Stop
  BY <1>1, <1>3, <1>5, <1>9 DEF Crash, Gone, Stop
<1>10. CASE Worker
  BY <1>4, <1>10 DEF Worker
<1>11. ASSUME NEW k \in Clients, Command(k) \/ HandlerGoesOn(k)  PROVE  None
  <2>1. k \in Callers /\ (ClearBegin(k) \/ BackupBegin(k) \/ Resume(k))
    BY <1>11 DEF Clients, Command, HandlerGoesOn, Resume
  <2>2. QED  BY <1>2, <1>3, <2>1
<1>12. QED
  BY <1>6, <1>7, <1>8, <1>9, <1>10, <1>11 DEF DaemonNext

\* An event nobody has begun to add stays fresh until its turn comes.
LEMMA PendingStep ==
    ASSUME InductiveInv, TypeOK', DaemonTypeOK, QueueInv, [DaemonNext]_daemonVars,
           NEW e \in Events, Fresh(e), DrainAdd => e # taken, FlushOne => e # Head(queue)
    PROVE  Fresh(e)'
<1>1. TypeOK /\ FreshnessInv /\ [Next]_vars
  BY StoreStep DEF InductiveInv
<1>2. e # NoEvent /\ \A c \in Callers : ev[c] # e
  BY NoEventAssumption DEF Fresh
<1>3. \A c \in Callers : ev'[c] # e
  BY <1>1, <1>2, AddsBegin, CallersAssumption DEF TypeOK
<1>4. QED  BY <1>1, <1>3, FreshStep

\* Who may change the queue, and what is emitted.
LEMMA QueueMoves ==
    ASSUME [DaemonNext]_daemonVars
    PROVE  \/ /\ UNCHANGED <<queue, session>> /\ taken' \in {taken, NoEvent}
              /\ DrainAdd => taken' = NoEvent
              /\ ~FlushOne
              /\ main' = main \/ main' \notin {"down", "opening"}
           \/ Emit \/ DrainTake \/ FlushOne \/ StartProcess \/ Gone
<1>1. CASE StartProcess \/ ComponentFails \/ Crash \/ Stop \/ Worker \/ Emit \/ UNCHANGED daemonVars
  BY <1>1 DEF ComponentFails, Crash, Stop, Worker, own, daemonVars, DrainAdd, FlushOne
<1>2. CASE DrainStep
  BY <1>2 DEF DrainStep, DrainAdd, DrainGoesOn, DrainAdded, DrainRaises, own, FlushOne
<1>3. CASE MainStep
  BY <1>3 DEF MainStep, Serve, Unwind, FlushGoesOn, FlushEnds, Closed, Exit, own, DrainAdd
<1>4. ASSUME NEW k \in Clients, Command(k) \/ HandlerGoesOn(k)  PROVE  UNCHANGED own
  BY <1>4 DEF Command, HandlerGoesOn
<1>5. QED
  BY <1>1, <1>2, <1>3, <1>4 DEF DaemonNext, own, DrainAdd, FlushOne

\* The event that is emitted is new, and nobody has begun to add it.
LEMMA Emitted ==
    ASSUME Emit
    PROVE  \E e \in Events : /\ Fresh(e) /\ e \notin Range(session)
                             /\ session' = Append(session, e) /\ queue' = Append(queue, e)
<1> DEFINE new == {e \in Events : Fresh(e) /\ e \notin Range(session)}
<1>1. new # {} /\ (CHOOSE e \in new : TRUE) \in new  BY DEF Emit
<1>2. QED  BY <1>1 DEF Emit

\* Every step keeps the queue the end of the session, and fresh.
LEMMA QueueStep ==
    ASSUME InductiveInv, TypeOK', DaemonTypeOK, PlacesInv, QueueInv, [DaemonNext]_daemonVars
    PROVE  QueueInv'
<1> USE DEF DaemonTypeOK
<1>0. /\ session \in Seq(Events) /\ queue \in Seq(Events)
      /\ NoEvent \notin Events /\ Len(session) \in Nat /\ Len(queue) \in Nat
      /\ Range(queue) \subseteq Events /\ Len(queue) <= Len(session)
  BY NoEventAssumption, RangeType DEF QueueInv, Suffix
<1>a. \A i \in 1..Begun : session[i] \notin Range(queue)
  BY <1>0, BeforeSuffix DEF QueueInv, Begun
<1>b. taken # NoEvent => taken \notin Range(queue)
  BY <1>a DEF QueueInv
<1>c. queue # <<>> => Head(queue) \in Range(queue) /\ Range(queue) = {Head(queue)} \cup Range(Tail(queue))
  BY <1>0, HeadPrecedes
\* What waits stays fresh.
<1>d. ASSUME NEW e \in Range(queue), FlushOne => e # Head(queue)  PROVE  Fresh(e)'
  BY <1>0, <1>b, <1>d, PendingStep DEF QueueInv, DrainAdd
<1>e. ASSUME NEW e \in Events, e = taken, ~DrainAdd  PROVE  Fresh(e)'
  <2>1. Fresh(e) /\ e \notin Range(queue)  BY <1>0, <1>b, <1>e DEF QueueInv
  <2>2. FlushOne => queue # <<>>  BY DEF FlushOne
  <2>3. QED  BY <1>c, <1>e, <2>1, <2>2, PendingStep
<1>1. CASE /\ UNCHANGED <<queue, session>> /\ taken' \in {taken, NoEvent}
           /\ DrainAdd => taken' = NoEvent
           /\ ~FlushOne
           /\ main' = main \/ main' \notin {"down", "opening"}
  <2>1. Begun' = Begun  BY <1>1 DEF Begun
  <2>2. \A e \in Events : e = taken' => Fresh(e)'
    BY <1>0, <1>1, <1>e
  <2>3. (taken # NoEvent => Fresh(taken))'
    BY <1>0, <1>1, <2>2 DEF Fresh
  <2>4. QED  BY <1>1, <1>d, <2>1, <2>3 DEF QueueInv, Fresh
<1>2. CASE Emit
  <2>1. PICK e \in Events : /\ Fresh(e) /\ e \notin Range(session)
                            /\ session' = Append(session, e) /\ queue' = Append(queue, e)
    BY <1>2, Emitted
  <2>2. /\ IsInjective(session') /\ Suffix(queue', session')
        /\ Range(queue') = Range(queue) \cup {e}
    BY <1>0, <2>1, InjectiveAppend, SuffixAppend, RangeAppend DEF QueueInv
  <2>3. /\ Len(session') = Len(session) + 1 /\ Len(queue') = Len(queue) + 1
        /\ \A i \in 1..Len(session) : session'[i] = session[i]
    BY <1>0, <2>1
  <2>4. Begun' = Begun /\ 1..Begun \subseteq 1..Len(session)
    BY <1>0, <2>3 DEF Begun
  <2>5. /\ UNCHANGED <<store, taken>> /\ main' = main
        /\ main \in {"serving", "flush", "closing"}
    BY <1>2 DEF Emit
  <2>6. \A x : Fresh(x)' <=> Fresh(x)
    BY <2>5 DEF store, vars, calls, Fresh, View
  <2>7. taken' # NoEvent => \E i \in 1..Begun' : session'[i] = taken'
    BY <2>3, <2>4, <2>5 DEF QueueInv
  <2>8. QED  BY <2>1, <2>2, <2>5, <2>6, <2>7 DEF QueueInv
<1>3. CASE DrainTake \/ FlushOne
  <2>1. /\ queue # <<>> /\ queue' = Tail(queue) /\ session' = session /\ main' = main
        /\ main \notin {"down", "opening"}
    BY <1>3 DEF DrainTake, FlushOne, QueueInv
  <2>2. /\ Suffix(queue', session') /\ Begun' = Begun + 1 /\ Begun \in Nat
        /\ Begun + 1 \in 1..Begun' /\ Head(queue) = session'[Begun + 1]
        /\ queue' \in Seq(Events)
    BY <1>0, <2>1, SuffixTail DEF QueueInv, Begun
  <2>3. Head(queue) \notin Range(queue')
    <3>1. IsInjective(session') /\ session' \in Seq(Events)  BY <1>0, <2>1 DEF QueueInv
    <3>2. \A i \in 1..Begun' : session'[i] \notin Range(queue')
      BY ONLY <2>2, <3>1, BeforeSuffix DEF Begun
    <3>3. QED  BY ONLY <2>2, <3>2
  <2>4. \A e \in Range(queue') : Fresh(e)'
    BY <1>c, <1>d, <2>1, <2>3
  <2>5. taken' # NoEvent => \E i \in 1..Begun' : session'[i] = taken'
    <3>1. CASE taken' = Head(queue)  BY <2>2, <3>1
    <3>2. CASE taken' = taken
      <4>1. 1..Begun \subseteq 1..Begun'  BY <2>2
      <4>2. QED  BY <2>1, <3>2, <4>1 DEF QueueInv
    <3>3. QED  BY <1>3, <3>1, <3>2 DEF DrainTake, FlushOne
  <2>6. \A e \in Events : e = taken' => Fresh(e)'
    <3>1. CASE DrainTake
      <4>1. taken' = Head(queue) /\ UNCHANGED store  BY <3>1 DEF DrainTake
      <4>2. Fresh(Head(queue))  BY <1>c, <2>1 DEF QueueInv
      <4>3. QED  BY <4>1, <4>2 DEF store, vars, calls, Fresh, View
    <3>2. CASE FlushOne
      <4>1. taken' = taken /\ (DrainAdd => taken' = NoEvent)  BY <3>2 DEF FlushOne, DrainAdd
      <4>2. QED  BY <1>0, <1>e, <4>1
    <3>3. QED  BY <1>3, <3>1, <3>2
  <2>7. IsInjective(session')  BY <2>1 DEF QueueInv
  <2>8. (taken # NoEvent => Fresh(taken))'
    <3>1. taken' \in Events \cup {NoEvent}  BY <1>0, <1>3, <1>c, <2>1 DEF DrainTake, FlushOne
    <3>2. QED  BY <2>6, <3>1 DEF Fresh
  <2>9. QED  BY <2>1, <2>2, <2>4, <2>5, <2>7, <2>8 DEF QueueInv
<1>4. CASE StartProcess
  <2>1. queue' = <<>> /\ taken' = NoEvent /\ session' = <<>>
    BY <1>4 DEF StartProcess, QueueInv
  <2>2. IsInjective(<<>>) /\ Suffix(<<>>, <<>>) /\ Range(<<>>) = {}
    BY DEF IsInjective, Suffix, Range
  <2>3. QED  BY <2>1, <2>2 DEF QueueInv
<1>5. CASE Gone
  <2>1. queue' = <<>> /\ taken' = NoEvent /\ session' = session /\ main' = "down"
    BY <1>5 DEF Gone
  <2>2. Suffix(<<>>, session) /\ Range(<<>>) = {}
    BY <1>0 DEF Suffix, Range
  <2>3. QED  BY <2>1, <2>2 DEF QueueInv
<1>6. QED  BY <1>1, <1>2, <1>3, <1>4, <1>5, QueueMoves

\* The daemon starts in its invariant, ...
LEMMA DaemonInvInit == DaemonInit => DaemonInv
<1> SUFFICES ASSUME DaemonInit  PROVE  DaemonInv  OBVIOUS
<1> USE DEF DaemonInit
<1>1. TypeOK
  BY TypeInit
<1>2. DurabilityInv
  BY DEF Init, DurabilityInv, MirrorFollowsStore, BackupIsDurable, AddIsSafe, NoTxn, NoSnap, Range
<1>3. FreshnessInv
  <2>1. /\ View = <<>> /\ Range(<<>>) = {} /\ IsInjective(<<>>)
    BY DEF Init, View, NoTxn, Range, IsInjective
  <2>2. QED  BY <2>1 DEF Init, FreshnessInv, QueuesInv, RecordedOnce, NoTxn
<1>4. DaemonTypeOK
  <2>1. <<>> \in Seq(Events) /\ 0 \in Nat /\ 0 + 0 <= MaxMishaps  BY MaxMishapsAssumption
  <2>2. main = "down" /\ drain = "over" /\ taken = NoEvent  OBVIOUS
  <2>3. QED  BY <2>1, <2>2 DEF Init, DaemonTypeOK, NotAsked
<1>5. PlacesInv
  <2>1. \A c \in Callers : at[c] = "idle" /\ ev[c] = NoEvent /\ live[c]
    BY DEF Init
  <2>2. main = "down" /\ drain = "over" /\ conn = "new"  BY DEF Init
  <2>3. \A k \in Clients : k \in Callers  BY DEF Clients
  <2>4. QED  BY <2>1, <2>2, <2>3, CallersAssumption DEF PlacesInv
<1>6. QueueInv
  <2>1. Suffix(<<>>, <<>>) /\ Range(<<>>) = {} /\ IsInjective(<<>>)
    BY DEF Suffix, Range, IsInjective
  <2>2. QED  BY <2>1 DEF QueueInv
<1>7. QED  BY <1>1, <1>2, <1>3, <1>4, <1>5, <1>6 DEF DaemonInv, InductiveInv

\* ... and every step keeps it.
LEMMA DaemonInvStep == DaemonInv /\ [DaemonNext]_daemonVars => DaemonInv'
<1> SUFFICES ASSUME DaemonInv, [DaemonNext]_daemonVars  PROVE  DaemonInv'  OBVIOUS
<1>1. /\ TypeOK /\ DurabilityInv /\ FreshnessInv /\ DaemonTypeOK /\ PlacesInv /\ QueueInv
      /\ InductiveInv
  BY DEF DaemonInv, InductiveInv
<1>2. [Next]_vars  BY <1>1, StoreStep
<1>3. TypeOK'  BY <1>1, <1>2, TypeStep
<1>4. DurabilityInv' /\ FreshnessInv'
  BY <1>1, <1>2, <1>3, DurabilityStep, FreshnessStep
<1>5. DaemonTypeOK'  BY <1>1, <1>3, DaemonTypeStep
<1>6. PlacesInv' /\ QueueInv'
  BY <1>1, <1>3, PlacesStep, QueueStep
<1>7. QED  BY <1>3, <1>4, <1>5, <1>6 DEF DaemonInv, InductiveInv

\* The inductive invariant holds of every behaviour of the daemon.
THEOREM DaemonInvariant == DaemonSpec => []DaemonInv
<1>1. QED  BY DaemonInvInit, DaemonInvStep, PTL DEF DaemonSpec

\* The daemon's variables have their types, and failures stay within their bound.
THEOREM DaemonTypeOKThm == DaemonSpec => []DaemonTypeOK
<1>1. DaemonInv => DaemonTypeOK  BY DEF DaemonInv
<1>2. QED  BY <1>1, DaemonInvariant, PTL

\* The daemon uses the store only as Store allows: the drain loop and the flush add
\* each event once and in no call's middle, and nothing uses the store before it is
\* open or after the process has ended.  Every theorem about Store holds of it.
THEOREM StoreContractThm == DaemonSpec => StoreContract
<1>1. DaemonInit => Init  BY DEF DaemonInit
<1>2. DaemonInv /\ [DaemonNext]_daemonVars => [Next]_vars
  BY StoreStep DEF DaemonInv, InductiveInv
<1>3. QED  BY <1>1, <1>2, DaemonInvariant, PTL DEF DaemonSpec, StoreContract, Spec

\* What that gives for the daemon: whatever its clients ask for, wherever it stops or
\* crashes, no line is without a durable row, no event is recorded twice, rows and
\* lines have one order; no row is without its line while nothing fails, and the
\* backups its clients make hold durable rows, with their lines.
THEOREM StoreInDaemon ==
    DaemonSpec => /\ []MirrorFollowsStore /\ []RecordedOnce /\ []SameOrder /\ []MirrorComplete
                  /\ []BackupIsDurable /\ []BackupMirrorCovers
<1>1. QED
  BY StoreContractThm, MirrorFollowsStoreThm, RecordedOnceThm, SameOrderThm, MirrorCompleteThm,
     BackupIsDurableThm, BackupMirrorCoversThm, PTL DEF StoreContract

(***************************************************************************)
(* What is lost.                                                           *)
(***************************************************************************)

\* A statement that has failed is not forgotten.
LEMMA FaultsCount ==
    ASSUME TypeOK, [Next]_vars, faults' = 0  PROVE  faults = 0 /\ \A c \in Callers : ~ExecFails(c)
<1>1. faults' = faults \/ faults' = faults + 1
  <2>1. ASSUME NEW c \in Callers, Exec(c)  PROVE  faults' = faults \/ faults' = faults + 1
    BY <2>1 DEF Exec, ExecInsert, ExecDelete, ExecCommit, ExecBackup, ExecCount, ExecClose,
       ExecRefused, ExecFails
  <2>2. UNCHANGED vars => faults' = faults  BY DEF vars
  <2>3. QED  BY <2>1, <2>2, FaultsStay DEF Next
<1>2. faults \in Nat /\ \A c \in Callers : ExecFails(c) => faults' = faults + 1
  BY MaxFaultsAssumption DEF TypeOK, ExecFails
<1>3. QED  BY <1>1, <1>2

\* No step makes a call of the store fail while it is open, unless a statement does.
LEMMA UnfailedStep ==
    ASSUME TypeOK, [Next]_vars, faults' = 0, conn = "open",
           \A c \in Callers : at[c] # "idle" => at[c] # "raised" /\ res[c] # "err"
    PROVE  \A c \in Callers : at'[c] # "idle" => at'[c] # "raised" /\ res'[c] # "err"
<1> DEFINE Fine(c) == at'[c] # "idle" => at'[c] # "raised" /\ res'[c] # "err"
<1>1. CASE Open \/ ProcessEnds \/ UNCHANGED vars
  BY <1>1 DEF Open, ProcessEnds, vars, calls
<1>2. ASSUME NEW c \in Callers, Start(c), NEW d \in Callers  PROVE  Fine(d)
  BY <1>2 DEF Start, AddBegin, ClearBegin, BackupBegin, CloseBegin, Begin, TypeOK
<1>3. ASSUME NEW c \in Callers, Resume(c), NEW d \in Callers  PROVE  Fine(d)
  <2>1. CASE AddInserted(c) \/ ClearDeleted(c) \/ BackupCopied(c)
    <3>1. PICK from \in Places, to \in {"commit", "wipe", "count"} : Continue(c, from, to)
      BY <2>1 DEF AddInserted, ClearDeleted, BackupCopied, Places
    <3>2. Accepting  BY DEF Accepting
    <3>3. QED  BY <3>1, <3>2 DEF Continue, Resumed, TypeOK
  <2>2. CASE AddCommitted(c) \/ ClearCommitted(c) \/ BackupCounted(c) \/ CloseDone(c)
    BY <2>2 DEF AddCommitted, ClearCommitted, BackupCounted, CloseDone, Resumed, Ends, TypeOK
  <2>3. CASE Raise(c) \/ Caught(c) \/ Discard(c)
    BY <2>3 DEF Raise, Caught, Discard, Resumed, Ends, calls, TypeOK, Places
  <2>4. QED  BY <1>3, <2>1, <2>2, <2>3 DEF Resume
<1>4. ASSUME NEW c \in Callers, Exec(c), NEW d \in Callers  PROVE  Fine(d)
  <2>1. ~ExecFails(c)  BY FaultsCount
  <2>2. ~ExecRefused(c)  BY DEF ExecRefused
  <2>3. at' = at /\ res' = [res EXCEPT ![c] = "ok"]
    BY <1>4, <2>1, <2>2 DEF Exec, ExecInsert, ExecDelete, ExecCommit, ExecBackup, ExecCount,
       ExecClose, Reply
  <2>4. QED  BY <2>3 DEF TypeOK
<1>5. ASSUME NEW c \in Callers, CancelCall(c), NEW d \in Callers  PROVE  Fine(d)
  BY <1>5 DEF CancelCall
<1>6. QED  BY <1>1, <1>2, <1>3, <1>4, <1>5 DEF Next

\* While no statement fails, no call of the daemon raises before the store is
\* closed, and running is unset exactly when the daemon was told to stop.
ServingInv ==
    /\ faults = 0 /\ main \in {"serving", "flush"} =>
           \A c \in Callers : at[c] # "idle" => at[c] # "raised" /\ res[c] # "err"
    /\ main = "serving" => (running <=> asked = NotAsked)
    /\ main = "opening" => asked = NotAsked

\* Who sets running and asked, and how main moves.
LEMMA MainMoves ==
    ASSUME [DaemonNext]_daemonVars
    PROVE  \/ UNCHANGED <<running, asked>> /\ (main' = main \/ main' \notin {"opening", "serving"})
           \/ Serve \/ Stop \/ StartProcess \/ Gone
<1>1. CASE StartProcess \/ ComponentFails \/ Crash \/ Stop \/ Worker \/ Emit \/ UNCHANGED daemonVars
  BY <1>1 DEF ComponentFails, Crash, Worker, Emit, own, daemonVars
<1>2. CASE DrainStep
  BY <1>2 DEF DrainStep, DrainTake, DrainAdd, DrainGoesOn, DrainAdded, DrainRaises, own
<1>3. CASE MainStep
  BY <1>3 DEF MainStep, Unwind, FlushOne, FlushGoesOn, FlushEnds, Closed, Exit, own
<1>4. ASSUME NEW k \in Clients, Command(k) \/ HandlerGoesOn(k)  PROVE  UNCHANGED own
  BY <1>4 DEF Command, HandlerGoesOn
<1>5. QED
  BY <1>1, <1>2, <1>3, <1>4 DEF DaemonNext, own

\* Every step keeps the daemon running until a stop is asked for, and no call failed
\* as long as there was no fault.
LEMMA ServingStep ==
    ASSUME DaemonInv, DaemonInv', ServingInv, [DaemonNext]_daemonVars  PROVE  ServingInv'
<1>1. /\ TypeOK /\ PlacesInv /\ PlacesInv' /\ [Next]_vars /\ DaemonTypeOK
      /\ Len(session) \in Nat
  BY StoreStep DEF DaemonInv, InductiveInv, DaemonTypeOK
<1>2. ASSUME faults' = 0, main' \in {"serving", "flush"}
      PROVE  \A c \in Callers : at'[c] # "idle" => at'[c] # "raised" /\ res'[c] # "err"
  <2>1. CASE Serve
    <3>1. conn = "new" /\ UNCHANGED calls  BY <2>1 DEF Serve, Open
    <3>2. \A c \in Callers : at[c] = "idle"
      BY <3>1 DEF DaemonInv, InductiveInv, DurabilityInv
    <3>3. QED  BY <3>1, <3>2 DEF calls
  <2>2. CASE main \in {"serving", "flush"}
    <3>1. conn = "open" /\ faults = 0  BY <1>1, <1>2, <2>2, FaultsCount DEF PlacesInv
    <3>2. \A c \in Callers : at[c] # "idle" => at[c] # "raised" /\ res[c] # "err"
      BY <2>2, <3>1 DEF ServingInv
    <3>3. QED  BY <1>1, <1>2, <3>1, <3>2, UnfailedStep
  <2>3. main \in {"serving", "flush"} \/ Serve
    <3>1. CASE main' = main  BY <1>2, <3>1
    <3>2. CASE Unwind \/ ComponentFails \/ Serve
      BY <3>2 DEF Unwind, ComponentFails
    <3>3. CASE StartProcess \/ Gone \/ FlushEnds \/ Closed
      BY <1>2, <3>3 DEF StartProcess, Gone, FlushEnds, Closed
    <3>4. QED
      BY <1>2, <3>1, <3>2, <3>3 DEF DaemonNext, DrainStep, MainStep, Crash, Exit, Stop, Worker,
         Emit, DrainTake, DrainAdd, DrainGoesOn, DrainAdded, DrainRaises, FlushOne, FlushGoesOn,
         Command, HandlerGoesOn, own, daemonVars
  <2>4. QED  BY <2>1, <2>2, <2>3
<1>3. /\ (main = "serving" => (running <=> asked = NotAsked))'
      /\ (main = "opening" => asked = NotAsked)'
  <2>1. CASE UNCHANGED <<running, asked>> /\ (main' = main \/ main' \notin {"opening", "serving"})
    BY <2>1 DEF ServingInv
  <2>2. CASE Serve  BY <2>2 DEF Serve, ServingInv
  <2>3. CASE Stop
    <3>1. Len(session) # NotAsked  BY <1>1 DEF NotAsked
    <3>2. QED  BY <2>3, <3>1 DEF Stop, ServingInv
  <2>4. CASE StartProcess \/ Gone  BY <2>4 DEF StartProcess, Gone
  <2>5. QED  BY <2>1, <2>2, <2>3, <2>4, MainMoves
<1>4. QED  BY <1>2, <1>3 DEF ServingInv

\* While the daemon serves nothing that was emitted is lost on the way.
LEMMA NothingLostStep ==
    ASSUME DaemonInv, DaemonInv', ServingInv, NothingLostWhileServing, [DaemonNext]_daemonVars
    PROVE  NothingLostWhileServing'
<1> SUFFICES ASSUME main' = "serving", running', faults' = 0
             PROVE  Range(session') \subseteq
                        Range(queue') \cup {taken', ev'[Drain]} \cup Range(jsonl')
  BY DEF NothingLostWhileServing
<1>0. /\ TypeOK /\ PlacesInv /\ PlacesInv' /\ [Next]_vars /\ DaemonTypeOK /\ QueueInv
      /\ session \in Seq(Events) /\ queue \in Seq(Events) /\ NoEvent \notin Events
      /\ Range(session) \subseteq Events /\ Drain \in Callers /\ Main \in Callers /\ Drain # Main
      /\ faults = 0 /\ jsonl \in Seq(Events)
  BY StoreStep, RangeType, NoEventAssumption, CallersAssumption, FaultsCount
     DEF DaemonInv, InductiveInv, DaemonTypeOK, TypeOK
<1>1. CASE Serve
  BY <1>0, <1>1 DEF Serve, QueueInv, Range
<1>2. (main = "serving" /\ running) \/ Serve
  BY MainMoves DEF Stop, StartProcess, Gone
<1>3. ASSUME main = "serving", running
      PROVE  Range(session') \subseteq
                 Range(queue') \cup {taken', ev'[Drain]} \cup Range(jsonl')
  <2>0. /\ Range(session) \subseteq Range(queue) \cup {taken, ev[Drain]} \cup Range(jsonl)
        /\ conn = "open" /\ at[Main] = "idle"
        /\ Range(jsonl) \subseteq Range(jsonl')
        /\ at[Drain] # "raised" /\ (at[Drain] # "idle" => res[Drain] # "err")
    BY <1>0, <1>3, LinesStay DEF NothingLostWhileServing, PlacesInv, ServingInv
  <2> DEFINE Kept == UNCHANGED <<session, queue, taken>> /\ ev'[Drain] = ev[Drain]
  <2>1. Kept => Range(session') \subseteq
                    Range(queue') \cup {taken', ev'[Drain]} \cup Range(jsonl')
    BY <2>0
  <2>2. CASE Emit
    <3>1. PICK e \in Events : session' = Append(session, e) /\ queue' = Append(queue, e)
      BY <2>2, Emitted
    <3>2. Range(session') = Range(session) \cup {e} /\ Range(queue') = Range(queue) \cup {e}
      BY <1>0, <3>1, RangeAppend
    <3>3. taken' = taken /\ ev' = ev  BY <2>2 DEF Emit, store, vars, calls
    <3>4. QED  BY <2>0, <3>2, <3>3
  <2>3. CASE DrainTake
    <3>1. /\ session' = session /\ taken' = Head(queue) /\ queue' = Tail(queue) /\ queue # <<>>
          /\ taken = NoEvent /\ ev' = ev
      BY <1>0, <2>3 DEF DrainTake, store, vars, calls, DaemonTypeOK
    <3>2. Range(queue) = {Head(queue)} \cup Range(Tail(queue))
      BY <1>0, <3>1, HeadPrecedes
    <3>3. QED  BY <1>0, <2>0, <3>1, <3>2
  <2>4. CASE DrainAdd
    <3>1. /\ session' = session /\ queue' = queue
          /\ ev[Drain] = NoEvent /\ ev'[Drain] = taken
      BY <1>0, <2>0, <2>4 DEF DrainAdd, AddBegin, Begin, Accepting, PlacesInv, TypeOK
    <3>2. QED  BY <1>0, <2>0, <3>1
  <2>5. CASE DrainGoesOn
    BY <2>1, <2>5 DEF DrainGoesOn, own, AddInserted, Continue, Raise, Discard, calls
  <2>6. CASE DrainAdded
    <3>1. /\ session' = session /\ queue' = queue /\ taken' = taken
          /\ jsonl' = Append(jsonl, ev[Drain]) /\ ev[Drain] \in Events
      BY <1>0, <2>0, <2>6 DEF DrainAdded, AddCommitted, Resumed, TypeOK
    <3>2. Range(jsonl') = Range(jsonl) \cup {ev[Drain]}
      BY <1>0, <3>1, RangeAppend
    <3>3. QED  BY <2>0, <3>1, <3>2
  <2>7. CASE DrainRaises  BY <2>0, <2>7 DEF DrainRaises, Caught
  <2>8. CASE StartProcess \/ Serve \/ Unwind \/ ComponentFails \/ FlushOne \/ FlushEnds \/ Closed
               \/ Crash \/ Exit
    BY <1>3, <2>8 DEF StartProcess, Serve, Unwind, ComponentFails, FlushOne, FlushEnds, Closed,
       Crash, Exit, Gone
  <2>9. CASE FlushGoesOn
    BY <1>0, <2>0, <2>9 DEF FlushGoesOn, AddInserted, AddCommitted, Raise, Caught, Continue, Resumed
  <2>10. CASE Stop  BY <2>10 DEF Stop
  <2>11. CASE Worker
    BY <2>1, <2>11 DEF Worker, own, Exec, ExecInsert, ExecDelete, ExecCommit, ExecBackup,
       ExecCount, ExecClose, ExecRefused, ExecFails, Reply
  <2>12. ASSUME NEW k \in Clients, Command(k) \/ HandlerGoesOn(k)  PROVE  Kept
    <3>1. k \in Callers /\ k # Drain /\ UNCHANGED own
      BY <2>12 DEF Clients, Command, HandlerGoesOn
    <3>2. ev'[Drain] = ev[Drain]
      BY <1>0, <2>12, <3>1 DEF Command, HandlerGoesOn, ClearBegin, BackupBegin, Begin, ClearDeleted,
         BackupCopied, Continue, ClearCommitted, BackupCounted, Raise, Caught, Ends, TypeOK
    <3>3. QED  BY <3>1, <3>2 DEF own
  <2>13. CASE UNCHANGED daemonVars
    BY <2>1, <2>13 DEF daemonVars, store, vars, calls, own
  <2>14. QED
    BY <2>1, <2>2, <2>3, <2>4, <2>5, <2>6, <2>7, <2>8, <2>9, <2>10, <2>11, <2>12, <2>13
       DEF DaemonNext, DrainStep, MainStep
<1>4. QED  BY <1>1, <1>2, <1>3

\* While the daemon serves and no statement fails, every event it emitted is queued,
\* in the drain loop's hands, or recorded: whatever its clients do to the shared
\* connection meanwhile.
THEOREM NothingLostWhileServingThm == DaemonSpec => []NothingLostWhileServing
<1>1. DaemonInit => ServingInv /\ NothingLostWhileServing
  BY DEF DaemonInit, Init, ServingInv, NothingLostWhileServing
<1>2. DaemonInv /\ DaemonInv' /\ ServingInv /\ NothingLostWhileServing /\ [DaemonNext]_daemonVars
        => ServingInv' /\ NothingLostWhileServing'
  BY ServingStep, NothingLostStep
<1>3. QED  BY <1>1, <1>2, DaemonInvariant, PTL DEF DaemonSpec

\* What was emitted before the stop, but for one event, is recorded, or the flush
\* has it still before it.
ToFlush == IF main \in {"serving", "flush"} THEN Range(queue) \cup {ev[Main]} ELSE {}

LossInv ==
    faults = 0 /\ asked # NotAsked /\ main \notin {"down", "opening"} =>
        /\ ~running /\ drain # "get"
        /\ \E x \in Events \cup {NoEvent} :
               \A i \in 1..asked : session[i] \in Range(jsonl) \cup {x} \cup ToFlush

\* What the flush has before it stays there until its line is written.
LEMMA FlushStep ==
    ASSUME DaemonInv, DaemonInv', ServingInv, [DaemonNext]_daemonVars, faults' = 0,
           main' # "down", drain # "get", NEW e \in Events, e \in ToFlush
    PROVE  e \in ToFlush' \cup Range(jsonl')
<1>0. /\ TypeOK /\ PlacesInv /\ [Next]_vars /\ DaemonTypeOK /\ QueueInv
      /\ queue \in Seq(Events) /\ jsonl \in Seq(Events) /\ e # NoEvent
      /\ Drain \in Callers /\ Main \in Callers /\ Drain # Main
      /\ main \in {"serving", "flush"} /\ conn = "open" /\ faults = 0
      /\ e \in Range(queue) \cup {ev[Main]}
  BY StoreStep, NoEventAssumption, CallersAssumption, FaultsCount
     DEF DaemonInv, InductiveInv, DaemonTypeOK, TypeOK, ToFlush, PlacesInv
<1>1. /\ at[Main] # "raised" /\ (at[Main] # "idle" => res[Main] # "err")
      /\ at[Main] = "idle" => e \in Range(queue)
  BY <1>0 DEF ServingInv, PlacesInv
<1>2. CASE main' \in {"serving", "flush"} /\ Range(queue) \subseteq Range(queue') /\ ev'[Main] = ev[Main]
  BY <1>0, <1>2 DEF ToFlush
<1>3. CASE Emit
  <2>1. PICK x \in Events : queue' = Append(queue, x)  BY <1>3, Emitted
  <2>2. Range(queue') = Range(queue) \cup {x}  BY <1>0, <2>1, RangeAppend
  <2>3. QED  BY <1>0, <1>2, <1>3, <2>2 DEF Emit, store, vars, calls
<1>4. CASE FlushOne
  <2>1. /\ queue # <<>> /\ queue' = Tail(queue) /\ at[Main] = "idle" /\ ev'[Main] = Head(queue)
        /\ main' = main
    BY <1>0, <1>4 DEF FlushOne, AddBegin, Begin, TypeOK
  <2>2. Range(queue) = {Head(queue)} \cup Range(Tail(queue))
    BY <1>0, <2>1, HeadPrecedes
  <2>3. QED  BY <1>0, <1>1, <2>1, <2>2 DEF ToFlush
<1>5. CASE FlushGoesOn
  <2>1. CASE AddInserted(Main)
    BY <1>0, <1>2, <1>5, <2>1 DEF FlushGoesOn, own, AddInserted, Continue
  <2>2. CASE AddCommitted(Main)
    <3>1. jsonl' = Append(jsonl, ev[Main]) /\ ev[Main] \in Events /\ queue' = queue /\ main' = main
      BY <1>0, <1>5, <2>2 DEF FlushGoesOn, own, AddCommitted, Resumed, TypeOK
    <3>2. Range(jsonl') = Range(jsonl) \cup {ev[Main]}
      BY <1>0, <3>1, RangeAppend
    <3>3. QED  BY <1>0, <3>1, <3>2 DEF ToFlush
  <2>3. CASE Raise(Main) \/ Caught(Main)
    BY <1>1, <2>3 DEF Raise, Caught, Resumed, Places
  <2>4. QED  BY <1>5, <2>1, <2>2, <2>3 DEF FlushGoesOn
<1>6. CASE FlushEnds \/ Closed
  <2>1. (queue = <<>> /\ at[Main] = "idle") \/ at[Main] = "close"
    BY <1>6 DEF FlushEnds, CloseBegin, Begin, Closed, CloseDone, Resumed
  <2>2. QED  BY <1>0, <1>1, <2>1 DEF PlacesInv, Range
<1>7. CASE DrainTake \/ StartProcess \/ Serve \/ Crash \/ Exit
  BY <1>0, <1>7 DEF DrainTake, StartProcess, Serve, Crash, Exit, Gone
<1>8. CASE Unwind \/ ComponentFails
  BY <1>0, <1>2, <1>8 DEF Unwind, ComponentFails, store, vars, calls
<1>9. CASE DrainAdd
  BY <1>0, <1>2, <1>9 DEF DrainAdd, AddBegin, Begin, store, vars, calls, TypeOK
<1>10. CASE DrainGoesOn
  BY <1>0, <1>2, <1>10 DEF DrainGoesOn, own, AddInserted, Continue, Raise, Discard, calls
<1>11. CASE DrainAdded \/ DrainRaises
  BY <1>0, <1>2, <1>11 DEF DrainAdded, DrainRaises, AddCommitted, Caught, Ends, TypeOK
<1>12. CASE Stop
  BY <1>0, <1>2, <1>12 DEF Stop, CancelCall, store, vars, calls
<1>13. CASE Worker
  BY <1>0, <1>2, <1>13 DEF Worker, own, Exec, ExecInsert, ExecDelete, ExecCommit, ExecBackup,
     ExecCount, ExecClose, ExecRefused, ExecFails, Reply
<1>14. ASSUME NEW k \in Clients, Command(k) \/ HandlerGoesOn(k)
       PROVE  e \in ToFlush' \cup Range(jsonl')
  <2>1. k \in Callers /\ k # Main /\ UNCHANGED own
    BY <1>14 DEF Clients, Command, HandlerGoesOn
  <2>2. ev'[Main] = ev[Main]
    BY <1>0, <1>14, <2>1 DEF Command, HandlerGoesOn, ClearBegin, BackupBegin, Begin, ClearDeleted,
       BackupCopied, Continue, ClearCommitted, BackupCounted, Raise, Caught, Ends, TypeOK
  <2>3. QED  BY <1>0, <1>2, <2>1, <2>2 DEF own
<1>15. CASE UNCHANGED daemonVars
  BY <1>0, <1>2, <1>15 DEF daemonVars, store, vars, calls, own
<1>16. QED
  BY <1>3, <1>4, <1>5, <1>6, <1>7, <1>8, <1>9, <1>10, <1>11, <1>12, <1>13, <1>14, <1>15
     DEF DaemonNext, DrainStep, MainStep

\* Without a fault, a stop loses nothing that was emitted before it was asked for.
LEMMA LossStep ==
    ASSUME DaemonInv, DaemonInv', ServingInv, NothingLostWhileServing, LossInv,
           [DaemonNext]_daemonVars
    PROVE  LossInv'
<1> SUFFICES ASSUME faults' = 0, asked' # NotAsked, main' \notin {"down", "opening"}
             PROVE  /\ ~running' /\ drain' # "get"
                    /\ \E x \in Events \cup {NoEvent} :
                           \A i \in 1..asked' :
                               session'[i] \in Range(jsonl') \cup {x} \cup ToFlush'
  BY DEF LossInv
<1>0. /\ TypeOK /\ PlacesInv /\ [Next]_vars /\ DaemonTypeOK /\ QueueInv
      /\ session \in Seq(Events) /\ session' \in Seq(Events) /\ NoEvent \notin Events
      /\ Drain \in Callers /\ faults = 0
      /\ asked \in {NotAsked} \cup 0..Len(session) /\ asked' \in {NotAsked} \cup 0..Len(session')
      /\ Range(jsonl) \subseteq Range(jsonl')
  BY StoreStep, NoEventAssumption, CallersAssumption, FaultsCount, LinesStay
     DEF DaemonInv, InductiveInv, DaemonTypeOK
<1>1. CASE asked = NotAsked
  <2>1. Stop /\ main = "serving" /\ asked' = Len(session) /\ main' = main
    BY <1>1, MainMoves DEF Serve, Stop, StartProcess, Gone
  <2>2. running  BY <1>1, <2>1 DEF ServingInv
  <2>3. Range(session) \subseteq Range(queue) \cup {taken, ev[Drain]} \cup Range(jsonl)
    BY <1>0, <2>1, <2>2 DEF NothingLostWhileServing
  <2>4. /\ ~running' /\ drain' # "get" /\ UNCHANGED <<queue, session, jsonl>>
    BY <2>1 DEF Stop, CancelCall, store, vars
  <2>5. PICK x \in {taken, ev[Drain]} : {taken, ev[Drain]} \subseteq {x, NoEvent}
    BY <1>0 DEF PlacesInv, DaemonTypeOK
  <2>6. x \in Events \cup {NoEvent}  BY <1>0 DEF DaemonTypeOK, TypeOK
  <2>7. ASSUME NEW i \in 1..Len(session)
        PROVE  session[i] \in Range(jsonl') \cup {x} \cup ToFlush'
    <3>1. session[i] \in Range(session) /\ session[i] \in Events  BY <1>0 DEF Range
    <3>2. QED  BY <1>0, <2>1, <2>3, <2>4, <2>5, <3>1 DEF ToFlush
  <2>8. QED  BY <2>1, <2>4, <2>6, <2>7
<1>2. CASE asked # NotAsked
  <2>1. main \notin {"down", "opening"}
    <3>1. main # "opening"  BY <1>2 DEF ServingInv
    <3>2. CASE main = "down"
      <4>1. StartProcess \/ main' = "down"
        BY <1>0, <3>2 DEF DaemonNext, DrainStep, MainStep, StartProcess,
           ComponentFails, Crash, Stop, Serve, Unwind, FlushOne, FlushGoesOn, FlushEnds, Closed,
           Exit, Worker, Emit, DrainTake, DrainAdd, DrainGoesOn, DrainAdded, DrainRaises, Command,
           HandlerGoesOn, own, daemonVars, CloseDone, Resumed, PlacesInv
      <4>2. QED  BY <4>1 DEF StartProcess
    <3>3. QED  BY <3>1, <3>2
  <2>2. /\ ~running /\ drain # "get"
        /\ \E x \in Events \cup {NoEvent} :
               \A i \in 1..asked : session[i] \in Range(jsonl) \cup {x} \cup ToFlush
    BY <1>0, <1>2, <2>1 DEF LossInv
  <2>3. ~running' /\ asked' = asked
    <3>1. CASE UNCHANGED <<running, asked>>  BY <2>2, <3>1
    <3>2. CASE Stop  BY <1>2, <3>2 DEF Stop
    <3>3. ~Serve /\ ~StartProcess /\ ~Gone  BY <2>1 DEF Serve, StartProcess, Gone
    <3>4. QED  BY <3>1, <3>2, <3>3, MainMoves
  <2>4. drain' # "get"
    BY <1>2, <2>1, <2>2 DEF DaemonNext, DrainStep, MainStep, StartProcess,
       ComponentFails, Crash, Stop, Serve, Unwind, FlushOne, FlushGoesOn, FlushEnds, Closed,
       Exit, Gone, Worker, Emit, DrainTake, DrainAdd, DrainGoesOn, DrainAdded, DrainRaises, Command,
       HandlerGoesOn, own, daemonVars
  <2>5. \A i \in 1..asked : session'[i] = session[i] /\ session[i] \in Events
    <3>1. 1..asked \subseteq 1..Len(session)  BY <1>0, <1>2
    <3>2. CASE session' = session  BY <1>0, <3>1, <3>2
    <3>3. CASE Emit
      <4>1. PICK e \in Events : session' = Append(session, e)  BY <3>3, Emitted
      <4>2. QED  BY <1>0, <3>1, <4>1
    <3>4. QED
      BY <2>1, <3>2, <3>3, QueueMoves DEF DrainTake, FlushOne, StartProcess, Gone
  <2>6. PICK x \in Events \cup {NoEvent} :
            \A i \in 1..asked : session[i] \in Range(jsonl) \cup {x} \cup ToFlush
    BY <2>2
  <2>7. \A e \in Events : e \in ToFlush => e \in ToFlush' \cup Range(jsonl')
    BY <2>2, FlushStep
  <2>8. \A i \in 1..asked' : session'[i] \in Range(jsonl') \cup {x} \cup ToFlush'
    BY <1>0, <2>3, <2>5, <2>6, <2>7
  <2>9. QED  BY <2>3, <2>4, <2>8
<1>3. QED  BY <1>1, <1>2

\* The positions of one value in a sequence without repetition are at most one.
LEMMA AtMostOne ==
    ASSUME NEW S, NEW s \in Seq(S), IsInjective(s), NEW x, NEW n \in 0..Len(s),
           NEW P \in SUBSET (1..n), \A i \in P : s[i] = x
    PROVE  Cardinality(P) <= 1
<1>1. DOMAIN s = 1..Len(s) /\ Len(s) \in Nat  OBVIOUS
<1>2. \A i, j \in P : i = j
  BY <1>1 DEF IsInjective
<1>3. CASE P = {}
  BY <1>3, FS_EmptySet
<1>4. ASSUME NEW i \in P  PROVE  Cardinality(P) <= 1
  <2>1. P = {i}  BY <1>2
  <2>2. Cardinality({i}) = 1  BY FS_Singleton
  <2>3. QED  BY <2>1, <2>2
<1>5. QED  BY <1>3, <1>4

\* Stopping the daemon loses at most the one event that the drain loop was adding.
THEOREM StopLosesAtMostOneThm == DaemonSpec => []StopLosesAtMostOne
<1>1. DaemonInit => ServingInv /\ NothingLostWhileServing /\ LossInv
  BY DEF DaemonInit, Init, ServingInv, NothingLostWhileServing, LossInv
<1>2. DaemonInv /\ DaemonInv' /\ [DaemonNext]_daemonVars /\ ServingInv
        /\ NothingLostWhileServing /\ LossInv
        => ServingInv' /\ NothingLostWhileServing' /\ LossInv'
  BY ServingStep, NothingLostStep, LossStep
<1>3. DaemonInv /\ LossInv => StopLosesAtMostOne
  <2> SUFFICES ASSUME DaemonInv, LossInv, main = "exited", faults = 0
               PROVE  Cardinality({i \in 1..asked : session[i] \notin Range(jsonl)}) <= 1
    BY DEF StopLosesAtMostOne
  <2> DEFINE lost == {i \in 1..asked : session[i] \notin Range(jsonl)}
  <2>1. /\ session \in Seq(Events) /\ IsInjective(session)
        /\ asked \in {NotAsked} \cup 0..Len(session)
    BY DEF DaemonInv, DaemonTypeOK, QueueInv
  <2>2. CASE asked = NotAsked
    <3>1. 1..asked = {}  BY <2>2 DEF NotAsked
    <3>2. lost = {}  BY <3>1
    <3>3. QED  BY <3>2, FS_EmptySet
  <2>3. CASE asked # NotAsked
    <3>1. PICK x \in Events \cup {NoEvent} : \A i \in lost : session[i] = x
      BY <2>3 DEF LossInv, ToFlush
    <3>2. lost \in SUBSET (1..asked) /\ asked \in 0..Len(session)  BY <2>1, <2>3
    <3> HIDE DEF lost
    <3>3. Cardinality(lost) <= 1  BY <2>1, <3>1, <3>2, AtMostOne
    <3>4. QED  BY <3>3 DEF lost
  <2>4. QED  BY <2>2, <2>3
<1>4. QED  BY <1>1, <1>2, <1>3, DaemonInvariant, PTL DEF DaemonSpec

(***************************************************************************)
(* The order of emission.                                                  *)
(***************************************************************************)

\* e was emitted before f: their adds and their lines are in that order, their
\* rows are, and the INSERT of e does not wait once f has its row.
InsertsInOrder(e, f) ==
    \A c \in Range(ops) : at[c] = "insert" /\ ev[c] = e =>
        /\ f \notin Range(View) \cup Range(committed)
        /\ \A d \in Range(ops) : at[d] = "insert" /\ ev[d] = f => Precedes(ops, c, d)

RowsInOrder(e, f) ==
    /\ e \in Range(View) /\ f \in Range(View) => Precedes(View, e, f)
    /\ e \in Range(committed) /\ f \in Range(committed) => Precedes(committed, e, f)

Pair(e, f) == InOrder(e, f) /\ RowsInOrder(e, f) /\ InsertsInOrder(e, f)

EmissionInv ==
    \A i, j \in DOMAIN session :
        i < j /\ session[i] \notin overtaken => Pair(session[i], session[j])

\* An event gets known in an add that begins.
LEMMA KnownStep ==
    ASSUME TypeOK, TypeOK', FreshnessInv, [Next]_vars, NEW e \in Events, Fresh(e), ~Fresh(e)'
    PROVE  \E c \in Callers : AddBegin(c, e)
<1> DEFINE None == \A c \in Callers : ev'[c] \in {ev[c], NoEvent}
<1>1. e # NoEvent /\ \A c \in Callers : ev[c] # e
  BY NoEventAssumption DEF Fresh
<1>2. ~None
  BY <1>1, FreshStep
<1>3. ASSUME NEW c \in Callers, Resume(c)  PROVE  None
  BY <1>3 DEF Resume, AddInserted, ClearDeleted, BackupCopied, Continue, AddCommitted,
     ClearCommitted, BackupCounted, CloseDone, Raise, Caught, Discard, Ends, calls, TypeOK
<1>4. ASSUME NEW c \in Callers, ClearBegin(c) \/ BackupBegin(c) \/ CloseBegin(c) \/ CancelCall(c)
      PROVE  None
  BY <1>4 DEF ClearBegin, BackupBegin, CloseBegin, Begin, CancelCall, TypeOK
<1>5. ASSUME NEW c \in Callers, Exec(c)  PROVE  None
  BY <1>5 DEF Exec, ExecInsert, ExecDelete, ExecCommit, ExecBackup, ExecCount, ExecClose,
     ExecRefused, ExecFails, Reply
<1>6. ProcessEnds \/ Open \/ UNCHANGED vars => None
  BY DEF ProcessEnds, Open, calls, vars
<1>7. PICK c \in Callers, x \in Events : AddBegin(c, x)
  BY <1>2, <1>3, <1>4, <1>5, <1>6 DEF Next, Start
<1>8. x = e
  <2>1. ASSUME x # e  PROVE  \A d \in Callers : ev'[d] # e
    BY <1>1, <1>7, <2>1 DEF AddBegin, Begin, TypeOK
  <2>2. QED  BY <2>1, FreshStep
<1>9. QED  BY <1>7, <1>8

\* An INSERT that waits was waiting, or has just been submitted.
LEMMA InsertWaits ==
    ASSUME TypeOK, TypeOK', QueuesInv, [Next]_vars, NEW c \in Range(ops'), at'[c] = "insert"
    PROVE  \/ c \in Range(ops) /\ at[c] = "insert" /\ ev'[c] = ev[c]
           \/ AddBegin(c, ev'[c]) /\ c \in Callers
<1>0. c \in Callers
  BY RangeType DEF TypeOK
<1>1. CASE Open \/ UNCHANGED vars
  BY <1>1 DEF Open, vars, calls
<1>2. CASE ProcessEnds
  BY <1>2 DEF ProcessEnds, Range
<1>3. ASSUME NEW d \in Callers, Start(d)
      PROVE  \/ c \in Range(ops) /\ at[c] = "insert" /\ ev'[c] = ev[c]
             \/ AddBegin(c, ev'[c]) /\ c \in Callers
  <2>1. PICK p \in {"insert", "delete", "backup", "close"}, x \in Events \cup {NoEvent} :
            Begin(d, p, x)
    BY <1>3 DEF Start, AddBegin, ClearBegin, BackupBegin, CloseBegin
  <2>2. ops' = Append(ops, d) /\ Range(ops') = Range(ops) \cup {d}
    <3>1. ops' = Append(ops, d)  BY <2>1 DEF Begin
    <3>2. QED  BY <3>1, RangeAppend DEF TypeOK
  <2>3. CASE c = d
    <3>1. p = "insert" /\ ev'[c] = x  BY <2>1, <2>3 DEF Begin, TypeOK
    <3>2. QED  BY <2>1, <2>3, <3>1 DEF AddBegin
  <2>4. CASE c # d
    BY <2>1, <2>2, <2>4 DEF Begin, TypeOK
  <2>5. QED  BY <2>3, <2>4
<1>4. ASSUME NEW d \in Callers, Resume(d)
      PROVE  c \in Range(ops) /\ at[c] = "insert" /\ ev'[c] = ev[c]
  <2>1. CASE \E from \in Places, to \in {"commit", "wipe", "count"} : Continue(d, from, to)
    <3>1. PICK from \in Places, to \in {"commit", "wipe", "count"} : Continue(d, from, to)
      BY <2>1
    <3>2. /\ ops' = ops \/ ops' = Append(ops, d)
          /\ ev' = ev /\ c # d /\ (c # d => at'[c] = at[c])
      BY <1>0, <3>1 DEF Continue, TypeOK
    <3>3. Range(Append(ops, d)) = Range(ops) \cup {d}
      BY RangeAppend DEF TypeOK
    <3>4. c \in Range(ops)  BY <3>2, <3>3
    <3>5. QED  BY <3>2, <3>4
  <2>2. CASE AddCommitted(d) \/ ClearCommitted(d) \/ BackupCounted(d) \/ CloseDone(d) \/ Raise(d)
               \/ Caught(d) \/ Discard(d)
    BY <1>0, <2>2 DEF AddCommitted, ClearCommitted, BackupCounted, CloseDone, Raise, Caught, Discard,
       Resumed, Ends, calls, TypeOK
  <2>3. QED  BY <1>4, <2>1, <2>2 DEF Resume, AddInserted, ClearDeleted, BackupCopied, Places
<1>5. ASSUME NEW d \in Callers, Exec(d)
      PROVE  c \in Range(ops) /\ at[c] = "insert" /\ ev'[c] = ev[c]
  <2>1. Executes(d) /\ at' = at /\ ev' = ev
    BY <1>5 DEF Exec, ExecInsert, ExecDelete, ExecCommit, ExecBackup, ExecCount, ExecClose,
                ExecRefused, ExecFails, Executing, Reply, Executes
  <2>2. Range(ops') \subseteq Range(ops)  BY <2>1, WaitingSteps
  <2>3. QED  BY <2>1, <2>2
<1>6. ASSUME NEW d \in Callers, CancelCall(d)
      PROVE  c \in Range(ops) /\ at[c] = "insert" /\ ev'[c] = ev[c]
  BY <1>6 DEF CancelCall
<1>7. QED  BY <1>1, <1>2, <1>3, <1>4, <1>5, <1>6 DEF Next

\* Two adds in order stay in order when the second begins.
LEMMA InOrderBegun ==
    ASSUME TypeOK, FreshnessInv, WaitsInv, NEW e \in Events, NEW f \in Events, e # f,
           NEW b \in Callers, AddBegin(b, f), Fresh(f)
    PROVE  InOrder(e, f)'
<1>1. /\ ops' = Append(ops, b) /\ replies' = replies /\ at[b] = "idle"
      /\ at' = [at EXCEPT ![b] = "insert"] /\ ev' = [ev EXCEPT ![b] = f]
      /\ UNCHANGED <<jsonl, live>>
  BY DEF AddBegin, Begin
<1>2. f \notin Range(jsonl')  BY <1>1 DEF Fresh
<1>3. ASSUME NEW c \in Callers, NEW d \in Callers,
             OnItsWay(c)', OnItsWay(d)', ev'[c] = e, ev'[d] = f
      PROVE  \/ at'[c] = "commit" /\ at'[d] = "insert"
             \/ at'[c] = at'[d] /\ Before(c, d)'
  <2>1. d = b /\ c # b
    BY <1>1, <1>3 DEF Fresh, TypeOK
  <2>2. at'[d] = "insert" /\ at'[c] = at[c] /\ OnItsWay(c)
    BY <1>1, <1>3, <2>1 DEF OnItsWay, TypeOK
  <2>3. c \in Waiting  BY <2>2 DEF WaitsInv, OnItsWay
  <2>4. Before(c, d)'
    BY <1>1, <2>1, <2>3, BeforeSubmitted DEF Submits, FreshnessInv
  <2>5. QED  BY <2>2, <2>4 DEF OnItsWay
<1>4. QED  BY <1>2, <1>3 DEF InOrder

\* What the order of two events stays by: the second is not known when the add of
\* the first begins.
LEMMA InOrderKept ==
    ASSUME TypeOK, TypeOK', FreshnessInv, WaitsInv, [Next]_vars,
           NEW e \in Events, NEW f \in Events, e # f, InOrder(e, f),
           \A c \in Callers : AddBegin(c, e) => Fresh(f)
    PROVE  InOrder(e, f)'
<1>1. CASE Fresh(e)'
  BY <1>1 DEF Fresh, InOrder, Missed
<1>2. CASE Fresh(f)'
  BY <1>2 DEF Fresh, InOrder
<1>3. CASE ~Fresh(e)' /\ ~Fresh(f)'
  <2>1. CASE Fresh(f)
    <3>1. PICK b \in Callers : AddBegin(b, f)  BY <1>3, <2>1, KnownStep
    <3>2. QED  BY <2>1, <3>1, InOrderBegun
  <2>2. CASE ~Fresh(f)
    <3>1. ~Fresh(e)  BY <1>3, <2>2, KnownStep
    <3>2. QED  BY <2>2, <3>1, InOrderStep
  <2>3. QED  BY <2>1, <2>2
<1>4. QED  BY <1>1, <1>2, <1>3

\* Two INSERTs that wait stay in their order, and the first is executed first.
LEMMA InsertsKept ==
    ASSUME TypeOK, TypeOK', FreshnessInv, [Next]_vars,
           NEW e \in Events, NEW f \in Events, e # f, InsertsInOrder(e, f),
           \A c \in Callers : AddBegin(c, e) => Fresh(f)
    PROVE  InsertsInOrder(e, f)'
<1> SUFFICES ASSUME NEW c \in Range(ops'), at'[c] = "insert", ev'[c] = e
             PROVE  /\ f \notin Range(View') \cup Range(committed')
                    /\ \A d \in Range(ops') :
                           at'[d] = "insert" /\ ev'[d] = f => Precedes(ops', c, d)
  BY DEF InsertsInOrder
<1>0. /\ QueuesInv /\ ops \in Seq(Callers) /\ IsInjective(ops) /\ Range(ops') \subseteq Callers
  BY RangeType DEF FreshnessInv, QueuesInv, TypeOK
<1>1. CASE c \in Callers /\ AddBegin(c, e)
  <2>1. /\ Fresh(f) /\ UNCHANGED <<committed, txn>> /\ ev' = [ev EXCEPT ![c] = e]
    BY <1>1 DEF AddBegin, Begin
  <2>2. f \notin Range(View') \cup Range(committed')
    BY <2>1 DEF Fresh, View
  <2>3. \A d \in Callers : ev'[d] # f
    BY <2>1 DEF Fresh, TypeOK
  <2>4. QED  BY <1>0, <2>2, <2>3
<1>2. CASE c \in Range(ops) /\ at[c] = "insert" /\ ev[c] = e
  <2>1. /\ f \notin Range(View) \cup Range(committed)
        /\ \A d \in Range(ops) : at[d] = "insert" /\ ev[d] = f => Precedes(ops, c, d)
    BY <1>2 DEF InsertsInOrder
  <2>2. f \notin Range(View') \cup Range(committed')
    <3>1. ASSUME NEW b \in Callers, ExecInsert(b), f = ev[b]  PROVE  FALSE
      <4>1. ops # <<>> /\ Head(ops) = b /\ at[b] = "insert"
        BY <3>1 DEF ExecInsert, Executing
      <4>2. b \in Range(ops)  BY <1>0, <4>1, HeadPrecedes
      <4>3. Precedes(ops, c, b)  BY <2>1, <3>1, <4>1, <4>2
      <4>4. QED  BY <1>0, <4>1, <4>3, PrecedesTail
    <3>2. QED  BY <2>1, <3>1, RowsStep
  <2>3. ASSUME NEW d \in Range(ops'), at'[d] = "insert", ev'[d] = f
        PROVE  Precedes(ops', c, d)
    <3>1. CASE d \in Callers /\ AddBegin(d, f)
      <4>1. ops' = Append(ops, d)  BY <3>1 DEF AddBegin, Begin
      <4>2. QED  BY <1>0, <1>2, <3>1, <4>1, PrecedesAppend
    <3>2. CASE d \in Range(ops) /\ at[d] = "insert" /\ ev[d] = f
      <4>1. Precedes(ops, c, d)  BY <2>1, <3>2
      <4>2. CASE ops' = ops  BY <4>1, <4>2
      <4>3. ASSUME NEW b \in Callers, ops' = Append(ops, b)  PROVE  Precedes(ops', c, d)
        BY <1>0, <4>1, <4>3, PrecedesAppend
      <4>4. CASE ProcessEnds  BY <4>4 DEF ProcessEnds, Range
      <4>5. ASSUME NEW b \in Callers, Executes(b)  PROVE  Precedes(ops', c, d)
        <5>1. c # b  BY <1>0, <4>5, WaitingSteps
        <5>2. QED  BY <1>0, <4>1, <4>5, <5>1, PrecedesTail DEF Executes
      <4>6. QED  BY <4>2, <4>3, <4>4, <4>5, QueueSteps DEF Submits
    <3>3. QED  BY <1>0, <2>3, <3>1, <3>2, InsertWaits
  <2>4. QED  BY <2>2, <2>3
<1>3. QED  BY <1>0, <1>1, <1>2, InsertWaits

\* Rows are inserted in the order of their INSERTs.
LEMMA RowsKept ==
    ASSUME TypeOK, TypeOK', FreshnessInv, [Next]_vars,
           NEW e \in Events, NEW f \in Events, e # f, RowsInOrder(e, f), InsertsInOrder(e, f)
    PROVE  RowsInOrder(e, f)'
<1>0. /\ View' = (IF txn'.wiped THEN <<>> ELSE committed') \o txn'.added
      /\ committed' \in Seq(Events) /\ txn'.added \in Seq(Events) /\ txn'.wiped \in BOOLEAN
  BY DEF View, TypeOK
<1>1. CASE committed' = committed /\ txn'.wiped = txn.wiped /\ txn'.added = txn.added
  BY <1>1 DEF RowsInOrder, View
<1>2. CASE committed' = committed /\ txn' = NoTxn
  <2>1. View' = committed  BY <1>0, <1>2, RowsOf DEF NoTxn
  <2>2. QED  BY <1>2, <2>1 DEF RowsInOrder
<1>3. ASSUME NEW c \in Callers, ExecInsert(c)  PROVE  RowsInOrder(e, f)'
  <2>1. /\ View' = Append(View, ev[c]) /\ committed' = committed /\ ev[c] \in Events
        /\ View \in Seq(Events)
    BY <1>3, InsertedRow, ViewType
  <2>2. /\ Range(View') = Range(View) \cup {ev[c]}
        /\ Precedes(View', e, f) <=> Precedes(View, e, f) \/ (e \in Range(View) /\ f = ev[c])
    BY <2>1, RangeAppend, PrecedesAppend
  <2>3. e = ev[c] => f \notin Range(View)
    <3>1. ops # <<>> /\ Head(ops) = c /\ at[c] = "insert"  BY <1>3 DEF ExecInsert, Executing
    <3>2. c \in Range(ops)  BY <3>1, HeadPrecedes DEF TypeOK
    <3>3. QED  BY <3>1, <3>2 DEF InsertsInOrder
  <2>4. QED  BY <2>1, <2>2, <2>3 DEF RowsInOrder
<1>4. ASSUME NEW c \in Callers, ExecDelete(c)  PROVE  RowsInOrder(e, f)'
  <2>1. committed' = committed /\ txn'.wiped /\ txn'.added = <<>>
    BY <1>4 DEF ExecDelete
  <2>2. View' = <<>> /\ Range(<<>>) = {}
    BY <1>0, <2>1, RowsOf DEF Range
  <2>3. QED  BY <2>1, <2>2 DEF RowsInOrder
<1>5. ASSUME NEW c \in Callers, ExecCommit(c)  PROVE  RowsInOrder(e, f)'
  <2>1. committed' = View /\ txn' = NoTxn  BY <1>5 DEF ExecCommit
  <2>2. View' = View  BY <1>0, <2>1, RowsOf DEF NoTxn
  <2>3. QED  BY <2>1, <2>2 DEF RowsInOrder
<1>6. QED  BY <1>1, <1>2, <1>3, <1>4, <1>5, RowSteps

\* Who is added next is the first of the events that wait; those behind it are fresh.
LEMMA NextAdded ==
    ASSUME DaemonInv, [DaemonNext]_daemonVars,
           taken # NoEvent /\ taken \notin overtaken => Begun > 0 /\ session[Begun] = taken,
           NEW i \in DOMAIN session, NEW j \in DOMAIN session, i < j, session[i] \notin overtaken,
           NEW c \in Callers, AddBegin(c, session[i])
    PROVE  Fresh(session[j])
<1>0. /\ TypeOK /\ PlacesInv /\ QueueInv /\ DaemonTypeOK
      /\ session \in Seq(Events) /\ queue \in Seq(Events) /\ IsInjective(session)
      /\ Suffix(queue, session) /\ DOMAIN session = 1..Len(session)
      /\ Len(session) \in Nat /\ Len(queue) \in Nat /\ Len(queue) <= Len(session)
      /\ session[i] \in Events /\ NoEvent \notin Events
  BY NoEventAssumption DEF DaemonInv, InductiveInv, DaemonTypeOK, QueueInv, Suffix
<1>1. ev'[c] = session[i] /\ ev[c] = NoEvent
  BY <1>0 DEF AddBegin, Begin, PlacesInv, TypeOK
<1>2. (session[i] = taken /\ taken # NoEvent) \/ (session[i] = Head(queue) /\ queue # <<>>)
  <2>1. CASE DrainAdd /\ ev' = [ev EXCEPT ![Drain] = taken]
    BY <1>0, <1>1, <2>1 DEF TypeOK
  <2>2. CASE FlushOne /\ ev' = [ev EXCEPT ![Main] = Head(queue)]
    <3>1. queue # <<>>  BY <2>2 DEF FlushOne
    <3>2. c = Main /\ session[i] = Head(queue)
      BY <1>0, <1>1, <2>2 DEF TypeOK
    <3>3. QED  BY <3>1, <3>2
  <2>3. QED  BY <1>0, <1>1, <2>1, <2>2, AddsBegin
<1>3. i >= Begun /\ Begun \in Nat
  <2>1. Begun \in Nat  BY <1>0 DEF Begun
  <2>2. CASE session[i] = taken /\ taken # NoEvent
    <3>1. Begun \in 1..Len(session)  BY <1>0, <2>2 DEF Begun
    <3>2. QED  BY <1>0, <2>1, <2>2, <3>1 DEF IsInjective
  <2>3. CASE session[i] = Head(queue) /\ queue # <<>>
    <3>1. Begun + 1 \in 1..Len(session) /\ Head(queue) = session[Begun + 1]
      BY <1>0, <2>3, SuffixTail DEF Begun
    <3>2. i = Begun + 1  BY <1>0, <2>3, <3>1 DEF IsInjective
    <3>3. QED  BY <2>1, <3>2
  <2>4. QED  BY <1>2, <2>2, <2>3
<1>4. session[j] \in Range(queue)
  <2>1. j \in 1..Len(session) /\ j > Len(session) - Len(queue)
    BY <1>0, <1>3 DEF Begun
  <2>2. QED  BY <1>0, <2>1, BeforeSuffix
<1>5. QED  BY <1>0, <1>4 DEF QueueInv

\* What a crash is counted by.
LEMMA CrashesCount ==
    ASSUME DaemonTypeOK, [DaemonNext]_daemonVars, crashes' = 0
    PROVE  crashes = 0 /\ ~Crash /\ ~ComponentFails
<1>1. crashes \in Nat  BY DEF DaemonTypeOK
<1>2. ~Crash /\ ~ComponentFails  BY <1>1 DEF Crash, ComponentFails
<1>3. crashes' = crashes
  BY <1>2 DEF DaemonNext, DrainStep, MainStep, StartProcess,
     Stop, Serve, Unwind, FlushOne, FlushGoesOn, FlushEnds, Closed, Exit, Worker, Emit, DrainTake,
     DrainAdd, DrainGoesOn, DrainAdded, DrainRaises, Command, HandlerGoesOn, own, daemonVars
<1>4. QED  BY <1>2, <1>3

\* Only the flush overtakes, and a new process starts anew.
LEMMA OvertakenStays ==
    ASSUME [DaemonNext]_daemonVars, ~StartProcess, ~FlushOne  PROVE  overtaken' = overtaken
<1>1. ASSUME NEW k \in Clients, Command(k) \/ HandlerGoesOn(k)  PROVE  overtaken' = overtaken
  BY <1>1 DEF Command, HandlerGoesOn, own
<1>2. QED
  BY <1>1 DEF DaemonNext, DrainStep, MainStep, ComponentFails, Crash, Stop, Serve, Unwind,
     FlushGoesOn, FlushEnds, Closed, Exit, Gone, Worker, Emit, DrainTake, DrainAdd, DrainGoesOn,
     DrainAdded, DrainRaises, own, daemonVars

\* The hand-over: a drain loop that is not left running takes no more events when the
\* flush begins, and what it has in hand is the next in order unless it is overtaken.
HandoverInv ==
    /\ ~running => drain # "get"
    /\ crashes = 0 /\ main \in {"flush", "closing", "exited"} =>
           drain = "over" \/ (drain = "adding" /\ ~running)
    /\ taken # NoEvent /\ taken \notin overtaken => Begun > 0 /\ session[Begun] = taken
    /\ crashes = 0 => overtaken = {}

\* Every step keeps the hand-over.
LEMMA HandoverStep ==
    ASSUME DaemonInv, DaemonInv', HandoverInv, [DaemonNext]_daemonVars
    PROVE  HandoverInv'
<1>0. /\ TypeOK /\ PlacesInv /\ [Next]_vars /\ DaemonTypeOK /\ QueueInv /\ QueueInv'
      /\ session \in Seq(Events) /\ queue \in Seq(Events)
      /\ Suffix(queue, session) /\ Len(session) \in Nat /\ Len(queue) \in Nat
      /\ Len(queue) <= Len(session)
      /\ running \in BOOLEAN /\ drain \in {"get", "taken", "adding", "over"}
      /\ main \in {"down", "opening", "serving", "flush", "closing", "exited"}
      /\ drain = "taken" <=> taken # NoEvent
  BY StoreStep DEF DaemonInv, InductiveInv, DaemonTypeOK, QueueInv, Suffix
<1>1. /\ ~running => drain # "get"
      /\ taken # NoEvent /\ taken \notin overtaken => Begun > 0 /\ session[Begun] = taken
  BY DEF HandoverInv
<1>2. taken' # NoEvent /\ taken' \notin overtaken' => Begun' > 0 /\ session'[Begun'] = taken'
  <2>1. CASE /\ UNCHANGED <<queue, session>> /\ taken' \in {taken, NoEvent}
             /\ overtaken' = overtaken
    BY <1>1, <2>1 DEF Begun
  <2>2. CASE Emit
    <3>1. PICK e \in Events : session' = Append(session, e) /\ queue' = Append(queue, e)
      BY <2>2, Emitted
    <3>2. /\ Len(session') = Len(session) + 1 /\ Len(queue') = Len(queue) + 1
          /\ \A i \in 1..Len(session) : session'[i] = session[i]
      BY <1>0, <3>1
    <3>3. Begun' = Begun /\ (Begun > 0 => Begun \in 1..Len(session))
      BY <1>0, <3>2 DEF Begun
    <3>4. taken' = taken /\ overtaken' = overtaken  BY <2>2 DEF Emit
    <3>5. QED  BY <1>1, <3>2, <3>3, <3>4
  <2>3. CASE DrainTake
    <3>1. /\ queue # <<>> /\ taken' = Head(queue) /\ queue' = Tail(queue) /\ session' = session
      BY <2>3 DEF DrainTake
    <3>2. /\ Begun' = Begun + 1 /\ Begun \in Nat /\ Head(queue) = session[Begun + 1]
      BY <1>0, <3>1, SuffixTail DEF Begun
    <3>3. QED  BY <3>1, <3>2
  <2>4. CASE FlushOne
    BY <2>4 DEF FlushOne
  <2>5. CASE StartProcess \/ Gone
    BY <1>0, <2>5 DEF StartProcess, Gone, QueueInv
  <2>6. ~StartProcess /\ ~FlushOne => overtaken' = overtaken
    BY OvertakenStays
  <2>7. QED  BY <2>1, <2>2, <2>3, <2>4, <2>5, <2>6, QueueMoves
<1>3. ~running' => drain' # "get"
  <2>1. CASE DrainStep
    BY <1>0, <1>1, <2>1 DEF DrainStep, DrainTake, DrainAdd, DrainGoesOn, DrainAdded, DrainRaises, own
  <2>2. CASE MainStep
    BY <1>0, <1>1, <2>2 DEF MainStep, Serve, Unwind, FlushOne, FlushGoesOn, FlushEnds, Closed, Exit,
       Gone, own
  <2>3. CASE StartProcess \/ ComponentFails \/ Crash \/ Stop \/ Emit \/ Worker \/ UNCHANGED daemonVars
    BY <1>0, <1>1, <2>3 DEF StartProcess, ComponentFails, Crash, Gone, Stop, Emit, Worker, own,
       daemonVars
  <2>4. ASSUME NEW k \in Clients, Command(k) \/ HandlerGoesOn(k)  PROVE  UNCHANGED own
    BY <2>4 DEF Command, HandlerGoesOn
  <2>5. QED  BY <1>1, <2>1, <2>2, <2>3, <2>4 DEF DaemonNext, own
<1>4. ASSUME crashes' = 0
      PROVE  /\ main' \in {"flush", "closing", "exited"} =>
                    drain' = "over" \/ (drain' = "adding" /\ ~running')
             /\ overtaken' = {}
  <2>0. /\ crashes = 0 /\ ~Crash /\ ~ComponentFails
        /\ main \in {"flush", "closing", "exited"} =>
               drain = "over" \/ (drain = "adding" /\ ~running)
        /\ overtaken = {}
    BY <1>0, <1>4, CrashesCount DEF HandoverInv
  <2>1. overtaken' = {}
    <3>1. CASE StartProcess  BY <3>1 DEF StartProcess
    <3>2. CASE FlushOne
      <4>1. taken = NoEvent  BY <1>0, <2>0, <3>2 DEF FlushOne
      <4>2. QED  BY <2>0, <3>2, <4>1 DEF FlushOne
    <3>3. QED  BY <2>0, <3>1, <3>2, OvertakenStays
  <2>2. CASE DrainStep
    <3>1. DrainAdded => drain = "adding"
      BY <1>0 DEF DrainAdded, AddCommitted, Resumed, PlacesInv
    <3>2. QED
      BY <1>0, <1>1, <2>0, <2>1, <2>2, <3>1 DEF DrainStep, DrainTake, DrainAdd, DrainGoesOn,
         DrainAdded, DrainRaises, own
  <2>3. CASE MainStep
    BY <1>0, <1>1, <2>0, <2>1, <2>3 DEF MainStep, Serve, Unwind, FlushOne, FlushGoesOn, FlushEnds,
       Closed, CloseDone, Resumed, Exit, Gone, own, PlacesInv
  <2>4. CASE StartProcess \/ Emit \/ Worker \/ Stop \/ UNCHANGED daemonVars
    BY <1>0, <2>0, <2>1, <2>4 DEF StartProcess, Emit, Worker, Stop, own, daemonVars
  <2>5. ASSUME NEW k \in Clients, Command(k) \/ HandlerGoesOn(k)  PROVE  UNCHANGED own
    BY <2>5 DEF Command, HandlerGoesOn
  <2>6. QED  BY <2>0, <2>1, <2>2, <2>3, <2>4, <2>5 DEF DaemonNext, own
<1>5. QED  BY <1>2, <1>3, <1>4 DEF HandoverInv

\* Events reach the store in the order of their emission, the overtaken ones aside.
LEMMA EmissionStep ==
    ASSUME DaemonInv, DaemonInv', WaitsInv, HandoverInv, EmissionInv, [DaemonNext]_daemonVars
    PROVE  EmissionInv'
<1>0. /\ TypeOK /\ TypeOK' /\ FreshnessInv /\ PlacesInv /\ QueueInv /\ DaemonTypeOK /\ [Next]_vars
      /\ session \in Seq(Events) /\ IsInjective(session) /\ NoEvent \notin Events
      /\ DOMAIN session = 1..Len(session) /\ Len(session) \in Nat
  BY StoreStep, NoEventAssumption DEF DaemonInv, InductiveInv, DaemonTypeOK, QueueInv
<1>1. /\ taken # NoEvent /\ taken \notin overtaken => Begun > 0 /\ session[Begun] = taken
      /\ \A i, j \in DOMAIN session :
             i < j /\ session[i] \notin overtaken => Pair(session[i], session[j])
  BY DEF HandoverInv, EmissionInv
<1>a. ~StartProcess => overtaken \subseteq overtaken'
  <2>1. CASE FlushOne  BY <2>1 DEF FlushOne
  <2>2. CASE ~FlushOne  BY <2>2, OvertakenStays
  <2>3. QED  BY <2>1, <2>2
<1>2. ASSUME NEW i \in DOMAIN session, NEW j \in DOMAIN session, i < j, session[i] \notin overtaken,
             NEW e \in Events, NEW f \in Events, e = session[i], f = session[j]
      PROVE  Pair(e, f)'
  <2>1. e # f  BY <1>0, <1>2 DEF IsInjective
  <2>2. InOrder(e, f) /\ RowsInOrder(e, f) /\ InsertsInOrder(e, f)
    BY <1>1, <1>2 DEF Pair
  <2>3. \A c \in Callers : AddBegin(c, e) => Fresh(f)
    BY <1>1, <1>2, NextAdded
  <2>4. InOrder(e, f)'  BY <1>0, <2>1, <2>2, <2>3, InOrderKept
  <2>5. RowsInOrder(e, f)'  BY <1>0, <2>1, <2>2, RowsKept
  <2>6. InsertsInOrder(e, f)'  BY <1>0, <2>1, <2>2, <2>3, InsertsKept
  <2>7. QED  BY <2>4, <2>5, <2>6 DEF Pair
<1>3. CASE session' = session /\ ~StartProcess
  <2> SUFFICES ASSUME NEW i \in DOMAIN session, NEW j \in DOMAIN session, i < j,
                      session[i] \notin overtaken
               PROVE  Pair(session[i], session[j])'
    BY <1>3, <1>a DEF EmissionInv
  <2>1. session[i] \in Events /\ session[j] \in Events  BY <1>0
  <2>2. PICK e \in Events, f \in Events : e = session[i] /\ f = session[j]  BY <2>1
  <2>3. Pair(e, f)'  BY <1>2, <2>2
  <2>4. e = session'[i] /\ f = session'[j]  BY <1>3, <2>2
  <2>5. QED  BY <2>3, <2>4
<1>4. CASE Emit
  <2>1. PICK x \in Events : Fresh(x) /\ session' = Append(session, x)
    BY <1>4, Emitted
  <2>2. /\ DOMAIN session' = 1..(Len(session) + 1) /\ session'[Len(session) + 1] = x
        /\ \A i \in 1..Len(session) : session'[i] = session[i]
    BY <1>0, <2>1
  <2>3. Fresh(x)'
    BY <1>4, <2>1 DEF Emit, store, vars, calls, Fresh, View
  <2>4. ASSUME NEW e  PROVE  Pair(e, x)'
    <3>1. x \notin Range(jsonl') \cup Range(View') \cup Range(committed')
      BY <2>3 DEF Fresh
    <3>2. \A d \in Callers : ev'[d] # x
      BY <2>3 DEF Fresh
    <3>3. Range(ops') \subseteq Callers  BY <1>0, RangeType DEF TypeOK
    <3>4. QED  BY <3>1, <3>2, <3>3 DEF Pair, InOrder, RowsInOrder, InsertsInOrder
  <2> SUFFICES ASSUME NEW i \in DOMAIN session', NEW j \in DOMAIN session', i < j,
                      session'[i] \notin overtaken'
               PROVE  Pair(session[i], session[j])'
    BY DEF EmissionInv
  <2>5. /\ i \in 1..Len(session) /\ session'[i] = session[i] /\ session[i] \in Events
        /\ session[i] \notin overtaken
    BY <1>0, <1>4, <2>2 DEF Emit
  <2>6. CASE j = Len(session) + 1
    BY <2>2, <2>4, <2>6
  <2>7. CASE j \in 1..Len(session)
    <3>1. session'[j] = session[j] /\ session[j] \in Events  BY <1>0, <2>2, <2>7
    <3>2. PICK e \in Events, f \in Events : e = session[i] /\ f = session[j]  BY <2>5, <3>1
    <3>3. Pair(e, f)'  BY <1>0, <1>2, <2>5, <2>7, <3>2
    <3>4. QED  BY <2>5, <3>1, <3>2, <3>3
  <2>8. j \in 1..Len(session) \/ j = Len(session) + 1  BY <1>0, <2>2
  <2>9. QED  BY <2>6, <2>7, <2>8
<1>5. CASE StartProcess
  BY <1>5 DEF StartProcess, EmissionInv
<1>6. session' = session \/ Emit \/ StartProcess
  BY QueueMoves DEF DrainTake, FlushOne, Gone
<1>7. QED  BY <1>3, <1>4, <1>5, <1>6

\* The order of emission is the order of both logs.
LEMMA EmissionOrderFollows ==
    TypeOK /\ FreshnessInv /\ DaemonTypeOK /\ HandoverInv /\ EmissionInv => EmissionOrder
<1> SUFFICES ASSUME TypeOK, FreshnessInv, DaemonTypeOK, EmissionInv,
                    NEW i \in DOMAIN session, NEW j \in DOMAIN session, i < j,
                    session[i] \notin overtaken, NEW log \in {jsonl, committed},
                    {session[i], session[j]} \subseteq Range(log)
             PROVE  Pos(log, session[i]) < Pos(log, session[j])
  BY DEF EmissionOrder, HandoverInv
<1> DEFINE e == session[i]
           f == session[j]
<1>1. e \in Range(log) /\ f \in Range(log) /\ Pair(e, f)
  BY DEF EmissionInv
<1>2. /\ jsonl \in Seq(Events) /\ committed \in Seq(Events)
      /\ IsInjective(jsonl) /\ IsInjective(committed)
  BY DEF TypeOK, FreshnessInv, RecordedOnce
<1> HIDE DEF e, f
<1>3. CASE log = jsonl
  <2>1. Precedes(jsonl, e, f)  BY <1>1, <1>3 DEF Pair, InOrder, Missed
  <2>2. QED  BY <1>1, <1>2, <1>3, <2>1, PosPrecedes DEF e, f
<1>4. CASE log = committed
  <2>1. Precedes(committed, e, f)  BY <1>1, <1>4 DEF Pair, RowsInOrder
  <2>2. QED  BY <1>1, <1>2, <1>4, <2>1, PosPrecedes DEF e, f
<1>5. QED  BY <1>3, <1>4

\* Both files list events in the order of their emission, across the hand-over from
\* the drain loop to the flush, whatever clients do to the shared connection, through
\* failed statements and crashes, but for what the flush overtakes in the hands of a
\* drain loop that a failed component left running; without one nothing is overtaken.
THEOREM EmissionOrderThm == DaemonSpec => []EmissionOrder
<1>1. DaemonInit => HandoverInv /\ EmissionInv
  BY DEF DaemonInit, Init, HandoverInv, EmissionInv
<1>2. DaemonInv /\ DaemonInv' /\ WaitsInv /\ [DaemonNext]_daemonVars /\ HandoverInv /\ EmissionInv
        => HandoverInv' /\ EmissionInv'
  BY HandoverStep, EmissionStep
<1>3. DaemonInv /\ HandoverInv /\ EmissionInv => EmissionOrder
  BY EmissionOrderFollows DEF DaemonInv, InductiveInv
<1>4. Spec => []WaitsInv  BY Waits
<1>5. DaemonSpec => []WaitsInv
  BY <1>4, StoreContractThm, PTL DEF StoreContract
<1>6. QED  BY <1>1, <1>2, <1>3, <1>5, DaemonInvariant, PTL DEF DaemonSpec

=============================================================================
