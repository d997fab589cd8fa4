------------------------------ MODULE Watcher -------------------------------
(***************************************************************************)
(* cia/watcher.py: FsWatcher primes a FileDelta with the files under its   *)
(* root, starts fswatch, and observes every path that fswatch reports.     *)
(* Other programs append to the files, rewrite, remove and create them     *)
(* between any two steps, also between the stat and the read of one        *)
(* observation.                                                            *)
(*                                                                         *)
(* A JSONL file (a log) is a generation, which a rewrite changes, and a    *)
(* length; each record is two units long, so that a write may end in the   *)
(* middle of one.  Any other file (a note) has one of a few contents.      *)
(* Ignored paths and those without a category are left out.                *)
(***************************************************************************)
EXTENDS Integers, SequencesExt

CONSTANTS Logs, Notes,
          MaxRead,    \* _MAX_READ, in units
          MaxRecords, \* _MAX_RECORDS
          MaxLen,     \* bound on the length of a log
          MaxChanges  \* bound on the changes that others make

Files == Logs \cup Notes
ASSUME FilesAssumption == Logs \cap Notes = {}
ASSUME BoundsAssumption == /\ {MaxRead, MaxRecords, MaxLen} \subseteq Nat \ {0}
                           /\ MaxChanges \in Nat

\* Two texts of one size, a longer one, a binary file as long, and a file
\* above _MAX_SNAPSHOT.
SizeOf == [one |-> 1, other |-> 1, longer |-> 2, binary |-> 2, big |-> 3]
MaxSnapshot == 2
Contents == DOMAIN SizeOf

None == -1
Idle == [act |-> "none"]

VARIABLES exists,  \* the files there are
          log,     \* generation and length of each log
          note,    \* content of each note
          changes, \* how many changes others have made
          mode,    \* where FsWatcher.start is
          toPrime, \* the files that prime has still to visit
          queue,   \* the paths that fswatch has reported and start has not read
          obs,     \* the file between its stat and its read
          sizes,   \* _sizes
          texts,   \* _texts
          out,     \* history: the changes emitted
          base,    \* history: the size at which each log was first tracked
          unseen,  \* history: files changed since their stat, which no report will follow
          rewritten \* history: the logs that did not only grow since they were tracked

disk == <<exists, log, note, changes>>
history == <<base, unseen, rewritten>>
vars == <<disk, mode, toPrime, queue, obs, sizes, texts, out, history>>

Size(f) == IF f \in Logs THEN log[f].len ELSE SizeOf[note[f]]
Readable(f) == f \in exists /\ note[f] # "binary"

Init == /\ exists \in SUBSET Files
        /\ log \in [Logs -> [gen : {0}, len : {0, 1, 2}]]
        /\ note \in [Notes -> {"one", "big"}]
        /\ changes = 0
        /\ mode = "prime" /\ toPrime = Files
        /\ queue = <<>> /\ obs = Idle
        /\ sizes = [f \in Files |-> None]
        /\ texts = [f \in Notes |-> "none"]
        /\ out = <<>>
        /\ base = [f \in Logs |-> None]
        /\ unseen = {} /\ rewritten = {}

-----------------------------------------------------------------------------
(* The other programs, and fswatch.                                        *)

\* fswatch reports a change once it watches; reports of one path may coalesce.
Notify(f) ==
    IF mode = "watch"
    THEN /\ queue' \in {Append(queue, f)} \cup {q \in {queue} : f \in Range(q)}
         /\ UNCHANGED unseen
    ELSE /\ unseen' = IF f \in toPrime THEN unseen ELSE unseen \cup {f}
         /\ UNCHANGED queue

Change(f) == /\ changes < MaxChanges
             /\ mode # "over"
             /\ changes' = changes + 1
             /\ Notify(f)
             /\ UNCHANGED <<mode, toPrime, obs, sizes, texts, out, base>>

\* Whole records or parts of them are appended.
Grow(l, n) == /\ l \in exists
              /\ log[l].len + n <= MaxLen
              /\ log' = [log EXCEPT ![l].len = @ + n]
              /\ Change(l)
              /\ UNCHANGED <<exists, note, rewritten>>

\* A log is replaced, or created, with other records.
Rewrite(l, n) == /\ exists' = exists \cup {l}
                 /\ log' = [log EXCEPT ![l] = [gen |-> @.gen + 1, len |-> n]]
                 /\ rewritten' = rewritten \cup {l}
                 /\ Change(l)
                 /\ UNCHANGED note

Write(f, c) == /\ exists' = exists \cup {f}
               /\ note' = [note EXCEPT ![f] = c]
               /\ Change(f)
               /\ UNCHANGED <<log, rewritten>>

Delete(f) == /\ f \in exists
             /\ exists' = exists \ {f}
             /\ rewritten' = IF f \in Logs THEN rewritten \cup {f} ELSE rewritten
             /\ Change(f)
             /\ UNCHANGED <<log, note>>

-----------------------------------------------------------------------------
(* FileDelta.prime.                                                        *)

Tracked(f, size) == sizes' = [sizes EXCEPT ![f] = size]

\* A file is visited: its size is taken, and its text is to be read if it is
\* small and the other files of the tree have left some of the budget.
PrimeStat(f) ==
    /\ mode = "prime" /\ obs = Idle
    /\ f \in toPrime
    /\ toPrime' = toPrime \ {f}
    /\ IF f \in exists THEN Tracked(f, Size(f)) ELSE UNCHANGED sizes
    /\ base' = IF f \in Logs \cap exists THEN [base EXCEPT ![f] = Size(f)] ELSE base
    /\ rewritten' = rewritten \ {f}
    /\ \/ obs' = Idle
       \/ /\ f \in Notes \cap exists
          /\ Size(f) <= MaxSnapshot
          /\ obs' = [act |-> "prime", file |-> f]
    /\ UNCHANGED <<disk, mode, queue, texts, out, unseen>>

PrimeRead ==
    /\ obs.act = "prime"
    /\ obs' = Idle
    /\ texts' = IF Readable(obs.file)
                THEN [texts EXCEPT ![obs.file] = note[obs.file]] ELSE texts
    /\ UNCHANGED <<disk, mode, toPrime, queue, sizes, out, history>>

PrimeEnds ==
    /\ mode = "prime" /\ obs = Idle /\ toPrime = {}
    /\ mode' = "spawn"
    /\ UNCHANGED <<disk, toPrime, queue, obs, sizes, texts, out, history>>

-----------------------------------------------------------------------------
(* FileDelta.observe.                                                      *)

\* How many records begin up to this place in a log, ...
Begun(at) == (at + 1) \div 2

\* ... how many lie wholly in its range ]from, to], as it is now, ...
Whole(l, from, to) ==
    IF l \in exists THEN Max({0, Min({to, log[l].len}) \div 2 - Begun(from)}) ELSE 0

\* ... and how many lines that range has: if it starts in the middle of a record,
\* its first line is dropped; a last line that is cut is one, but does not parse.
Lines(l, from, to) ==
    LET end == Min({to, log[l].len})
    IN Whole(l, from, to) + (IF l \in exists /\ end > from /\ end % 2 = 1 THEN 1 ELSE 0)

\* _preview_records: the first records, and how many more lines there are.
Records(l, from, to) ==
    [k \in 1..Min({Whole(l, from, to), MaxRecords}) |-> <<log[l].gen, Begun(from) + k>>]

More(l, from, to) == Max({0, Lines(l, from, to) - MaxRecords})

\* Mutant: what is read goes to the end of the file.
ReadTo_Eof(o) == log[o.file].len

\* The end of the range that is read: the size that stat gave.
ReadTo(o) == o.size

\* Mutant: the difference is to the size at the time of the read.
Delta_AtRead(o) == Size(o.file) - o.prev

\* bytes_delta; a file seen for the first time has none.
Delta(o) == IF o.prev = None THEN 0 ELSE o.size - o.prev

\* The change of a log, by its size now and when it was last observed.
LogChange(o) ==
    LET l     == o.file
        start == IF o.prev # None THEN o.prev ELSE Max({0, o.size - MaxRead})
        clip  == o.size - start > MaxRead
        kind  == IF o.prev = None THEN "created" ELSE IF o.size < o.prev THEN "rewrite" ELSE "append"
        from  == IF kind = "rewrite" \/ clip THEN Max({0, o.size - MaxRead}) ELSE start
    IN IF o.size = o.prev THEN <<>>
       ELSE <<[file |-> l, kind |-> kind, delta |-> Delta(o), clipped |-> clip, from |-> from, to |-> o.size,
               records |-> Records(l, from, ReadTo(o)), more |-> More(l, from, ReadTo(o))]>>

\* The change of a note whose text can be read: against the last text read, or
\* by its size if that was never read.
NoteChange(o) ==
    LET prev == texts[o.file]
        Is(kind) == <<[file |-> o.file, kind |-> kind, delta |-> Delta(o)]>>
    IN IF prev # "none" THEN (IF prev = note[o.file] THEN <<>> ELSE Is("diff"))
       ELSE IF o.prev = None THEN Is("created")
       ELSE IF o.size = o.prev THEN <<>> ELSE Is("modified")

\* Mutant: the text of a removed file is kept.
Forget_KeepsText(f) == texts

Forget(f) == IF f \in Notes THEN [texts EXCEPT ![f] = "none"] ELSE texts

\* A reported file is gone: it is forgotten.
ObserveGone ==
    /\ mode = "watch" /\ obs = Idle
    /\ queue # <<>> /\ Head(queue) \notin exists
    /\ queue' = Tail(queue)
    /\ LET f == Head(queue)
       IN /\ out' = IF sizes[f] = None THEN out ELSE Append(out, [file |-> f, kind |-> "removed"])
          /\ Tracked(f, None)
          /\ texts' = Forget(f)
          /\ base' = IF f \in Logs THEN [base EXCEPT ![f] = None] ELSE base
          /\ unseen' = unseen \ {f}
          /\ rewritten' = rewritten \ {f}
    /\ UNCHANGED <<disk, mode, toPrime, obs>>

\* A reported file is there: its size is taken and kept.
ObserveStat ==
    /\ mode = "watch" /\ obs = Idle
    /\ queue # <<>> /\ Head(queue) \in exists
    /\ queue' = Tail(queue)
    /\ LET f == Head(queue)
       IN /\ obs' = [act |-> "observe", file |-> f, size |-> Size(f), prev |-> sizes[f]]
          /\ Tracked(f, Size(f))
          /\ base' = IF f \in Logs /\ sizes[f] = None THEN [base EXCEPT ![f] = Size(f)] ELSE base
          /\ rewritten' = IF sizes[f] = None THEN rewritten \ {f} ELSE rewritten
          /\ unseen' = unseen \ {f}
    /\ UNCHANGED <<disk, mode, toPrime, texts, out>>

ReadLog ==
    /\ obs.act = "observe" /\ obs.file \in Logs
    /\ obs' = Idle
    /\ out' = out \o LogChange(obs)
    /\ UNCHANGED <<disk, mode, toPrime, queue, sizes, texts, history>>

\* A big file loses its text; one that cannot be read gives no change.
ReadNote ==
    /\ obs.act = "observe" /\ obs.file \in Notes
    /\ obs' = Idle
    /\ LET f == obs.file
       IN IF obs.size > MaxSnapshot
          THEN /\ texts' = [texts EXCEPT ![f] = "none"]
               /\ out' = IF obs.prev \in {None, obs.size} THEN out
                         ELSE Append(out, [file |-> f, kind |-> "modified", delta |-> Delta(obs)])
          ELSE /\ texts' = IF Readable(f) THEN [texts EXCEPT ![f] = note[f]] ELSE texts
               /\ out' = IF Readable(f) THEN out \o NoteChange(obs) ELSE out
    /\ UNCHANGED <<disk, mode, toPrime, queue, sizes, history>>

-----------------------------------------------------------------------------
(* FsWatcher.start.                                                        *)

\* fswatch runs, and watches from now on.
Watch == /\ mode = "spawn"
         /\ mode' = "watch"
         /\ UNCHANGED <<disk, toPrime, queue, obs, sizes, texts, out, history>>

\* fswatch is not installed, or ends, or the task is cancelled: nothing is
\* observed any more.
End == /\ mode \in {"spawn", "watch"} /\ obs = Idle
       /\ mode' = "over"
       /\ UNCHANGED <<disk, toPrime, queue, obs, sizes, texts, out, history>>

Next == \/ \E l \in Logs : \/ \E n \in 1..3 : Grow(l, n)
                           \/ \E n \in 0..MaxLen : Rewrite(l, n)
        \/ \E f \in Notes, c \in Contents : Write(f, c)
        \/ \E f \in Files : Delete(f) \/ PrimeStat(f)
        \/ PrimeRead \/ PrimeEnds \/ Watch \/ End
        \/ ObserveGone \/ ObserveStat \/ ReadLog \/ ReadNote

Spec == Init /\ [][Next]_vars

-----------------------------------------------------------------------------
(* Properties.                                                             *)

\* When everything that fswatch has reported is observed, the tracker agrees with
\* the disk: its sizes are those of the files, and the texts it diffs against are
\* their texts.  Only files that changed after prime had visited them and before
\* fswatch watched are out of date, and a text that has become binary.
AgreesWhenIdle ==
    mode = "watch" /\ queue = <<>> /\ obs = Idle =>
        \A f \in Files \ unseen :
            /\ sizes[f] = IF f \in exists THEN Size(f) ELSE None
            /\ f \in Notes /\ texts[f] # "none" =>
                   f \in exists /\ note[f] \in {texts[f], "binary"}

\* The changes of a log since it was last removed: where they are in the list.
Since(l) == {k \in DOMAIN out : /\ out[k].file = l
                                /\ \A m \in k..Len(out) : out[m].file = l => out[m].kind # "removed"}

\* The byte counts of a log's changes add up to its growth since it was first
\* tracked, whatever was written between a stat and the read that follows it.
DeltasAddUp ==
    \A l \in Logs :
        sizes[l] # None /\ (obs = Idle \/ obs.file # l) =>
            base[l] + SumFunction([k \in Since(l) |-> out[k].delta]) = sizes[l]

\* As long as a log only grows, no record is previewed twice, and each record
\* that was appended and observed belongs to one change, which previews it
\* unless the change before ended in the middle of it, or its range was clipped,
\* or had more than _MAX_RECORDS lines.
RecordsOnce ==
    \A l \in Logs \ rewritten :
        sizes[l] # None /\ (obs = Idle \/ obs.file # l) =>
            /\ \A j, k \in Since(l) : \A a \in DOMAIN out[j].records, b \in DOMAIN out[k].records :
                   out[j].records[a] = out[k].records[b] => j = k /\ a = b
            /\ \A r \in 1..MaxLen :
                   base[l] < 2 * r - 1 /\ 2 * r <= sizes[l] =>
                       \E k \in Since(l) :
                           /\ out[k].to - out[k].delta < 2 * r /\ 2 * r <= out[k].to
                           /\ \/ <<log[l].gen, r>> \in Range(out[k].records)
                              \/ 2 * r - 1 = out[k].to - out[k].delta
                              \/ out[k].clipped /\ 2 * r - 1 <= out[k].from
                              \/ out[k].more > 0
=============================================================================
