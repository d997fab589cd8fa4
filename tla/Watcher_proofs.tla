--------------------------- MODULE Watcher_proofs ---------------------------
(***************************************************************************)
(* For every set of files, every number of changes and all bounds: the     *)
(* tracker agrees with the disk when nothing is pending, the byte counts   *)
(* of a log's changes add up to its growth, and each record is told of     *)
(* once.                                                                   *)
(***************************************************************************)
EXTENDS Watcher, Sums, SequenceTheorems, TLAPS

Observing == [act : {"observe"}, file : Files, size : Nat, prev : Nat \cup {None}]

TypeOK ==
    /\ exists \subseteq Files
    /\ log \in [Logs -> [gen : Nat, len : Nat]]
    /\ note \in [Notes -> Contents]
    /\ changes \in Nat
    /\ mode \in {"prime", "spawn", "watch", "over"}
    /\ toPrime \subseteq Files
    /\ queue \in Seq(Files)
    /\ obs \in {Idle} \cup [act : {"prime"}, file : Notes] \cup Observing
    /\ sizes \in [Files -> Nat \cup {None}]
    /\ texts \in [Notes -> Contents \cup {"none"}]
    /\ unseen \subseteq Files

\* Nothing has happened to a file that is still to be told of, or that no one will tell.
Settled(f) == f \notin unseen \cup toPrime \cup Range(queue)

SizeAgrees(f) == sizes[f] = IF f \in exists THEN Size(f) ELSE None

TextAgrees(f) ==
    f \in Notes /\ texts[f] # "none" => f \in exists /\ note[f] \in {texts[f], "binary"}

\* The size agrees from the stat on, the text from the read on.
SettledAgree ==
    \A f \in Files : Settled(f) =>
        /\ SizeAgrees(f)
        /\ obs.act = "observe" => (obs.file # f => TextAgrees(f))
        /\ obs.act # "observe" => TextAgrees(f)

\* What prime has not visited is not tracked, and before it has visited all of it
\* nothing is observed.
NotTracked ==
    /\ mode # "prime" => toPrime = {}
    /\ \A f \in toPrime : sizes[f] = None /\ (f \in Notes => texts[f] = "none")

\* A file between its stat and its read has been visited, and its size is kept.
StatKept ==
    /\ obs.act = "prime" => obs.file \notin toPrime
    /\ obs.act = "observe" => sizes[obs.file] = obs.size

WatcherInv == TypeOK /\ SettledAgree /\ NotTracked /\ StatKept

-----------------------------------------------------------------------------
(* The parts of the model.                                                 *)

\* The size of a file is a number.
LEMMA SizeType ==
    ASSUME TypeOK, NEW f \in Files
    PROVE  Size(f) \in Nat
  <1>1. CASE f \in Logs
    BY <1>1 DEF Size, TypeOK
  <1>2. CASE f \notin Logs
    <2>1. note[f] \in Contents
      BY <1>2 DEF Files, TypeOK
    <2> QED
      BY <1>2, <2>1 DEF Size, Contents, SizeOf
  <1> QED
    BY <1>1, <1>2

\* The last element of a sequence adds itself to its range.
LEMMA RangeAppend ==
    ASSUME NEW S, NEW s \in Seq(S), NEW x \in S
    PROVE  Range(Append(s, x)) = Range(s) \cup {x}
  <1>1. \A i \in 1..Len(s) + 1 : Append(s, x)[i] = IF i <= Len(s) THEN s[i] ELSE x
    OBVIOUS
  <1>2. /\ DOMAIN s = 1..Len(s) /\ DOMAIN Append(s, x) = 1..Len(s) + 1
        /\ Len(s) \in Nat
    OBVIOUS
  <1>3. Range(s) \cup {x} \subseteq Range(Append(s, x))
    <2>1. \A i \in DOMAIN s : i \in DOMAIN Append(s, x) /\ Append(s, x)[i] = s[i]
      BY <1>1, <1>2
    <2>2. Len(s) + 1 \in DOMAIN Append(s, x) /\ Append(s, x)[Len(s) + 1] = x
      BY <1>1, <1>2
    <2> QED
      BY <2>1, <2>2 DEF Range
  <1>4. Range(Append(s, x)) \subseteq Range(s) \cup {x}
    BY <1>1, <1>2 DEF Range
  <1> QED
    BY <1>3, <1>4

\* The head of a queue is all that its tail lacks.
LEMMA RangeTail ==
    ASSUME NEW S, NEW s \in Seq(S), s # <<>>
    PROVE  /\ Range(s) = Range(Tail(s)) \cup {Head(s)}
           /\ Head(s) \in S
           /\ Tail(s) \in Seq(S)
  <1>1. /\ Len(s) \in Nat /\ Len(s) > 0 /\ DOMAIN s = 1..Len(s)
        /\ Tail(s) \in Seq(S) /\ DOMAIN Tail(s) = 1..Len(s) - 1
        /\ \A i \in 1..Len(s) - 1 : Tail(s)[i] = s[i + 1]
        /\ Head(s) = s[1]
    OBVIOUS
  <1>2. Range(Tail(s)) \cup {Head(s)} \subseteq Range(s)
    BY <1>1 DEF Range
  <1>3. ASSUME NEW i \in DOMAIN s, i # 1
        PROVE  s[i] \in Range(Tail(s))
    <2>1. i - 1 \in DOMAIN Tail(s) /\ Tail(s)[i - 1] = s[i]
      BY <1>1, <1>3
    <2> QED
      BY <2>1 DEF Range
  <1>4. Range(s) \subseteq Range(Tail(s)) \cup {Head(s)}
    BY <1>1, <1>3 DEF Range
  <1> QED
    BY <1>1, <1>2, <1>4

\* Nothing is observed between two observations.
LEMMA IdleAct == Idle.act = "none" /\ Idle \in {Idle}
  BY DEF Idle

-----------------------------------------------------------------------------
(* The steps.                                                              *)

\* No file is tracked at the start, ...
LEMMA WatcherInit == Init => WatcherInv
  <1> SUFFICES ASSUME Init
               PROVE  WatcherInv
    OBVIOUS
  <1> USE DEF Init
  <1>1. TypeOK
    <2>1. log \in [Logs -> [gen : Nat, len : Nat]]
      OBVIOUS
    <2>2. note \in [Notes -> Contents]
      BY DEF Contents, SizeOf
    <2> QED
      BY <2>1, <2>2 DEF TypeOK, Files, None
  <1>2. SettledAgree
    BY DEF SettledAgree, Settled, Files
  <1>3. NotTracked
    BY DEF NotTracked, Files
  <1>4. StatKept
    BY IdleAct DEF StatKept
  <1> QED
    BY <1>1, <1>2, <1>3, <1>4 DEF WatcherInv

\* Whatever others do to the files, the file concerned is no longer settled:
\* fswatch will report it, prime will still visit it, or nobody sees the change.
LEMMA ChangeStep ==
    ASSUME WatcherInv, NEW f \in Files, Change(f),
           exists' \subseteq Files,
           log' \in [Logs -> [gen : Nat, len : Nat]],
           note' \in [Notes -> Contents],
           \A g \in Files \ {f} : g \in exists' <=> g \in exists,
           \A g \in Logs \ {f} : log'[g] = log[g],
           \A g \in Notes \ {f} : note'[g] = note[g]
    PROVE  WatcherInv'
  <1> USE DEF WatcherInv, Change
  <1>1. /\ queue' \in Seq(Files) /\ unseen' \subseteq Files
        /\ Range(queue) \subseteq Range(queue')
        /\ unseen \subseteq unseen'
        /\ f \in unseen' \cup toPrime' \cup Range(queue')
    <2>1. CASE mode = "watch"
      <3>1. queue \in Seq(Files)
        BY DEF TypeOK
      <3>2. \/ queue' = Append(queue, f)
            \/ queue' = queue /\ f \in Range(queue)
        BY <2>1 DEF Notify
      <3>3. Range(Append(queue, f)) = Range(queue) \cup {f}
        BY <3>1, RangeAppend
      <3>4. Append(queue, f) \in Seq(Files)
        BY <3>1
      <3>5. unseen' = unseen
        BY <2>1 DEF Notify
      <3> QED
        BY <3>1, <3>2, <3>3, <3>4, <3>5 DEF TypeOK
    <2>2. CASE mode # "watch"
      <3>1. /\ queue' = queue /\ toPrime' = toPrime
            /\ unseen' = IF f \in toPrime THEN unseen ELSE unseen \cup {f}
        BY <2>2 DEF Notify
      <3> QED
        BY <3>1 DEF TypeOK
    <2> QED
      BY <2>1, <2>2
  <1>2. TypeOK'
    BY <1>1 DEF TypeOK
  <1>3. SettledAgree'
    <2> SUFFICES ASSUME NEW g \in Files, Settled(g)'
                 PROVE  /\ SizeAgrees(g)'
                        /\ obs.act = "observe" => (obs.file # g => TextAgrees(g)')
                        /\ obs.act # "observe" => TextAgrees(g)'
      BY DEF SettledAgree
    <2>1. g # f /\ Settled(g)
      BY <1>1 DEF Settled
    <2>2. (g \in exists' <=> g \in exists) /\ Size(g)' = Size(g)
      BY <2>1 DEF Size, Files
    <2>3. g \in Notes => note'[g] = note[g]
      BY <2>1
    <2> QED
      BY <2>1, <2>2, <2>3 DEF SettledAgree, SizeAgrees, TextAgrees
  <1>4. NotTracked'
    BY DEF NotTracked
  <1>5. StatKept'
    BY DEF StatKept
  <1> QED
    BY <1>2, <1>3, <1>4, <1>5

\* The other programs: each change is of one file.
LEMMA OthersStep ==
    ASSUME WatcherInv, NEW f \in Files,
           \/ \E n \in 1..3 : f \in Logs /\ Grow(f, n)
           \/ \E n \in 0..MaxLen : f \in Logs /\ Rewrite(f, n)
           \/ \E c \in Contents : f \in Notes /\ Write(f, c)
           \/ Delete(f)
    PROVE  WatcherInv'
  <1>1. /\ exists \subseteq Files
        /\ log \in [Logs -> [gen : Nat, len : Nat]]
        /\ note \in [Notes -> Contents]
    BY DEF WatcherInv, TypeOK
  <1>2. ASSUME NEW n \in 1..3, f \in Logs, Grow(f, n)
        PROVE  WatcherInv'
    <2>1. /\ log' \in [Logs -> [gen : Nat, len : Nat]]
          /\ \A g \in Logs \ {f} : log'[g] = log[g]
      BY <1>1, <1>2 DEF Grow
    <2> QED
      BY <1>1, <1>2, <2>1, ChangeStep DEF Grow
  <1>3. ASSUME NEW n \in 0..MaxLen, f \in Logs, Rewrite(f, n)
        PROVE  WatcherInv'
    <2>1. n \in Nat
      BY BoundsAssumption
    <2>2. /\ log' \in [Logs -> [gen : Nat, len : Nat]]
          /\ \A g \in Logs \ {f} : log'[g] = log[g]
      BY <1>1, <1>3, <2>1 DEF Rewrite
    <2> QED
      BY <1>1, <1>3, <2>2, ChangeStep DEF Rewrite
  <1>4. ASSUME NEW c \in Contents, f \in Notes, Write(f, c)
        PROVE  WatcherInv'
    <2>1. /\ note' \in [Notes -> Contents]
          /\ \A g \in Notes \ {f} : note'[g] = note[g]
      BY <1>1, <1>4 DEF Write
    <2> QED
      BY <1>1, <1>4, <2>1, ChangeStep DEF Write
  <1>5. ASSUME Delete(f)
        PROVE  WatcherInv'
    BY <1>1, <1>5, ChangeStep DEF Delete
  <1> QED
    BY <1>2, <1>3, <1>4, <1>5

\* A step of prime or of an observation changes what is tracked of one file, and
\* keeps the invariant if that file agrees with the disk after it.
LEMMA TrackStep ==
    ASSUME WatcherInv, NEW f \in Files, TypeOK', NotTracked', StatKept',
           UNCHANGED <<exists, log, note>>,
           \A g \in Files \ {f} : Settled(g)' => Settled(g),
           \A g \in Files \ {f} : sizes'[g] = sizes[g],
           \A g \in Notes \ {f} : texts'[g] = texts[g],
           obs.act = "observe" => obs.file = f,
           Settled(f)' => SizeAgrees(f)',
           Settled(f)' => TextAgrees(f)' \/ (obs'.act = "observe" /\ obs'.file = f)
    PROVE  WatcherInv'
  <1>1. ASSUME NEW g \in Files, Settled(g)'
        PROVE  /\ SizeAgrees(g)'
               /\ TextAgrees(g)' \/ (obs'.act = "observe" /\ obs'.file = g)
    <2>1. CASE g = f
      BY <1>1, <2>1
    <2>2. CASE g # f
      <3>1. SizeAgrees(g) /\ TextAgrees(g)
        BY <1>1, <2>2 DEF WatcherInv, SettledAgree
      <3>2. Size(g)' = Size(g)
        BY DEF Size
      <3> QED
        BY <2>2, <3>1, <3>2 DEF SizeAgrees, TextAgrees
    <2> QED
      BY <2>1, <2>2
  <1>2. SettledAgree'
    BY <1>1 DEF SettledAgree
  <1> QED
    BY <1>2 DEF WatcherInv

\* The visit of a file takes its size, which from now on is the file's as long as
\* nobody changes it.
LEMMA PrimeStatStep ==
    ASSUME WatcherInv, NEW f \in Files, PrimeStat(f)
    PROVE  WatcherInv'
  <1> USE DEF WatcherInv
  <1>1. /\ f \in toPrime /\ toPrime' = toPrime \ {f} /\ mode = "prime" /\ mode' = mode
        /\ UNCHANGED <<exists, log, note, changes, queue, texts, unseen>>
        /\ obs.act = "none"
        /\ sizes' = IF f \in exists THEN [sizes EXCEPT ![f] = Size(f)] ELSE sizes
        /\ sizes[f] = None /\ (f \in Notes => texts[f] = "none")
    BY IdleAct DEF PrimeStat, disk, Tracked, NotTracked
  <1>2. \/ obs' = Idle
        \/ f \in Notes /\ obs' = [act |-> "prime", file |-> f]
    BY DEF PrimeStat
  <1>3. obs'.act # "observe" /\ (obs'.act = "prime" => obs'.file = f)
    BY <1>2, IdleAct
  <1>4. TypeOK'
    <2>1. obs' \in {Idle} \cup [act : {"prime"}, file : Notes]
      BY <1>2
    <2>2. sizes' \in [Files -> Nat \cup {None}]
      BY <1>1, SizeType DEF TypeOK
    <2> QED
      BY <1>1, <2>1, <2>2 DEF TypeOK
  <1>5. sizes'[f] = IF f \in exists THEN Size(f) ELSE None
    BY <1>1 DEF TypeOK
  <1>6. \A g \in Files \ {f} : sizes'[g] = sizes[g]
    BY <1>1 DEF TypeOK
  <1>7. NotTracked' /\ StatKept'
    BY <1>1, <1>3, <1>6 DEF NotTracked, StatKept, TypeOK
  <1>8. SizeAgrees(f)' /\ TextAgrees(f)'
    BY <1>1, <1>5 DEF SizeAgrees, TextAgrees, Size
  <1>9. \A g \in Files \ {f} : Settled(g)' => Settled(g)
    BY <1>1 DEF Settled
  <1> QED
    BY <1>1, <1>4, <1>6, <1>7, <1>8, <1>9, TrackStep

\* What prime reads of a small file is its text of that moment.
LEMMA PrimeReadStep ==
    ASSUME WatcherInv, PrimeRead
    PROVE  WatcherInv'
  <1> USE DEF WatcherInv
  <1>0. PICK f \in Files : f = obs.file /\ f \in Notes
    BY IdleAct DEF PrimeRead, TypeOK, Observing, Files
  <1>1. /\ obs.act = "prime" /\ obs'.act = "none" /\ obs' = Idle
        /\ texts' = IF f \in exists /\ note[f] # "binary"
                    THEN [texts EXCEPT ![f] = note[f]] ELSE texts
        /\ UNCHANGED <<exists, log, note, changes, mode, toPrime, queue, sizes, unseen>>
    BY <1>0, IdleAct DEF PrimeRead, Readable, disk, history
  <1>3. note[f] \in Contents /\ texts \in [Notes -> Contents \cup {"none"}]
    BY <1>0 DEF TypeOK
  <1>4. TypeOK'
    <2>1. texts' \in [Notes -> Contents \cup {"none"}]
      BY <1>1, <1>3
    <2> QED
      BY <1>1, <2>1 DEF TypeOK
  <1>5. \A g \in Notes \ {f} : texts'[g] = texts[g]
    BY <1>1, <1>3
  <1>6. StatKept'
    BY <1>1 DEF StatKept
  <1>7. NotTracked'
    <2>1. f \notin toPrime
      BY <1>0, <1>1 DEF StatKept
    <2>2. ASSUME NEW g \in toPrime'
          PROVE  sizes'[g] = None /\ (g \in Notes => texts'[g] = "none")
      <3>1. g \in toPrime /\ g # f
        BY <1>1, <2>1, <2>2
      <3> QED
        BY <1>1, <1>5, <3>1 DEF NotTracked
    <2> QED
      BY <1>1, <2>2 DEF NotTracked
  <1>8. Settled(f)' => SizeAgrees(f)' /\ TextAgrees(f)'
    <2> SUFFICES ASSUME Settled(f)'
                 PROVE  SizeAgrees(f)' /\ TextAgrees(f)'
      OBVIOUS
    <2>1. SizeAgrees(f) /\ TextAgrees(f)
      BY <1>1, <1>0 DEF Settled, SettledAgree
    <2>2. texts'[f] = texts[f] \/ (f \in exists /\ texts'[f] = note[f])
      BY <1>1, <1>0, <1>3
    <2> QED
      BY <1>1, <2>1, <2>2 DEF SizeAgrees, TextAgrees, Size
  <1>9. \A g \in Files : Settled(g)' => Settled(g)
    BY <1>1 DEF Settled
  <1> QED
    BY <1>1, <1>0, <1>4, <1>5, <1>6, <1>7, <1>8, <1>9, TrackStep

\* A reported file that is gone is forgotten altogether.
LEMMA ObserveGoneStep ==
    ASSUME WatcherInv, ObserveGone
    PROVE  WatcherInv'
  <1> USE DEF WatcherInv
  <1>0. PICK f \in Files : f = Head(queue)
    BY RangeTail DEF ObserveGone, TypeOK
  <1>1. /\ mode = "watch" /\ obs.act = "none" /\ queue # <<>> /\ f \notin exists
        /\ queue' = Tail(queue)
        /\ sizes' = [sizes EXCEPT ![f] = None]
        /\ texts' = IF f \in Notes THEN [texts EXCEPT ![f] = "none"] ELSE texts
        /\ unseen' = unseen \ {f}
        /\ UNCHANGED <<exists, log, note, changes, mode, toPrime, obs>>
    BY <1>0, IdleAct DEF ObserveGone, Tracked, Forget, disk
  <1>2. queue' \in Seq(Files) /\ Range(queue) = Range(queue') \cup {f}
    BY <1>0, <1>1, RangeTail DEF TypeOK
  <1>3. TypeOK'
    <2>1. sizes' \in [Files -> Nat \cup {None}] /\ texts' \in [Notes -> Contents \cup {"none"}]
      BY <1>1 DEF TypeOK
    <2> QED
      BY <1>1, <1>2, <2>1 DEF TypeOK
  <1>4. /\ sizes'[f] = None /\ (f \in Notes => texts'[f] = "none")
        /\ \A g \in Files \ {f} : sizes'[g] = sizes[g]
        /\ \A g \in Notes \ {f} : texts'[g] = texts[g]
    BY <1>1, <1>2 DEF TypeOK
  <1>5. NotTracked' /\ StatKept'
    BY <1>1 DEF NotTracked, StatKept
  <1>6. SizeAgrees(f)' /\ TextAgrees(f)'
    BY <1>1, <1>4 DEF SizeAgrees, TextAgrees
  <1>7. \A g \in Files \ {f} : Settled(g)' => Settled(g)
    BY <1>1, <1>2 DEF Settled
  <1> QED
    BY <1>1, <1>2, <1>3, <1>4, <1>5, <1>6, <1>7, TrackStep

\* A reported file that is there has its size taken; its text is still to be read.
LEMMA ObserveStatStep ==
    ASSUME WatcherInv, ObserveStat
    PROVE  WatcherInv'
  <1> USE DEF WatcherInv
  <1>0. PICK f \in Files : f = Head(queue)
    BY RangeTail DEF ObserveStat, TypeOK
  <1>1. /\ mode = "watch" /\ obs.act = "none" /\ queue # <<>> /\ f \in exists
        /\ queue' = Tail(queue)
        /\ obs' = [act |-> "observe", file |-> f, size |-> Size(f), prev |-> sizes[f]]
        /\ sizes' = [sizes EXCEPT ![f] = Size(f)]
        /\ unseen' = unseen \ {f}
        /\ UNCHANGED <<exists, log, note, changes, mode, toPrime, texts>>
    BY <1>0, IdleAct DEF ObserveStat, Tracked, disk
  <1>2. queue' \in Seq(Files) /\ Range(queue) = Range(queue') \cup {f}
    BY <1>0, <1>1, RangeTail DEF TypeOK
  <1>3. Size(f) \in Nat /\ sizes[f] \in Nat \cup {None}
    BY <1>2, SizeType DEF TypeOK
  <1>4. TypeOK'
    <2>1. sizes' \in [Files -> Nat \cup {None}]
      BY <1>1, <1>3 DEF TypeOK
    <2>2. obs' \in Observing
      BY <1>1, <1>2, <1>3 DEF Observing
    <2> QED
      BY <1>1, <1>2, <2>1, <2>2 DEF TypeOK
  <1>5. /\ sizes'[f] = Size(f)
        /\ \A g \in Files \ {f} : sizes'[g] = sizes[g]
    BY <1>1, <1>2 DEF TypeOK
  <1>6. NotTracked' /\ StatKept'
    BY <1>1, <1>5 DEF NotTracked, StatKept
  <1>7. SizeAgrees(f)'
    BY <1>1, <1>5 DEF SizeAgrees, Size
  <1>8. \A g \in Files \ {f} : Settled(g)' => Settled(g)
    BY <1>1, <1>2 DEF Settled
  <1> QED
    BY <1>1, <1>2, <1>4, <1>5, <1>6, <1>7, <1>8, TrackStep

\* A log has no text; its size was taken by the stat.
LEMMA ReadLogStep ==
    ASSUME WatcherInv, ReadLog
    PROVE  WatcherInv'
  <1> USE DEF WatcherInv
  <1>0. PICK f \in Files : f = obs.file
    BY DEF ReadLog, Files
  <1>1. /\ obs.act = "observe" /\ f \in Logs /\ obs' = Idle /\ obs'.act = "none"
        /\ UNCHANGED <<exists, log, note, changes, mode, toPrime, queue, sizes, texts, unseen>>
    BY <1>0, IdleAct DEF ReadLog, disk, history
  <1>2. f \notin Notes
    BY <1>1, FilesAssumption DEF Files
  <1>3. TypeOK' /\ NotTracked' /\ StatKept'
    BY <1>1 DEF TypeOK, NotTracked, StatKept
  <1>4. Settled(f)' => SizeAgrees(f)'
    BY <1>1, <1>2 DEF Settled, SettledAgree, SizeAgrees, Size
  <1>5. TextAgrees(f)'
    BY <1>1, <1>2 DEF TextAgrees
  <1>6. \A g \in Files : Settled(g)' => Settled(g)
    BY <1>1 DEF Settled
  <1> QED
    BY <1>0, <1>1, <1>2, <1>3, <1>4, <1>5, <1>6, TrackStep

\* A note is read, or is too big to be; either way its text is that of the file, if
\* nobody has changed it since the stat.
LEMMA ReadNoteStep ==
    ASSUME WatcherInv, ReadNote
    PROVE  WatcherInv'
  <1> USE DEF WatcherInv
  <1>0. PICK f \in Files : f = obs.file /\ f \in Notes
    BY DEF ReadNote, Files
  <1>1. /\ obs.act = "observe" /\ obs' = Idle /\ obs'.act = "none"
        /\ texts' = IF obs.size > MaxSnapshot THEN [texts EXCEPT ![f] = "none"]
                    ELSE IF f \in exists /\ note[f] # "binary"
                         THEN [texts EXCEPT ![f] = note[f]] ELSE texts
        /\ UNCHANGED <<exists, log, note, changes, mode, toPrime, queue, sizes, unseen>>
    BY <1>0, IdleAct DEF ReadNote, Readable, disk, history
  <1>2. note[f] \in Contents /\ texts \in [Notes -> Contents \cup {"none"}]
        /\ obs.size \in Nat
    BY <1>0, <1>1, IdleAct DEF TypeOK, Observing
  <1>3. TypeOK'
    <2>1. texts' \in [Notes -> Contents \cup {"none"}]
      BY <1>1, <1>2
    <2> QED
      BY <1>1, <2>1 DEF TypeOK
  <1>4. \A g \in Notes \ {f} : texts'[g] = texts[g]
    BY <1>1, <1>2
  <1>5. StatKept'
    BY <1>1 DEF StatKept
  <1>6. NotTracked'
    <2>1. sizes[f] # None
      BY <1>0, <1>1, <1>2 DEF StatKept, None
    <2> QED
      BY <1>1, <1>4, <2>1 DEF NotTracked
  <1>7. Settled(f)' => SizeAgrees(f)' /\ TextAgrees(f)'
    <2> SUFFICES ASSUME Settled(f)'
                 PROVE  SizeAgrees(f)' /\ TextAgrees(f)'
      OBVIOUS
    <2>1. SizeAgrees(f) /\ sizes[f] = obs.size
      BY <1>0, <1>1 DEF Settled, SettledAgree, StatKept
    <2>2. f \in exists
      BY <1>2, <2>1 DEF SizeAgrees, None
    <2>3. \/ texts'[f] = "none"
          \/ texts'[f] = note[f]
          \/ note[f] = "binary"
      BY <1>0, <1>1, <1>2, <2>2
    <2> QED
      BY <1>1, <2>1, <2>2, <2>3 DEF SizeAgrees, TextAgrees, Size
  <1>8. \A g \in Files : Settled(g)' => Settled(g)
    BY <1>1 DEF Settled
  <1> QED
    BY <1>0, <1>1, <1>3, <1>4, <1>5, <1>6, <1>7, <1>8, TrackStep

\* Where start is says only that prime is over when something is observed.
LEMMA ModeStep ==
    ASSUME WatcherInv, PrimeEnds \/ Watch \/ End
    PROVE  WatcherInv'
  <1> USE DEF WatcherInv
  <1>1. /\ mode' \in {"spawn", "watch", "over"} /\ toPrime = {}
        /\ UNCHANGED <<exists, log, note, changes, toPrime, queue, obs, sizes, texts, unseen>>
    BY DEF PrimeEnds, Watch, End, NotTracked, disk, history
  <1>2. TypeOK' /\ NotTracked' /\ StatKept'
    BY <1>1 DEF TypeOK, NotTracked, StatKept
  <1>3. SettledAgree'
    BY <1>1 DEF SettledAgree, Settled, SizeAgrees, TextAgrees, Size
  <1> QED
    BY <1>2, <1>3

-----------------------------------------------------------------------------
(* The theorems.                                                           *)

\* ... and every step keeps what is settled in line with the files.
LEMMA WatcherStep == WatcherInv /\ [Next]_vars => WatcherInv'
  <1> SUFFICES ASSUME WatcherInv, [Next]_vars
               PROVE  WatcherInv'
    OBVIOUS
  <1>1. ASSUME NEW l \in Logs,
               \/ \E n \in 1..3 : Grow(l, n)
               \/ \E n \in 0..MaxLen : Rewrite(l, n)
        PROVE  WatcherInv'
    BY <1>1, OthersStep DEF Files
  <1>2. ASSUME NEW f \in Notes, NEW c \in Contents, Write(f, c)
        PROVE  WatcherInv'
    BY <1>2, OthersStep DEF Files
  <1>3. ASSUME NEW f \in Files, Delete(f)
        PROVE  WatcherInv'
    BY <1>3, OthersStep
  <1>4. ASSUME NEW f \in Files, PrimeStat(f)
        PROVE  WatcherInv'
    BY <1>4, PrimeStatStep
  <1>5. CASE PrimeRead
    BY <1>5, PrimeReadStep
  <1>6. CASE PrimeEnds \/ Watch \/ End
    BY <1>6, ModeStep
  <1>7. CASE ObserveGone
    BY <1>7, ObserveGoneStep
  <1>8. CASE ObserveStat
    BY <1>8, ObserveStatStep
  <1>9. CASE ReadLog
    BY <1>9, ReadLogStep
  <1>10. CASE ReadNote
    BY <1>10, ReadNoteStep
  <1>11. CASE UNCHANGED vars
    BY <1>11 DEF vars, disk, history, WatcherInv, TypeOK, SettledAgree, Settled, SizeAgrees,
                 TextAgrees, Size, NotTracked, StatKept
  <1> QED
    BY <1>1, <1>2, <1>3, <1>4, <1>5, <1>6, <1>7, <1>8, <1>9, <1>10, <1>11 DEF Next

\* In every reachable state a file of which no report is pending, and that did not
\* change unseen, has the size the tracker keeps, and once its read is over the text.
THEOREM TrackerInvariant == Spec => []WatcherInv
  BY WatcherInit, WatcherStep, PTL DEF Spec

\* When every report of fswatch is observed, FileDelta's sizes and texts are those of
\* the files, whatever was written between a stat and its read, but for the files
\* that changed between prime and the start of fswatch.
THEOREM AgreesWhenIdleThm == Spec => []AgreesWhenIdle
  <1>1. WatcherInv => AgreesWhenIdle
    <2> SUFFICES ASSUME WatcherInv, mode = "watch", queue = <<>>, obs = Idle,
                        NEW f \in Files \ unseen
                 PROVE  SizeAgrees(f) /\ TextAgrees(f)
      BY DEF AgreesWhenIdle, SizeAgrees, TextAgrees
    <2>1. Range(queue) = {} /\ toPrime = {}
      BY DEF Range, WatcherInv, NotTracked
    <2> QED
      BY <2>1, IdleAct DEF WatcherInv, SettledAgree, Settled
  <1> QED
    BY <1>1, TrackerInvariant, PTL

-----------------------------------------------------------------------------
(* The list of changes, and what of it is about a log.                     *)

IsList(s) == \E S : s \in Seq(S)

\* One more change is told.
Emits(c) ==
    \E n \in Nat \ {0} :
        /\ Len(out) = n - 1 /\ Len(out') = n
        /\ DOMAIN out = 1..(n - 1) /\ DOMAIN out' = 1..n
        /\ \A k \in 1..(n - 1) : out'[k] = out[k]
        /\ out'[n] = c

\* Append, and joining a list of one, add the change at the end.
LEMMA Emission ==
    ASSUME IsList(out), NEW c, out' = Append(out, c) \/ out' = out \o <<c>>
    PROVE  Emits(c) /\ IsList(out')
  <1>1. PICK S : out \in Seq(S)
    BY DEF IsList
  <1>2. PICK R : R = S \cup {c}
    OBVIOUS
  <1>3. out \in Seq(R) /\ c \in R
    <2>1. DOMAIN out = 1..Len(out) /\ Len(out) \in Nat /\ \A k \in 1..Len(out) : out[k] \in R
      BY <1>1, <1>2
    <2>2. out = [k \in 1..Len(out) |-> out[k]]
      BY <1>1
    <2> QED
      BY <1>2, <2>1, <2>2, SeqDef
  <1>4. out' = Append(out, c)
    BY <1>3, AppendIsConcat
  <1>5. out' \in Seq(R)
    BY <1>3, <1>4
  <1>6. /\ Len(out) \in Nat /\ Len(out') = Len(out) + 1
        /\ DOMAIN out = 1..Len(out) /\ DOMAIN out' = 1..(Len(out) + 1)
        /\ \A k \in 1..Len(out) : out'[k] = out[k]
        /\ out'[Len(out) + 1] = c
    BY <1>3, <1>4
  <1>7. PICK n \in Nat \ {0} : n = Len(out) + 1 /\ Len(out) = n - 1
    BY <1>6
  <1>8. Emits(c)
    BY <1>6, <1>7 DEF Emits
  <1> QED
    BY <1>5, <1>8 DEF IsList

\* What is told of another file leaves the changes of a log alone, ...
LEMMA SinceOther ==
    ASSUME NEW l, NEW c, Emits(c), c.file # l
    PROVE  Since(l)' = Since(l) /\ \A k \in Since(l) : out'[k] = out[k]
  <1>1. PICK n \in Nat \ {0} : /\ Len(out) = n - 1 /\ Len(out') = n
                               /\ DOMAIN out = 1..(n - 1) /\ DOMAIN out' = 1..n
                               /\ \A k \in 1..(n - 1) : out'[k] = out[k]
                               /\ out'[n] = c
    BY DEF Emits
  <1>2. Since(l)' = {k \in 1..n : /\ out'[k].file = l
                                  /\ \A m \in k..n : out'[m].file = l => out'[m].kind # "removed"}
    BY <1>1 DEF Since
  <1>3. Since(l) = {k \in 1..(n - 1) : /\ out[k].file = l
                                       /\ \A m \in k..(n - 1) : out[m].file = l => out[m].kind # "removed"}
    BY <1>1 DEF Since
  <1>4. \A k \in 1..(n - 1) : k..n = (k..(n - 1)) \cup {n} /\ k..(n - 1) \subseteq 1..(n - 1)
    OBVIOUS
  <1>5. 1..n = (1..(n - 1)) \cup {n}
    OBVIOUS
  <1>6. \A k \in 1..(n - 1) : \A m \in k..n : m \in 1..(n - 1) \/ m = n
    OBVIOUS
  <1>7. Since(l)' \subseteq Since(l)
    BY <1>1, <1>2, <1>3, <1>4, <1>5
  <1>8. Since(l) \subseteq Since(l)'
    BY <1>1, <1>2, <1>3, <1>4, <1>5
  <1> QED
    BY <1>1, <1>3, <1>7, <1>8

\* ... one of the log is added to them, ...
LEMMA SinceMore ==
    ASSUME NEW l, NEW c, Emits(c), c.file = l, c.kind # "removed"
    PROVE  \E n \in Nat : /\ Since(l)' = Since(l) \cup {n} /\ out'[n] = c
                          /\ \A k \in Since(l) : k \in Nat /\ k < n /\ out'[k] = out[k]
  <1>1. PICK n \in Nat \ {0} : /\ Len(out) = n - 1 /\ Len(out') = n
                               /\ DOMAIN out = 1..(n - 1) /\ DOMAIN out' = 1..n
                               /\ \A k \in 1..(n - 1) : out'[k] = out[k]
                               /\ out'[n] = c
    BY DEF Emits
  <1>2. Since(l)' = {k \in 1..n : /\ out'[k].file = l
                                  /\ \A m \in k..n : out'[m].file = l => out'[m].kind # "removed"}
    BY <1>1 DEF Since
  <1>3. Since(l) = {k \in 1..(n - 1) : /\ out[k].file = l
                                       /\ \A m \in k..(n - 1) : out[m].file = l => out[m].kind # "removed"}
    BY <1>1 DEF Since
  <1>4. \A k \in 1..(n - 1) : k..n = (k..(n - 1)) \cup {n} /\ k..(n - 1) \subseteq 1..(n - 1)
    OBVIOUS
  <1>5. 1..n = (1..(n - 1)) \cup {n} /\ n..n = {n}
    OBVIOUS
  <1>6. Since(l)' \subseteq Since(l) \cup {n}
    BY <1>1, <1>2, <1>3, <1>4, <1>5
  <1>7. Since(l) \cup {n} \subseteq Since(l)'
    BY <1>1, <1>2, <1>3, <1>4, <1>5
  <1>8. \A k \in Since(l) : k \in Nat /\ k < n /\ out'[k] = out[k]
    BY <1>1, <1>3
  <1> QED
    BY <1>1, <1>6, <1>7, <1>8

\* ... and its removal ends them.
LEMMA SinceGone ==
    ASSUME NEW l, NEW c, Emits(c), c.file = l, c.kind = "removed"
    PROVE  Since(l)' = {}
  <1>1. PICK n \in Nat \ {0} : Len(out') = n /\ DOMAIN out' = 1..n /\ out'[n] = c
    BY DEF Emits
  <1>2. Since(l)' = {k \in 1..n : /\ out'[k].file = l
                                  /\ \A m \in k..n : out'[m].file = l => out'[m].kind # "removed"}
    BY <1>1 DEF Since
  <1>3. \A k \in 1..n : n \in k..n
    OBVIOUS
  <1> QED
    BY <1>1, <1>2, <1>3

\* There are finitely many of them.
LEMMA SinceFinite ==
    ASSUME IsList(out), NEW l
    PROVE  IsFiniteSet(Since(l)) /\ Since(l) \subseteq Nat
  <1>1. DOMAIN out = 1..Len(out) /\ Len(out) \in Nat
    BY DEF IsList
  <1>2. IsFiniteSet(1..Len(out))
    BY <1>1, FS_Interval
  <1>3. Since(l) \subseteq 1..Len(out)
    BY <1>1 DEF Since
  <1> QED
    BY <1>1, <1>2, <1>3, FS_Subset

-----------------------------------------------------------------------------
(* What a step does to the account of one log.                             *)

\* The size up to which the changes of a log tell of it: a file between its stat and
\* its read is told of up to the size before.
Expect(l) == IF obs.act = "observe" /\ obs.file = l THEN obs.prev ELSE sizes[l]

\* A log that was just seen for the first time is between its stat and its read.
Opened(l) == obs.act = "observe" /\ obs.file = l /\ obs.prev = None

SameChanges(l) == Since(l)' = Since(l) /\ \A k \in Since(l) : out'[k] = out[k]

\* Its account is left as it is: also by the stat, which only moves the size that is
\* still to be told of.
Leaves(l) ==
    /\ SameChanges(l)
    /\ Expect(l)' = Expect(l)
    /\ base'[l] = base[l] \/ (Expect(l) = None /\ Opened(l)')
    /\ Opened(l)' => base'[l] = obs'.size /\ obs'.size \in Nat

\* prime tracks it from its size on.
Starts(l) ==
    /\ SameChanges(l)
    /\ Expect(l) = None
    /\ Expect(l)' = base'[l] /\ base'[l] \in Nat
    /\ ~ Opened(l)'

\* It is forgotten.
Forgets(l) ==
    /\ Since(l)' = {} \/ (SameChanges(l) /\ Expect(l) = None)
    /\ Expect(l)' = None
    /\ ~ Opened(l)'

\* Its change is told.
Tells(l) ==
    /\ obs.act = "observe" /\ obs.file = l /\ obs.size # obs.prev
    /\ obs.size \in Nat /\ obs.prev \in Nat \cup {None}
    /\ base'[l] = base[l]
    /\ Expect(l)' = obs.size
    /\ ~ Opened(l)'
    /\ UNCHANGED <<exists, log, sizes>>
    /\ \E n \in Nat : /\ Since(l)' = Since(l) \cup {n} /\ out'[n] = LogChange(obs)[1]
                      /\ \A k \in Since(l) : k \in Nat /\ k < n /\ out'[k] = out[k]

Accounts == \A l \in Logs : Leaves(l) \/ Starts(l) \/ Forgets(l) \/ Tells(l)

\* The changes are a list, and a log that was just seen starts at its size.
BookOK ==
    /\ IsList(out)
    /\ base \in [Logs -> Nat \cup {None}]
    /\ \A l \in Logs : Opened(l) => base[l] = obs.size

\* What others do, and all steps that track nothing and tell of no log.
LEMMA QuietStep ==
    ASSUME WatcherInv, BookOK, NEW l \in Logs,
           SameChanges(l), sizes'[l] = sizes[l], base'[l] = base[l],
           \/ obs' = obs
           \/ /\ obs.act = "observe" => obs.file # l
              /\ obs'.act = "observe" => obs'.file # l
    PROVE  Leaves(l)
  <1>1. CASE obs' = obs
    <2>1. obs.act = "observe" => obs.size \in Nat
      BY IdleAct DEF WatcherInv, TypeOK, Observing
    <2>2. Opened(l)' => Opened(l) /\ obs.act = "observe"
      BY <1>1 DEF Opened
    <2> QED
      BY <1>1, <2>1, <2>2 DEF Leaves, Expect, BookOK
  <1>2. CASE /\ obs.act = "observe" => obs.file # l
             /\ obs'.act = "observe" => obs'.file # l
    BY <1>2 DEF Leaves, Expect, Opened
  <1> QED
    BY <1>1, <1>2

\* As long as nothing is emitted the changes of a log stay.
LEMMA SameOut == ASSUME out' = out, NEW l PROVE SameChanges(l)
  BY DEF SameChanges, Since

\* A change told of another file leaves a log as it was.
LEMMA OtherTold ==
    ASSUME NEW l, NEW c, Emits(c), c.file # l
    PROVE  SameChanges(l)
  BY SinceOther DEF SameChanges

\* The other programs, and the steps of start, tell nothing.
LEMMA StillStep ==
    ASSUME WatcherInv, BookOK, UNCHANGED <<sizes, out, base>>,
           obs' = obs \/ (obs.act # "observe" /\ obs'.act # "observe")
    PROVE  BookOK' /\ Accounts
  <1>1. Accounts
    BY QuietStep, SameOut DEF Accounts
  <1>2. BookOK'
    BY DEF BookOK, Opened
  <1> QED
    BY <1>1, <1>2

\* A log that prime visits is tracked if it is there.
LEMMA PrimeStatTells ==
    ASSUME WatcherInv, BookOK, NEW f \in Files, PrimeStat(f)
    PROVE  BookOK' /\ Accounts
  <1>1. /\ f \in toPrime /\ sizes[f] = None
        /\ out' = out
        /\ obs.act = "none" /\ obs = Idle
    BY IdleAct DEF PrimeStat, WatcherInv, NotTracked
  <1>2. obs'.act # "observe"
    BY IdleAct DEF PrimeStat
  <1>3. /\ sizes' = IF f \in exists THEN [sizes EXCEPT ![f] = Size(f)] ELSE sizes
        /\ base' = IF f \in Logs \cap exists THEN [base EXCEPT ![f] = Size(f)] ELSE base
    BY DEF PrimeStat, Tracked
  <1>4. sizes \in [Files -> Nat \cup {None}] /\ base \in [Logs -> Nat \cup {None}]
    BY DEF WatcherInv, TypeOK, BookOK
  <1>5. Size(f) \in Nat
    BY SizeType DEF WatcherInv
  <1>6. ASSUME NEW l \in Logs  PROVE Leaves(l) \/ Starts(l)
    <2>1. l \in Files /\ SameChanges(l)
      BY <1>1, SameOut DEF Files
    <2>2. CASE f # l \/ l \notin exists
      <3>1. sizes'[l] = sizes[l] /\ base'[l] = base[l]
        BY <1>3, <1>4, <2>1, <2>2
      <3> QED
        BY <1>1, <1>2, <2>1, <3>1, QuietStep
    <2>3. CASE f = l /\ l \in exists
      <3>1. sizes'[l] = Size(l) /\ base'[l] = Size(l)
        BY <1>3, <1>4, <2>1, <2>3
      <3> QED
        BY <1>1, <1>2, <1>5, <2>1, <2>3, <3>1 DEF Starts, Expect, Opened
    <2> QED
      BY <2>2, <2>3
  <1>7. base' \in [Logs -> Nat \cup {None}]
    BY <1>3, <1>4, <1>5
  <1>8. BookOK'
    BY <1>1, <1>2, <1>7 DEF BookOK, Opened
  <1> QED
    BY <1>6, <1>8 DEF Accounts

\* A log that is gone is forgotten with its changes.
LEMMA GoneTells ==
    ASSUME WatcherInv, BookOK, ObserveGone
    PROVE  BookOK' /\ Accounts
  <1>0. PICK f \in Files : f = Head(queue)
    BY RangeTail DEF ObserveGone, WatcherInv, TypeOK
  <1>1. PICK c : c = [file |-> f, kind |-> "removed"]
    OBVIOUS
  <1>2. /\ obs.act = "none" /\ obs' = obs
        /\ sizes' = [sizes EXCEPT ![f] = None]
        /\ base' = IF f \in Logs THEN [base EXCEPT ![f] = None] ELSE base
        /\ out' = IF sizes[f] = None THEN out ELSE Append(out, c)
    BY <1>0, <1>1, IdleAct DEF ObserveGone, Tracked
  <1>3. c.file = f /\ c.kind = "removed"
    BY <1>1
  <1>4. sizes \in [Files -> Nat \cup {None}] /\ base \in [Logs -> Nat \cup {None}]
    BY DEF WatcherInv, TypeOK, BookOK
  <1>5. sizes[f] # None => Emits(c)
    BY <1>2, Emission DEF BookOK
  <1>6. ASSUME NEW l \in Logs  PROVE Leaves(l) \/ Forgets(l)
    <2>1. l \in Files
      BY DEF Files
    <2>2. CASE l # f
      <3>1. sizes'[l] = sizes[l] /\ base'[l] = base[l]
        BY <1>2, <1>4, <2>1, <2>2
      <3>2. SameChanges(l)
        <4>1. CASE sizes[f] = None
          BY <1>2, <4>1, SameOut
        <4>2. CASE sizes[f] # None
          BY <1>3, <1>5, <2>2, <4>2, OtherTold
        <4> QED
          BY <4>1, <4>2
      <3> QED
        BY <1>2, <3>1, <3>2, QuietStep
    <2>3. CASE l = f
      <3>1. Expect(l)' = None /\ ~ Opened(l)' /\ Expect(l) = sizes[l]
        BY <1>2, <1>4, <2>1, <2>3 DEF Expect, Opened
      <3>2. CASE sizes[f] = None
        BY <1>2, <2>3, <3>1, <3>2, SameOut DEF Forgets
      <3>3. CASE sizes[f] # None
        BY <1>3, <1>5, <2>3, <3>1, <3>3, SinceGone DEF Forgets
      <3> QED
        BY <3>2, <3>3
    <2> QED
      BY <2>2, <2>3
  <1>7. base' \in [Logs -> Nat \cup {None}]
    BY <1>2, <1>4
  <1>8. IsList(out')
    BY <1>2, Emission DEF BookOK
  <1>9. BookOK'
    BY <1>2, <1>7, <1>8 DEF BookOK, Opened
  <1> QED
    BY <1>6, <1>9 DEF Accounts

\* The stat moves the size that is to be told of, and starts a log not seen before.
LEMMA StatTells ==
    ASSUME WatcherInv, BookOK, ObserveStat
    PROVE  BookOK' /\ Accounts
  <1>0. PICK f \in Files : f = Head(queue)
    BY RangeTail DEF ObserveStat, WatcherInv, TypeOK
  <1>1. PICK s \in Nat, p \in Nat \cup {None} : s = Size(f) /\ p = sizes[f]
    BY SizeType DEF WatcherInv, TypeOK
  <1>2. /\ obs.act = "none" /\ out' = out
        /\ obs' = [act |-> "observe", file |-> f, size |-> s, prev |-> p]
        /\ sizes' = [sizes EXCEPT ![f] = s]
        /\ base' = IF f \in Logs /\ p = None THEN [base EXCEPT ![f] = s] ELSE base
    BY <1>0, <1>1, IdleAct DEF ObserveStat, Tracked
  <1>3. obs'.act = "observe" /\ obs'.file = f /\ obs'.size = s /\ obs'.prev = p
    BY <1>2
  <1>4. sizes \in [Files -> Nat \cup {None}] /\ base \in [Logs -> Nat \cup {None}]
    BY DEF WatcherInv, TypeOK, BookOK
  <1>5. ASSUME NEW l \in Logs
        PROVE  Leaves(l) /\ (Opened(l)' => base'[l] = obs'.size)
    <2>1. l \in Files /\ SameChanges(l)
      BY <1>2, SameOut DEF Files
    <2>2. CASE l # f
      <3>1. sizes'[l] = sizes[l] /\ base'[l] = base[l]
        BY <1>2, <1>4, <2>1, <2>2
      <3>2. Leaves(l)
        BY <1>2, <1>3, <2>1, <2>2, <3>1, QuietStep
      <3> QED
        BY <1>3, <2>2, <3>2 DEF Opened
    <2>3. CASE l = f
      <3>1. Expect(l) = p /\ Expect(l)' = p
        BY <1>1, <1>2, <1>3, <2>3 DEF Expect
      <3>2. Opened(l)' <=> p = None
        BY <1>3, <2>3 DEF Opened
      <3>3. base'[l] = IF p = None THEN s ELSE base[l]
        BY <1>2, <1>4, <2>3
      <3> QED
        BY <1>1, <1>3, <2>1, <3>1, <3>2, <3>3 DEF Leaves
    <2> QED
      BY <2>2, <2>3
  <1>6. base' \in [Logs -> Nat \cup {None}]
    BY <1>1, <1>2, <1>4
  <1>7. BookOK'
    BY <1>2, <1>5, <1>6 DEF BookOK
  <1> QED
    BY <1>5, <1>7 DEF Accounts

\* The change of a log is one of that log and no removal, or none if the size is the
\* one before.
LEMMA LogChangeIs ==
    ASSUME NEW o
    PROVE  /\ o.size = o.prev => LogChange(o) = <<>>
           /\ o.size # o.prev => /\ LogChange(o) = <<LogChange(o)[1]>>
                                 /\ LogChange(o)[1].file = o.file
                                 /\ LogChange(o)[1].kind # "removed"
                                 /\ LogChange(o)[1].delta = Delta(o)
  BY DEF LogChange

\* A log that is read tells of what it grew by, ...
LEMMA ReadLogTells ==
    ASSUME WatcherInv, BookOK, ReadLog
    PROVE  BookOK' /\ Accounts
  <1>1. PICK f \in Logs, s \in Nat, p \in Nat \cup {None} :
            obs.act = "observe" /\ obs.file = f /\ obs.size = s /\ obs.prev = p
    BY IdleAct DEF ReadLog, WatcherInv, TypeOK, Observing
  <1>2. /\ obs'.act = "none" /\ sizes' = sizes /\ base' = base
        /\ out' = out \o LogChange(obs)
        /\ sizes[f] = s
        /\ UNCHANGED <<exists, log>>
    BY <1>1, IdleAct DEF ReadLog, disk, history, WatcherInv, StatKept
  <1>3. IsList(out)
    BY DEF BookOK
  <1>4. CASE s = p
    <2>1. out' = out
      BY <1>1, <1>2, <1>3, <1>4, LogChangeIs, ConcatEmptySeq DEF IsList
    <2>2. ASSUME NEW l \in Logs  PROVE Leaves(l)
      <3>1. SameChanges(l) /\ Expect(l)' = sizes[l] /\ ~ Opened(l)'
        BY <1>2, <2>1, SameOut DEF Expect, Opened
      <3>2. Expect(l) = sizes[l]
        BY <1>1, <1>2, <1>4 DEF Expect
      <3> QED
        BY <1>2, <3>1, <3>2 DEF Leaves
    <2> QED
      BY <1>2, <2>1, <2>2 DEF Accounts, BookOK, Opened
  <1>5. CASE s # p
    <2>1. PICK c : c = LogChange(obs)[1]
      OBVIOUS
    <2>2. LogChange(obs) = <<c>> /\ c.file = f /\ c.kind # "removed"
      BY <1>1, <1>5, <2>1, LogChangeIs
    <2>3. Emits(c) /\ IsList(out')
      BY <1>2, <1>3, <2>2, Emission
    <2>4. ASSUME NEW l \in Logs  PROVE Leaves(l) \/ Tells(l)
      <3>1. CASE l = f
        <4>1. \E n \in Nat : /\ Since(l)' = Since(l) \cup {n} /\ out'[n] = LogChange(obs)[1]
                            /\ \A k \in Since(l) : k \in Nat /\ k < n /\ out'[k] = out[k]
          BY <2>1, <2>2, <2>3, <3>1, SinceMore
        <4>2. Expect(l)' = s /\ ~ Opened(l)'
          BY <1>2, <3>1 DEF Expect, Opened
        <4> QED
          BY <1>1, <1>2, <1>5, <3>1, <4>1, <4>2 DEF Tells
      <3>2. CASE l # f
        BY <1>1, <1>2, <2>2, <2>3, <3>2, OtherTold, QuietStep
      <3> QED
        BY <3>1, <3>2
    <2> QED
      BY <1>2, <2>3, <2>4 DEF Accounts, BookOK, Opened
  <1> QED
    BY <1>4, <1>5

\* The change of a note is no log's.
LEMMA NoteChangeIs ==
    ASSUME NEW o
    PROVE  NoteChange(o) = <<>> \/ \E c : NoteChange(o) = <<c>> /\ c.file = o.file
  BY DEF NoteChange

\* ... and a note is told of, of no log.
LEMMA ReadNoteTells ==
    ASSUME WatcherInv, BookOK, ReadNote
    PROVE  BookOK' /\ Accounts
  <1>1. PICK f \in Notes : obs.act = "observe" /\ obs.file = f
    BY DEF ReadNote
  <1>2. obs'.act = "none" /\ sizes' = sizes /\ base' = base
    BY IdleAct DEF ReadNote, history
  <1>3. f \notin Logs
    BY FilesAssumption
  <1>4. \/ out' = out
        \/ \E c : out' = Append(out, c) /\ c.file = f
        \/ out' = out \o NoteChange(obs)
    BY <1>1 DEF ReadNote
  <1>5. out' = out \/ \E c : Emits(c) /\ IsList(out') /\ c.file = f
    <2>1. IsList(out)
      BY DEF BookOK
    <2>2. out \o <<>> = out
      BY <2>1, ConcatEmptySeq DEF IsList
    <2> QED
      BY <1>1, <1>4, <2>1, <2>2, NoteChangeIs, Emission
  <1>6. ASSUME NEW l \in Logs  PROVE Leaves(l)
    <2>1. SameChanges(l)
      BY <1>3, <1>5, SameOut, OtherTold
    <2> QED
      BY <1>1, <1>2, <1>3, <2>1, QuietStep
  <1> QED
    BY <1>2, <1>5, <1>6 DEF Accounts, BookOK, Opened

\* Nothing was emitted at the start.
LEMMA BookInit == Init => BookOK
  <1> SUFFICES ASSUME Init  PROVE BookOK
    OBVIOUS
  <1>1. out \in Seq({})
    BY DEF Init
  <1> QED
    BY <1>1, IdleAct DEF Init, BookOK, IsList, Opened

\* Every step leaves, starts, forgets or tells of each log.
LEMMA BookStep ==
    ASSUME WatcherInv, BookOK, [Next]_vars
    PROVE  BookOK' /\ Accounts
  <1>1. ASSUME NEW f, Change(f)
        PROVE  BookOK' /\ Accounts
    BY <1>1, StillStep DEF Change
  <1>2. CASE PrimeRead \/ PrimeEnds \/ Watch \/ End \/ UNCHANGED vars
    <2>1. /\ UNCHANGED <<sizes, out, base>>
          /\ obs' = obs \/ (obs.act # "observe" /\ obs'.act # "observe")
      BY <1>2, IdleAct DEF PrimeRead, PrimeEnds, Watch, End, vars, history
    <2> QED
      BY <2>1, StillStep
  <1>3. ASSUME NEW f \in Files, PrimeStat(f)
        PROVE  BookOK' /\ Accounts
    BY <1>3, PrimeStatTells
  <1> QED
    BY <1>1, <1>2, <1>3, GoneTells, StatTells, ReadLogTells, ReadNoteTells
       DEF Next, Grow, Rewrite, Write, Delete

-----------------------------------------------------------------------------
(* The byte counts add up.                                                 *)

Deltas(l) == [k \in Since(l) |-> out[k].delta]

Sum(l) == SumFunctionOnSet(Deltas(l), Since(l))

\* The account of a log: its changes bring it from the size at which it was first
\* tracked to the size up to which it is told of.
AddUp(l) ==
    /\ \A k \in Since(l) : out[k].delta \in Int
    /\ Expect(l) = None => Since(l) = {}
    /\ Expect(l) # None => base[l] \in Nat /\ base[l] + Sum(l) = Expect(l)

SumsInv == WatcherInv /\ BookOK /\ \A l \in Logs : AddUp(l)

\* A log that is left alone goes on adding up, ...
LEMMA LeavesAddUp ==
    ASSUME NEW l \in Logs, AddUp(l), Leaves(l)
    PROVE  AddUp(l)'
  <1>1. Deltas(l)' = Deltas(l) /\ Since(l)' = Since(l)
    BY DEF Leaves, SameChanges, Deltas
  <1>2. Sum(l)' = Sum(l)
    BY <1>1 DEF Sum
  <1>3. \A k \in Since(l)' : out'[k].delta \in Int
    BY DEF AddUp, Leaves, SameChanges
  <1> QED
    BY <1>1, <1>2, <1>3 DEF AddUp, Leaves

\* ... and one that starts, ...
LEMMA StartsAddUp ==
    ASSUME NEW l \in Logs, AddUp(l), Starts(l)
    PROVE  AddUp(l)'
  <1>1. Since(l)' = {}
    BY DEF Starts, SameChanges, AddUp
  <1>2. Sum(l)' = 0
    BY <1>1, SumEmpty DEF Sum
  <1> QED
    BY <1>1, <1>2 DEF AddUp, Starts, None

\* ... one that is forgotten, ...
LEMMA ForgetsAddUp ==
    ASSUME NEW l \in Logs, AddUp(l), Forgets(l)
    PROVE  AddUp(l)'
  <1>1. Since(l)' = {}
    BY DEF Forgets, SameChanges, AddUp
  <1> QED
    BY <1>1 DEF AddUp, Forgets

\* ... and one that is told of.
LEMMA TellsAddUp ==
    ASSUME BookOK, NEW l \in Logs, AddUp(l), Tells(l)
    PROVE  AddUp(l)'
  <1>1. PICK s \in Nat, p \in Nat \cup {None} :
            obs.size = s /\ obs.prev = p /\ Expect(l) = p /\ Expect(l)' = s
    BY DEF Tells, Expect
  <1>2. PICK n \in Nat : /\ Since(l)' = Since(l) \cup {n} /\ out'[n] = LogChange(obs)[1]
                         /\ \A k \in Since(l) : k \in Nat /\ k < n /\ out'[k] = out[k]
    BY DEF Tells
  <1>3. PICK S, D, E, t : /\ S = Since(l) /\ D = Deltas(l) /\ E = Deltas(l)'
                          /\ t = IF p = None THEN 0 ELSE s - p
    OBVIOUS
  <1>4. out'[n].delta = t /\ t \in Int
    BY <1>1, <1>2, <1>3, LogChangeIs DEF Tells, Delta
  <1>5. IsFiniteSet(S) /\ n \notin S
    BY <1>2, <1>3, SinceFinite DEF BookOK
  <1>6. \A k \in S : D[k] = out[k].delta /\ D[k] \in Int
    BY <1>3 DEF Deltas, AddUp
  <1>7. E = [k \in S \cup {n} |-> out'[k].delta]
    BY <1>2, <1>3 DEF Deltas
  <1>8. (\A k \in S : E[k] = D[k]) /\ E[n] = t
    BY <1>2, <1>3, <1>4, <1>6, <1>7
  <1>9. \A k \in S \cup {n} : E[k] \in Int
    BY <1>4, <1>6, <1>8
  <1>10. SumFunctionOnSet(E, S \cup {n}) = SumFunctionOnSet(E, S) + E[n]
    BY ONLY <1>5, <1>9, SumAdd
  <1>11. SumFunctionOnSet(E, S) = SumFunctionOnSet(D, S)
    BY ONLY <1>5, <1>8, SumSame
  <1>12. Sum(l)' = Sum(l) + t
    BY <1>2, <1>3, <1>8, <1>10, <1>11 DEF Sum
  <1>13. Sum(l) \in Int
    BY <1>3, <1>5, <1>6, SumInt DEF Sum
  <1>14. base'[l] = base[l]
    BY DEF Tells
  <1>15. base[l] \in Nat /\ base[l] + Sum(l) + t = s
    <2>1. CASE p = None
      <3>1. Since(l) = {} /\ Sum(l) = 0
        BY <1>1, <2>1, SumEmpty DEF AddUp, Sum
      <3>2. base[l] = s
        BY <1>1, <2>1 DEF BookOK, Opened, Tells
      <3> QED
        BY <1>1, <1>3, <2>1, <3>1, <3>2
    <2>2. CASE p # None
      <3>1. base[l] \in Nat /\ base[l] + Sum(l) = p
        BY <1>1, <2>2 DEF AddUp
      <3>2. p \in Nat
        BY <2>2
      <3> QED
        BY <1>3, <1>13, <2>2, <3>1, <3>2
    <2> QED
      BY <2>1, <2>2
  <1>16. \A k \in Since(l)' : out'[k].delta \in Int
    BY <1>2, <1>4 DEF AddUp
  <1>17. Expect(l)' # None
    BY <1>1 DEF None
  <1>18. base'[l] \in Nat /\ base'[l] + Sum(l)' = Expect(l)'
    <2>1. PICK b \in Nat, i \in Int : b = base[l] /\ i = Sum(l)
      BY <1>13, <1>15
    <2>2. Sum(l)' = i + t /\ b + i + t = s /\ base'[l] = b
      BY <1>12, <1>14, <1>15, <2>1
    <2>3. b + (i + t) = s
      BY ONLY <1>4, <2>2, s \in Nat, b \in Nat, i \in Int
    <2> QED
      BY <1>1, <2>2, <2>3
  <1> QED
    BY <1>16, <1>17, <1>18 DEF AddUp

\* Nothing was told of at the start, ...
LEMMA SumsInit == Init => SumsInv
  <1> SUFFICES ASSUME Init  PROVE SumsInv
    OBVIOUS
  <1>1. ASSUME NEW l \in Logs  PROVE AddUp(l)
    <2>1. Since(l) = {} /\ Expect(l) = None
      BY IdleAct DEF Init, Since, Expect, Files
    <2> QED
      BY <2>1 DEF AddUp
  <1> QED
    BY <1>1, WatcherInit, BookInit DEF SumsInv

\* ... and every step keeps the changes adding up.
LEMMA SumsStep == SumsInv /\ [Next]_vars => SumsInv'
  <1> SUFFICES ASSUME SumsInv, [Next]_vars  PROVE SumsInv'
    OBVIOUS
  <1>1. WatcherInv' /\ BookOK' /\ Accounts
    BY WatcherStep, BookStep DEF SumsInv
  <1>2. ASSUME NEW l \in Logs  PROVE AddUp(l)'
    BY <1>1, LeavesAddUp, StartsAddUp, ForgetsAddUp, TellsAddUp DEF Accounts, SumsInv
  <1> QED
    BY <1>1, <1>2 DEF SumsInv

\* In every reachable state the changes of each log account for its size up to the
\* last read, also between a stat and its read.
THEOREM SumsInvariant == Spec => []SumsInv
  BY SumsInit, SumsStep, PTL DEF Spec

\* The bytes_delta of a log's changes add up to its growth since it was first tracked,
\* whatever is written, also between the stat of an observation and its read.
THEOREM DeltasAddUpThm == Spec => []DeltasAddUp
  <1>1. SumsInv => DeltasAddUp
    <2> SUFFICES ASSUME SumsInv, NEW l \in Logs, sizes[l] # None, obs = Idle \/ obs.file # l
                 PROVE  base[l] + SumFunction([k \in Since(l) |-> out[k].delta]) = sizes[l]
      BY DEF DeltasAddUp
    <2>1. Expect(l) = sizes[l]
      BY IdleAct DEF Expect
    <2>2. SumFunction([k \in Since(l) |-> out[k].delta]) = Sum(l)
      BY DEF SumFunction, Sum, Deltas
    <2> QED
      BY <2>1, <2>2 DEF SumsInv, AddUp
  <1> QED
    BY <1>1, SumsInvariant, PTL

-----------------------------------------------------------------------------
(* Each record is told of once.                                            *)

\* The greater of zero and a number.
LEMMA MaxOfTwo ==
    ASSUME NEW i \in Int
    PROVE  Max({0, i}) = IF i > 0 THEN i ELSE 0
  <1>1. \A m \in {0, i} : (\A y \in {0, i} : m >= y) <=> m = (IF i > 0 THEN i ELSE 0)
    OBVIOUS
  <1> QED
    BY <1>1 DEF Max

\* The smaller of two numbers.
LEMMA MinOfTwo ==
    ASSUME NEW i \in Int, NEW j \in Int
    PROVE  Min({i, j}) = IF i <= j THEN i ELSE j
  <1>1. \A m \in {i, j} : (\A y \in {i, j} : m <= y) <=> m = (IF i <= j THEN i ELSE j)
    OBVIOUS
  <1> QED
    BY <1>1 DEF Min

\* As many records as begin up to a place, two units each.
LEMMA Halves ==
    ASSUME NEW f \in Nat
    PROVE  /\ Begun(f) \in Nat /\ f <= 2 * Begun(f) /\ 2 * Begun(f) <= f + 1
           /\ f \div 2 \in Nat /\ 2 * (f \div 2) <= f /\ f <= 2 * (f \div 2) + 1
  BY DEF Begun

\* Of the records of a log that lie wholly in a range, the previewed ones are different
\* ones, and all of them unless there are more.
Previews(l, f, t, records, more) ==
    /\ \A a \in DOMAIN records :
           \E r \in Nat : records[a] = <<log[l].gen, r>> /\ f < 2 * r - 1 /\ 2 * r <= t
    /\ \A a, b \in DOMAIN records : records[a] = records[b] => a = b
    /\ \A r \in Nat : f < 2 * r - 1 /\ 2 * r <= t =>
           more > 0 \/ <<log[l].gen, r>> \in Range(records)

\* That is what _preview_records gives of a log that is there and reaches as far.
LEMMA RecordsAre ==
    ASSUME NEW l, NEW f \in Nat, NEW t \in Nat, NEW n \in Nat, n = log[l].len,
           l \in exists, t <= n
    PROVE  Previews(l, f, t, Records(l, f, t), More(l, f, t))
  <1>0. PICK g : g = log[l].gen
    OBVIOUS
  <1>1. PICK b \in Nat, e \in Nat : b = Begun(f) /\ e = t \div 2
    BY Halves
  <1>2. /\ f <= 2 * b /\ 2 * b <= f + 1
        /\ 2 * e <= t /\ t <= 2 * e + 1
    BY <1>1, Halves
  <1>3. PICK w \in Nat : w = IF e - b > 0 THEN e - b ELSE 0
    <2>1. (IF e - b > 0 THEN e - b ELSE 0) \in Nat
      OBVIOUS
    <2> QED
      BY <2>1
  <1>4. Whole(l, f, t) = w
    <2>1. Min({t, n}) = t
      BY MinOfTwo
    <2>2. e - b \in Int
      OBVIOUS
    <2>3. Max({0, e - b}) = w
      BY ONLY <1>3, <2>2, MaxOfTwo
    <2> QED
      BY <1>1, <2>1, <2>3 DEF Whole
  <1>5. PICK m \in Nat : m = MaxRecords
    BY BoundsAssumption
  <1>6. PICK c \in Nat : c = IF w <= m THEN w ELSE m
    OBVIOUS
  <1>7. Records(l, f, t) = [k \in 1..c |-> <<g, b + k>>]
    BY <1>0, <1>1, <1>4, <1>5, <1>6, MinOfTwo DEF Records
  <1>8. w > m => More(l, f, t) > 0
    <2>1. PICK d \in {0, 1} : Lines(l, f, t) = w + d
      BY <1>4 DEF Lines
    <2>2. More(l, f, t) = Max({0, w + d - m})
      BY <1>5, <2>1 DEF More
    <2> QED
      BY <2>2, MaxOfTwo
  <1>9. ASSUME NEW r \in Nat, f < 2 * r - 1, 2 * r <= t
        PROVE  More(l, f, t) > 0 \/ \E k \in 1..c : b + k = r
    <2>1. b < r /\ r <= e
      BY <1>2, <1>9
    <2>2. r - b \in 1..w /\ b + (r - b) = r
      BY <1>3, <2>1
    <2>3. CASE w <= m
      BY <1>6, <2>2, <2>3
    <2>4. CASE w > m
      BY <1>8, <2>4
    <2> QED
      BY <2>3, <2>4
  <1>10. ASSUME NEW k \in 1..c
         PROVE  b + k \in Nat /\ f < 2 * (b + k) - 1 /\ 2 * (b + k) <= t
    <2>1. k <= e - b
      BY <1>3, <1>6
    <2> QED
      BY <1>2, <2>1
  <1>11. ASSUME NEW i \in 1..c, NEW j \in 1..c, <<g, b + i>> = <<g, b + j>>
         PROVE  i = j
    BY <1>11
  <1>12. \A k \in 1..c : <<g, b + k>> \in Range(Records(l, f, t))
    BY <1>7 DEF Range
  <1>13. \A r \in Nat : f < 2 * r - 1 /\ 2 * r <= t =>
             More(l, f, t) > 0 \/ <<log[l].gen, r>> \in Range(Records(l, f, t))
    BY <1>0, <1>9, <1>12
  <1>14. PICK q : q = Records(l, f, t) /\ q = [k \in 1..c |-> <<g, b + k>>]
    BY <1>7
  <1>15. ASSUME NEW a \in DOMAIN q
         PROVE  \E r \in Nat : q[a] = <<log[l].gen, r>> /\ f < 2 * r - 1 /\ 2 * r <= t
    <2>1. a \in 1..c /\ q[a] = <<log[l].gen, b + a>>
      BY <1>0, <1>14, <1>15
    <2> QED
      BY <1>10, <2>1
  <1>16. ASSUME NEW i \in DOMAIN q, NEW j \in DOMAIN q, q[i] = q[j]
         PROVE  i = j
    BY <1>11, <1>14, <1>16
  <1> QED
    BY <1>13, <1>14, <1>15, <1>16 DEF Previews

\* What a change of a log tells of its records: of those that lie wholly in its range,
\* and the range starts where the change before ended unless it was clipped.
Told(l, c) ==
    /\ c.to \in Nat /\ c.from \in Nat /\ c.delta \in Int
    /\ c.from = c.to - c.delta \/ c.delta = 0 \/ c.clipped
    /\ Previews(l, c.from, c.to, c.records, c.more)

\* The change of a log that has grown since its size before tells of what is new.
LEMMA LogChangeTold ==
    ASSUME NEW o, NEW l, o.file = l, NEW s \in Nat, o.size = s, NEW p \in Nat \cup {None}, o.prev = p,
           p < s, l \in exists, NEW n \in Nat, n = log[l].len, s <= n,
           NEW c, c = LogChange(o)[1]
    PROVE  /\ Told(l, c) /\ c.to = s
           /\ p # None => p <= c.from
           /\ c.delta = IF p = None THEN 0 ELSE s - p
  <1>1. PICK m \in Nat : m = MaxRead
    BY BoundsAssumption
  <1>2. PICK h \in Nat : h = Max({0, s - m}) /\ h = IF s - m > 0 THEN s - m ELSE 0
    <2>1. s - m \in Int /\ (IF s - m > 0 THEN s - m ELSE 0) \in Nat
      OBVIOUS
    <2> QED
      BY <2>1, MaxOfTwo
  <1>3. PICK st \in Nat : st = IF p # None THEN p ELSE h
    OBVIOUS
  <1>4. PICK f \in Nat : f = IF s - st > m THEN h ELSE st
    OBVIOUS
  <1>5. s # p /\ ~ (s < p)
    BY DEF None
  <1>6. /\ c.delta = Delta(o) /\ c.clipped = (s - st > m) /\ c.from = f /\ c.to = s
        /\ c.records = Records(l, f, s) /\ c.more = More(l, f, s)
    BY <1>1, <1>2, <1>3, <1>4, <1>5 DEF LogChange, ReadTo
  <1>7. c.delta = (IF p = None THEN 0 ELSE s - p) /\ c.delta \in Int
    <2>1. c.delta = IF p = None THEN 0 ELSE s - p
      BY <1>6 DEF Delta
    <2> QED
      BY <2>1 DEF None
  <1>8. ASSUME p # None  PROVE p <= f /\ (s - st > m \/ (p \in Nat /\ f = p))
    <2>1. p \in Nat /\ st = p
      BY <1>3, <1>8
    <2> QED
      BY <1>2, <1>4, <2>1
  <1>9. f = s - c.delta \/ c.delta = 0 \/ s - st > m
    BY <1>7, <1>8
  <1>10. Previews(l, f, s, Records(l, f, s), More(l, f, s))
    BY RecordsAre
  <1>11. Told(l, c)
    BY <1>6, <1>7, <1>9, <1>10 DEF Told
  <1> QED
    BY <1>6, <1>7, <1>8, <1>11

\* A log that has only grown since it was tracked: its changes tell of ranges that
\* follow each other, and that leave out nothing of what was added so far.
Grown(l) ==
    /\ l \in exists /\ Expect(l) <= sizes[l] /\ sizes[l] <= log[l].len
    /\ \A k \in Since(l) : Told(l, out[k]) /\ out[k].to <= Expect(l)
    /\ \A j, k \in Since(l) : j < k => out[j].to <= out[k].from
    /\ \A x \in Nat : base[l] < x /\ x <= Expect(l) =>
           \E k \in Since(l) : out[k].to - out[k].delta < x /\ x <= out[k].to

GrownOK == \A l \in Logs : l \notin rewritten /\ sizes[l] # None => Grown(l)

RecordsInv == SumsInv /\ GrownOK

\* After a step too, a tracked log that is not rewritten is there and as long as it
\* was when its size was taken, and what is told of it is still so.
Stays(l) ==
    /\ l \in exists' /\ Expect(l)' <= sizes'[l] /\ sizes'[l] <= log'[l].len
    /\ Expect(l) # None => Grown(l) /\ log'[l].gen = log[l].gen

\* A log that is tracked from now on has no changes.
LEMMA FreshGrown ==
    ASSUME NEW l \in Logs, Stays(l), Since(l)' = {}, Expect(l)' \in {None, base'[l]},
           base'[l] \in Nat \cup {None}
    PROVE  Grown(l)'
  <1>1. \A x \in Nat : ~ (base'[l] < x /\ x <= Expect(l)')
    BY DEF None
  <1> QED
    BY <1>1 DEF Grown, Stays

\* A log that is left alone is as long as it was, ...
LEMMA LeavesGrown ==
    ASSUME NEW l \in Logs, Stays(l), Leaves(l), Expect(l) # None
    PROVE  Grown(l)'
  <1>1. /\ Since(l)' = Since(l) /\ Expect(l)' = Expect(l) /\ base'[l] = base[l]
        /\ \A k \in Since(l) : out'[k] = out[k]
        /\ Grown(l) /\ log'[l].gen = log[l].gen
    BY DEF Leaves, SameChanges, Stays
  <1>2. \A k \in Since(l)' : Told(l, out[k])' /\ out'[k].to <= Expect(l)'
    BY <1>1 DEF Grown, Told, Previews
  <1> QED
    BY <1>1, <1>2 DEF Grown, Stays

\* ... and one that is told of as long as it was found.
LEMMA TellsGrown ==
    ASSUME SumsInv, NEW l \in Logs, Stays(l), Tells(l)
    PROVE  Grown(l)'
  <1>1. PICK s \in Nat, p \in Nat \cup {None} :
            obs.size = s /\ obs.prev = p /\ Expect(l) = p /\ Expect(l)' = s /\ s # p
    BY DEF Tells, Expect
  <1>2. PICK c : c = LogChange(obs)[1]
    OBVIOUS
  <1>3. PICK n \in Nat : /\ Since(l)' = Since(l) \cup {n} /\ out'[n] = c
                         /\ \A k \in Since(l) : k \in Nat /\ k < n /\ out'[k] = out[k]
    BY <1>2 DEF Tells
  <1>4. /\ obs.file = l /\ log' = log /\ exists' = exists /\ base'[l] = base[l]
        /\ sizes[l] = s /\ sizes' = sizes
    BY <1>1 DEF Tells, SumsInv, WatcherInv, StatKept
  <1>5. PICK e \in Nat : e = log[l].len /\ s <= e
    <2>1. log[l].len \in Nat
      BY DEF SumsInv, WatcherInv, TypeOK
    <2>2. s <= log[l].len
      BY <1>4 DEF Stays
    <2> QED
      BY <2>1, <2>2
  <1>6. p < s
    <2>1. CASE p = None
      BY <2>1 DEF None
    <2>2. CASE p # None
      BY <1>1, <1>4, <2>2 DEF Stays, Grown
    <2> QED
      BY <2>1, <2>2
  <1>7. /\ Told(l, c) /\ c.to = s
        /\ p # None => p <= c.from
        /\ c.delta = IF p = None THEN 0 ELSE s - p
    BY <1>1, <1>2, <1>4, <1>5, <1>6, LogChangeTold DEF Stays
  <1>8. Told(l, c)'
    BY <1>4, <1>7 DEF Told, Previews
  <1>9. l \in exists' /\ Expect(l)' <= sizes'[l] /\ sizes'[l] <= log'[l].len
    BY DEF Stays
  <1>10. CASE p = None
    <2>1. Since(l)' = {n}
      BY <1>1, <1>3, <1>10 DEF SumsInv, AddUp
    <2>2. base'[l] = s
      BY <1>1, <1>4, <1>10 DEF SumsInv, BookOK, Opened, Tells
    <2>3. \A k \in Since(l)' : Told(l, out[k])' /\ out'[k].to <= Expect(l)'
      BY <1>1, <1>3, <1>7, <1>8, <2>1
    <2>4. \A x \in Nat : ~ (base'[l] < x /\ x <= Expect(l)')
      BY <1>1, <2>2
    <2> QED
      BY <1>9, <1>3, <2>1, <2>3, <2>4 DEF Grown
  <1>11. CASE p # None
    <2>1. Grown(l) /\ p \in Nat /\ c.from \in Nat /\ p <= c.from
      BY <1>1, <1>7, <1>11 DEF Stays, Told
    <2>2. ASSUME NEW k \in Since(l)
          PROVE  Told(l, out[k])' /\ out'[k].to <= s /\ out'[k].to <= c.from
      <3>1. Told(l, out[k]) /\ out[k].to <= p /\ out[k].to \in Nat
        BY <1>1, <2>1 DEF Grown, Told
      <3>2. out'[k] = out[k]
        BY <1>3
      <3>3. Told(l, out[k])'
        BY <1>4, <3>1, <3>2 DEF Told, Previews
      <3> QED
        BY <1>6, <2>1, <3>1, <3>2, <3>3
    <2>3. \A k \in Since(l)' : Told(l, out[k])' /\ out'[k].to <= Expect(l)'
      BY <1>1, <1>3, <1>7, <1>8, <2>2
    <2>4. ASSUME NEW j \in Since(l)', NEW k \in Since(l)', j < k
          PROVE  out'[j].to <= out'[k].from
      <3>1. CASE k = n
        <4>1. j \in Since(l)
          BY <1>3, <2>4, <3>1
        <4> QED
          BY <1>3, <2>2, <3>1, <4>1
      <3>2. CASE k # n
        <4>1. k \in Since(l) /\ k \in Nat /\ k < n
          BY <1>3, <3>2
        <4>2. j # n
          BY <2>4, <4>1
        <4>3. j \in Since(l) /\ out'[j] = out[j] /\ out'[k] = out[k]
          BY <1>3, <4>1, <4>2
        <4> QED
          BY <2>1, <2>4, <4>1, <4>3 DEF Grown
      <3> QED
        BY <3>1, <3>2
    <2>5. ASSUME NEW x \in Nat, base'[l] < x, x <= Expect(l)'
          PROVE  \E k \in Since(l)' : out'[k].to - out'[k].delta < x /\ x <= out'[k].to
      <3>1. CASE x <= p
        <4>1. PICK k \in Since(l) : out[k].to - out[k].delta < x /\ x <= out[k].to
          BY <1>1, <1>4, <2>1, <2>5, <3>1 DEF Grown
        <4> QED
          BY <1>3, <4>1
      <3>2. CASE ~ (x <= p)
        <4>1. s - c.delta = p /\ p < x /\ x <= s
          BY <1>1, <1>7, <1>11, <2>1, <2>5, <3>2
        <4> QED
          BY <1>3, <1>7, <4>1
      <3> QED
        BY <3>1, <3>2
    <2> QED
      BY <1>9, <2>3, <2>4, <2>5 DEF Grown
  <1> QED
    BY <1>10, <1>11

\* What every step has to show of the files for the account of a log to go on.
StaysOK == \A l \in Logs : l \notin rewritten' /\ sizes'[l] # None => Stays(l)

\* Every step keeps the changes of such a log in line with its length.
LEMMA GrownStep ==
    ASSUME SumsInv, GrownOK, StaysOK, Accounts, BookOK'
    PROVE  GrownOK'
  <1> SUFFICES ASSUME NEW l \in Logs, l \notin rewritten', sizes'[l] # None
               PROVE  Grown(l)'
    BY DEF GrownOK
  <1>1. Stays(l) /\ base'[l] \in Nat \cup {None} /\ AddUp(l)
    BY DEF StaysOK, BookOK, SumsInv
  <1>2. CASE Leaves(l)
    <2>1. CASE Expect(l) # None
      BY <1>1, <1>2, <2>1, LeavesGrown
    <2>2. CASE Expect(l) = None
      BY <1>1, <1>2, <2>2, FreshGrown DEF AddUp, Leaves, SameChanges
    <2> QED
      BY <2>1, <2>2
  <1>3. CASE Starts(l)
    BY <1>1, <1>3, FreshGrown DEF AddUp, Starts, SameChanges
  <1>4. ~ Forgets(l)
    BY DEF Forgets, Expect, Opened
  <1>5. CASE Tells(l)
    BY <1>1, <1>5, TellsGrown
  <1> QED
    BY <1>2, <1>3, <1>4, <1>5 DEF Accounts

\* A log whose size is not taken, and that only grows if anything, stays.
LEMMA KeptStays ==
    ASSUME SumsInv, GrownOK, NEW l \in Logs, l \notin rewritten, sizes[l] # None,
           sizes'[l] = sizes[l], Expect(l)' \in {Expect(l), sizes[l]},
           l \in exists => l \in exists',
           log'[l].gen = log[l].gen, log[l].len <= log'[l].len, log'[l].len \in Nat
    PROVE  Stays(l)
  <1>1. Grown(l)
    BY DEF GrownOK
  <1>2. /\ log[l].len \in Nat /\ sizes[l] \in Nat
        /\ Expect(l) \in Nat \cup {None}
    <2>1. l \in Files
      BY DEF Files
    <2>2. Expect(l) # None => Expect(l) = base[l] + Sum(l) /\ base[l] \in Nat
      BY DEF SumsInv, AddUp
    <2>3. obs.act = "observe" => obs.prev \in Nat \cup {None}
      BY IdleAct DEF SumsInv, WatcherInv, TypeOK, Observing
    <2> QED
      BY <2>1, <2>3 DEF SumsInv, WatcherInv, TypeOK, Expect
  <1> QED
    BY <1>1, <1>2 DEF Stays, Grown, None

\* Every step keeps a tracked log that is not rewritten as long as it was, at least.
LEMMA StayStep ==
    ASSUME SumsInv, GrownOK, [Next]_vars
    PROVE  StaysOK
  <1>0. /\ WatcherInv /\ TypeOK /\ Logs \subseteq Files
        /\ \A l \in Logs : log[l].len \in Nat /\ log[l].len <= log[l].len
    BY DEF SumsInv, WatcherInv, TypeOK, Files
  <1>1. ASSUME UNCHANGED <<sizes, obs>>, exists \subseteq exists', NEW S \in SUBSET Logs,
               \A l \in Logs \ S : log'[l] = log[l], rewritten' = rewritten \cup S
        PROVE  StaysOK
    <2> SUFFICES ASSUME NEW l \in Logs, l \notin rewritten', sizes'[l] # None
                 PROVE  Stays(l)
      BY DEF StaysOK
    <2>1. log'[l] = log[l] /\ l \notin rewritten /\ Expect(l)' = Expect(l)
      BY <1>1 DEF Expect
    <2> QED
      BY <1>0, <1>1, <2>1, KeptStays
  <1>2. ASSUME NEW l \in Logs, NEW n \in 1..3, Grow(l, n)  PROVE StaysOK
    <2> SUFFICES ASSUME NEW m \in Logs, m \notin rewritten', sizes'[m] # None
                 PROVE  Stays(m)
      BY DEF StaysOK
    <2>1. UNCHANGED <<sizes, obs, exists, rewritten>>
      BY <1>2 DEF Grow, Change
    <2>2. /\ log'[m].gen = log[m].gen /\ log[m].len <= log'[m].len /\ log'[m].len \in Nat
      BY <1>0, <1>2 DEF Grow, TypeOK
    <2>3. Expect(m)' = Expect(m)
      BY <2>1 DEF Expect
    <2> QED
      BY <2>1, <2>2, <2>3, KeptStays
  <1>3. ASSUME NEW l \in Logs, NEW n \in 0..MaxLen, Rewrite(l, n)  PROVE StaysOK
    <2>1. PICK S \in SUBSET Logs : S = {l}
      OBVIOUS
    <2>2. \A m \in Logs \ S : log'[m] = log[m]
      BY <1>0, <1>3, <2>1 DEF Rewrite, TypeOK
    <2>3. UNCHANGED <<sizes, obs>> /\ exists \subseteq exists' /\ rewritten' = rewritten \cup S
      BY <1>3, <2>1 DEF Rewrite, Change
    <2> QED
      BY <1>1, <2>2, <2>3
  <1>4. ASSUME NEW f \in Notes, NEW c \in Contents, Write(f, c)  PROVE StaysOK
    <2>1. PICK S \in SUBSET Logs : S = {}
      OBVIOUS
    <2>2. UNCHANGED <<sizes, obs, log>> /\ exists \subseteq exists' /\ rewritten' = rewritten \cup S
      BY <1>4, <2>1 DEF Write, Change
    <2> QED
      BY <1>1, <2>2
  <1>5. ASSUME NEW f \in Files, Delete(f)  PROVE StaysOK
    <2> SUFFICES ASSUME NEW m \in Logs, m \notin rewritten', sizes'[m] # None
                 PROVE  Stays(m)
      BY DEF StaysOK
    <2>1. /\ UNCHANGED <<sizes, obs, log>> /\ exists' = exists \ {f}
          /\ rewritten' = IF f \in Logs THEN rewritten \cup {f} ELSE rewritten
      BY <1>5 DEF Delete, Change
    <2>2. m # f /\ m \notin rewritten
      BY <2>1
    <2>3. Expect(m)' = Expect(m)
      BY <2>1 DEF Expect
    <2> QED
      BY <1>0, <2>1, <2>2, <2>3, KeptStays
  <1>6. ASSUME NEW f \in Files, PrimeStat(f)  PROVE StaysOK
    <2> SUFFICES ASSUME NEW m \in Logs, m \notin rewritten', sizes'[m] # None
                 PROVE  Stays(m)
      BY DEF StaysOK
    <2>1. /\ sizes' = IF f \in exists THEN [sizes EXCEPT ![f] = Size(f)] ELSE sizes
          /\ rewritten' = rewritten \ {f} /\ UNCHANGED <<exists, log>>
          /\ obs = Idle /\ sizes[f] = None
      BY <1>0, <1>6 DEF PrimeStat, Tracked, disk, WatcherInv, NotTracked
    <2>2. obs.act # "observe" /\ obs'.act # "observe"
      BY <1>6, <2>1, IdleAct DEF PrimeStat
    <2>3. Expect(m) = sizes[m] /\ Expect(m)' = sizes'[m]
      BY <2>2 DEF Expect
    <2>4. CASE m # f
      <3>1. sizes'[m] = sizes[m] /\ m \notin rewritten
        BY <1>0, <2>1, <2>4 DEF TypeOK
      <3> QED
        BY <1>0, <2>1, <2>3, <3>1, KeptStays
    <2>5. CASE m = f
      <3>1. m \in exists
        BY <2>1, <2>5
      <3>2. sizes'[m] = log[m].len
        BY <1>0, <2>1, <2>5, <3>1 DEF TypeOK, Size
      <3> QED
        BY <1>0, <2>1, <2>3, <2>5, <3>1, <3>2 DEF Stays
    <2> QED
      BY <2>4, <2>5
  <1>7. CASE ObserveGone
    <2> SUFFICES ASSUME NEW m \in Logs, m \notin rewritten', sizes'[m] # None
                 PROVE  Stays(m)
      BY DEF StaysOK
    <2>1. PICK f : f = Head(queue)
      OBVIOUS
    <2>2. /\ sizes' = [sizes EXCEPT ![f] = None] /\ rewritten' = rewritten \ {f}
          /\ UNCHANGED <<exists, log, obs>> /\ obs.act # "observe"
      BY <1>7, <2>1, IdleAct DEF ObserveGone, Tracked, disk
    <2>3. m # f /\ sizes'[m] = sizes[m]
      BY <1>0, <2>2 DEF TypeOK
    <2>4. Expect(m)' = Expect(m)
      BY <2>2, <2>3 DEF Expect
    <2> QED
      BY <1>0, <2>2, <2>3, <2>4, KeptStays
  <1>8. CASE ObserveStat
    <2> SUFFICES ASSUME NEW m \in Logs, m \notin rewritten', sizes'[m] # None
                 PROVE  Stays(m)
      BY DEF StaysOK
    <2>1. PICK f : f = Head(queue)
      OBVIOUS
    <2>2. /\ sizes' = [sizes EXCEPT ![f] = Size(f)] /\ f \in exists
          /\ rewritten' = IF sizes[f] = None THEN rewritten \ {f} ELSE rewritten
          /\ UNCHANGED <<exists, log>> /\ obs.act # "observe"
          /\ obs' = [act |-> "observe", file |-> f, size |-> Size(f), prev |-> sizes[f]]
      BY <1>8, <2>1, IdleAct DEF ObserveStat, Tracked, disk
    <2>3. obs'.act = "observe" /\ obs'.file = f /\ obs'.prev = sizes[f]
      BY <2>2
    <2>4. Expect(m) = sizes[m]
      BY <2>2 DEF Expect
    <2>5. CASE m # f
      <3>1. sizes'[m] = sizes[m] /\ m \notin rewritten
        BY <1>0, <2>2, <2>5 DEF TypeOK
      <3>2. Expect(m)' = sizes[m]
        BY <2>3, <2>5, <3>1 DEF Expect
      <3> QED
        BY <1>0, <2>2, <3>1, <3>2, KeptStays
    <2>6. CASE m = f
      <3>1. sizes'[m] = log[m].len
        BY <1>0, <2>2, <2>6 DEF TypeOK, Size
      <3>2. Expect(m)' = sizes[m]
        BY <2>3, <2>6 DEF Expect
      <3>3. sizes[m] # None => Grown(m)
        BY <2>2, <2>6 DEF GrownOK
      <3>4. sizes[m] <= log[m].len
        BY <1>0, <3>3 DEF Grown, None
      <3> QED
        BY <1>0, <2>2, <2>4, <2>6, <3>1, <3>2, <3>3, <3>4 DEF Stays
    <2> QED
      BY <2>5, <2>6
  <1>9. ASSUME UNCHANGED <<exists, log, sizes, rewritten>>,
               obs' = obs \/ obs'.act # "observe"
        PROVE  StaysOK
    <2> SUFFICES ASSUME NEW m \in Logs, m \notin rewritten', sizes'[m] # None
                 PROVE  Stays(m)
      BY DEF StaysOK
    <2>1. Expect(m)' \in {Expect(m), sizes[m]}
      BY <1>9 DEF Expect
    <2> QED
      BY <1>0, <1>9, <2>1, KeptStays
  <1>10. CASE PrimeRead \/ PrimeEnds \/ Watch \/ End \/ ReadLog \/ ReadNote \/ UNCHANGED vars
    <2>1. UNCHANGED <<exists, log, sizes, rewritten>> /\ (obs' = obs \/ obs'.act # "observe")
      BY <1>10, IdleAct DEF PrimeRead, PrimeEnds, Watch, End, ReadLog, ReadNote, vars, disk, history
    <2> QED
      BY <1>9, <2>1
  <1> QED
    BY <1>2, <1>3, <1>4, <1>5, <1>6, <1>7, <1>8, <1>10 DEF Next

\* In every reachable state the changes of each log that has only grown since it was
\* tracked tell of consecutive ranges, with nothing left out.
THEOREM RecordsInvariant == Spec => []RecordsInv
  <1>1. Init => RecordsInv
    <2> SUFFICES ASSUME Init  PROVE RecordsInv
      OBVIOUS
    <2>1. \A l \in Logs : sizes[l] = None
      BY DEF Init, Files
    <2> QED
      BY <2>1, SumsInit DEF RecordsInv, GrownOK
  <1>2. RecordsInv /\ [Next]_vars => RecordsInv'
    BY SumsStep, StayStep, BookStep, GrownStep DEF RecordsInv, SumsInv
  <1> QED
    BY <1>1, <1>2, PTL DEF Spec

\* As long as a log only grows, no record is previewed twice, and each record that was
\* appended and observed belongs to a change, which previews it but for the excuses
\* the code has: the change before ended in the middle of it, the range was clipped,
\* or there were more lines than _MAX_RECORDS.
THEOREM RecordsOnceThm == Spec => []RecordsOnce
  <1>1. RecordsInv => RecordsOnce
    <2> SUFFICES ASSUME RecordsInv, NEW l \in Logs \ rewritten, sizes[l] # None,
                        obs = Idle \/ obs.file # l
                 PROVE  /\ \A j, k \in Since(l) :
                               \A a \in DOMAIN out[j].records, b \in DOMAIN out[k].records :
                                   out[j].records[a] = out[k].records[b] => j = k /\ a = b
                        /\ \A r \in 1..MaxLen :
                               base[l] < 2 * r - 1 /\ 2 * r <= sizes[l] =>
                                   \E k \in Since(l) :
                                       /\ out[k].to - out[k].delta < 2 * r /\ 2 * r <= out[k].to
                                       /\ \/ <<log[l].gen, r>> \in Range(out[k].records)
                                          \/ 2 * r - 1 = out[k].to - out[k].delta
                                          \/ out[k].clipped /\ 2 * r - 1 <= out[k].from
                                          \/ out[k].more > 0
      BY DEF RecordsOnce
    <2>1. Grown(l)
      BY DEF RecordsInv, GrownOK
    <2>2. Expect(l) = sizes[l] /\ base[l] \in Nat
      BY IdleAct DEF Expect, RecordsInv, SumsInv, AddUp
    <2>3. Since(l) \subseteq Nat
      BY SinceFinite DEF RecordsInv, SumsInv, BookOK
    <2>4. ASSUME NEW j \in Since(l), NEW k \in Since(l), j < k,
                 NEW a \in DOMAIN out[j].records, NEW b \in DOMAIN out[k].records
          PROVE  out[j].records[a] # out[k].records[b]
      <3>1. PICK r \in Nat : out[j].records[a] = <<log[l].gen, r>> /\ 2 * r <= out[j].to
        BY <2>1 DEF Grown, Told, Previews
      <3>2. PICK q \in Nat : out[k].records[b] = <<log[l].gen, q>> /\ out[k].from < 2 * q - 1
        BY <2>1 DEF Grown, Told, Previews
      <3>3. out[j].to <= out[k].from /\ out[j].to \in Nat /\ out[k].from \in Nat
        BY <2>1, <2>4 DEF Grown, Told
      <3>4. r # q
        BY <3>1, <3>2, <3>3
      <3> QED
        BY <3>1, <3>2, <3>4
    <2>5. ASSUME NEW j \in Since(l), NEW k \in Since(l),
                 NEW a \in DOMAIN out[j].records, NEW b \in DOMAIN out[k].records,
                 out[j].records[a] = out[k].records[b]
          PROVE  j = k /\ a = b
      <3>1. j = k
        BY <2>3, <2>4, <2>5
      <3> QED
        BY <2>1, <2>5, <3>1 DEF Grown, Told, Previews
    <2>6. ASSUME NEW r \in 1..MaxLen, base[l] < 2 * r - 1, 2 * r <= sizes[l]
          PROVE  \E k \in Since(l) :
                     /\ out[k].to - out[k].delta < 2 * r /\ 2 * r <= out[k].to
                     /\ \/ <<log[l].gen, r>> \in Range(out[k].records)
                        \/ 2 * r - 1 = out[k].to - out[k].delta
                        \/ out[k].clipped /\ 2 * r - 1 <= out[k].from
                        \/ out[k].more > 0
      <3>1. PICK x \in Nat : r \in Nat /\ x = 2 * r
        BY BoundsAssumption
      <3>2. base[l] < x /\ x <= Expect(l)
        BY <2>2, <2>6, <3>1
      <3>3. PICK k \in Since(l) : out[k].to - out[k].delta < x /\ x <= out[k].to
        BY <2>1, <3>2 DEF Grown
      <3>4. PICK c : c = out[k] /\ Told(l, c)
        BY <2>1 DEF Grown
      <3>5. PICK t \in Nat, f \in Nat, d \in Int : t = c.to /\ f = c.from /\ d = c.delta
        BY <3>4 DEF Told
      <3>6. t - d < x /\ x <= t
        BY <3>3, <3>4, <3>5
      <3>7. CASE x - 1 = t - d
        BY <3>1, <3>3, <3>4, <3>5, <3>7
      <3>8. CASE c.clipped /\ x - 1 <= f
        BY <3>1, <3>3, <3>4, <3>5, <3>8
      <3>9. CASE x - 1 # t - d /\ ~ (c.clipped /\ x - 1 <= f)
        <4>1. f = t - d \/ d = 0 \/ c.clipped
          BY <3>4, <3>5 DEF Told
        <4>2. f < x - 1
          BY <3>6, <3>9, <4>1
        <4>3. c.more > 0 \/ <<log[l].gen, r>> \in Range(c.records)
          BY <3>1, <3>4, <3>5, <3>6, <4>2 DEF Told, Previews
        <4> QED
          BY <3>1, <3>3, <3>4, <4>3
      <3> QED
        BY <3>7, <3>8, <3>9
    <2> QED
      BY <2>5, <2>6
  <1> QED
    BY <1>1, RecordsInvariant, PTL
=============================================================================
