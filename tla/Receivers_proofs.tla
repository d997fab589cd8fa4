-------------------------- MODULE Receivers_proofs --------------------------
(***************************************************************************)
(* What holds of what comes in over HTTP, and of how it was asked for:     *)
(*   I.   the way of a hook (HookPath), for every number of runs, every    *)
(*        tree of directories and every cap on the dynamic watchers;       *)
(*   II.  the settings file that hooks are installed in (HookSettings),    *)
(*        for any processes, hooks and number of changes;                  *)
(*   III. what a cost counter comes to (Telemetry), for any number of      *)
(*        prompts, exports, retries and resumed sessions.                  *)
(***************************************************************************)
EXTENDS HookPath, HookSettings, Telemetry, Sums, FiniteSetTheorems, SequenceTheorems, TLAPS

TypeOK ==
    /\ wrote \in [Fires -> Dirs \cup {NoWrite}]
    /\ client \in [Fires -> {"new", "run", "sent", "ok", "bad", "failed"}]
    /\ server \in [Fires -> {"none", "head", "whole", "ok", "bad"}]
    /\ queue \in Seq(Fires) /\ events \in Seq(Fires)
    /\ up \in BOOLEAN
    /\ roots \subseteq Dirs /\ dynamic \subseteq roots /\ dead \subseteq dynamic

\* A request is handled once: the receiver is at its end with exactly the
\* requests that gave their event, and it has none of a script that has not sent.
HandledOnce ==
    /\ \A r \in Fires : r \in Range(events) <=> server[r] = "ok"
    /\ \A r \in Fires : client[r] \in {"new", "run"} => server[r] = "none"
    /\ \A r \in Fires : client[r] = "ok" => server[r] = "ok"
    /\ IsInjective(events)
    /\ Range(queue) \subseteq Range(events)

\* The places for dynamic watchers, and what they are given to.
Places ==
    /\ IsFiniteSet(dynamic)
    /\ Cardinality(dynamic) <= MaxDynamic
    /\ Roots \subseteq roots
    /\ \A d \in dynamic : \A root \in Roots : ~Under(d, root)

\* What was recorded found a watcher, or a place taken.
RecordedWatched ==
    \A r \in Range(events) \ Range(queue) :
        up /\ wrote[r] \in Dirs \ Unwatchable =>
            \/ Covered(wrote[r])
            \/ Cardinality(dynamic) = MaxDynamic

HookInv == TypeOK /\ HandledOnce /\ Places /\ RecordedWatched

-----------------------------------------------------------------------------
(* The sequences.                                                          *)

\* The last element of a sequence adds itself to its range.
LEMMA RangeAppend ==
    ASSUME NEW S, NEW s \in Seq(S), NEW x \in S
    PROVE  Range(Append(s, x)) = Range(s) \cup {x}
  <1>1. \A i \in 1..Len(s) + 1 : Append(s, x)[i] = IF i <= Len(s) THEN s[i] ELSE x
    OBVIOUS
  <1>2. /\ DOMAIN s = 1..Len(s) /\ DOMAIN Append(s, x) = 1..Len(s) + 1
        /\ Len(s) \in Nat
    OBVIOUS
  <1>3. Range(s) \cup {x} \subseteq Range(Append(s, x))
    <2>1. \A i \in DOMAIN s : i \in DOMAIN Append(s, x) /\ Append(s, x)[i] = s[i]
      BY <1>1, <1>2
    <2>2. Len(s) + 1 \in DOMAIN Append(s, x) /\ Append(s, x)[Len(s) + 1] = x
      BY <1>1, <1>2
    <2> QED
      BY <2>1, <2>2 DEF Range
  <1>4. Range(Append(s, x)) \subseteq Range(s) \cup {x}
    BY <1>1, <1>2 DEF Range
  <1> QED
    BY <1>3, <1>4

\* A sequence without repetition keeps so when a new element is appended.
LEMMA InjectiveAppend ==
    ASSUME NEW S, NEW s \in Seq(S), NEW x \in S, IsInjective(s), x \notin Range(s)
    PROVE  IsInjective(Append(s, x))
  <1>1. \A i \in 1..Len(s) + 1 : Append(s, x)[i] = IF i <= Len(s) THEN s[i] ELSE x
    OBVIOUS
  <1>2. DOMAIN s = 1..Len(s) /\ DOMAIN Append(s, x) = 1..Len(s) + 1 /\ Len(s) \in Nat
    OBVIOUS
  <1>3. \A i \in 1..Len(s) : s[i] # x
    BY <1>2 DEF Range
  <1> QED
    BY <1>1, <1>2, <1>3 DEF IsInjective

\* The head of a queue is all that its tail lacks.
LEMMA RangeTail ==
    ASSUME NEW S, NEW s \in Seq(S), s # <<>>
    PROVE  /\ Range(s) = Range(Tail(s)) \cup {Head(s)}
           /\ Head(s) \in S
  <1>1. /\ Len(s) \in Nat /\ Len(s) > 0 /\ DOMAIN s = 1..Len(s)
        /\ Tail(s) \in Seq(S) /\ DOMAIN Tail(s) = 1..Len(s) - 1
        /\ \A i \in 1..Len(s) - 1 : Tail(s)[i] = s[i + 1]
        /\ Head(s) = s[1]
    OBVIOUS
  <1>2. Range(Tail(s)) \cup {Head(s)} \subseteq Range(s)
    BY <1>1 DEF Range
  <1>3. ASSUME NEW i \in DOMAIN s, i # 1
        PROVE  s[i] \in Range(Tail(s))
    <2>1. i - 1 \in DOMAIN Tail(s) /\ Tail(s)[i - 1] = s[i]
      BY <1>1, <1>3
    <2> QED
      BY <2>1 DEF Range
  <1>4. Range(s) \subseteq Range(Tail(s)) \cup {Head(s)}
    BY <1>1, <1>3 DEF Range
  <1> QED
    BY <1>1, <1>2, <1>4

-----------------------------------------------------------------------------
(* The steps.                                                              *)

\* No hook has run at the start.
LEMMA HookInit == Init => HookInv
  <1> SUFFICES ASSUME Init
               PROVE  HookInv
    OBVIOUS
  <1> USE DEF Init
  <1>1. Range(events) = {} /\ Range(queue) = {} /\ IsInjective(events)
    BY DEF Range, IsInjective
  <1>2. TypeOK
    BY DirsAssumption DEF TypeOK
  <1>3. HandledOnce
    BY <1>1 DEF HandledOnce
  <1>4. Places
    BY FS_EmptySet, MaxDynamicAssumption DEF Places
  <1>5. RecordedWatched
    BY <1>1 DEF RecordedWatched
  <1> QED
    BY <1>2, <1>3, <1>4, <1>5 DEF HookInv

\* Every step keeps the types; only what is not watched yet gets a watcher.
LEMMA TypeStep == TypeOK /\ [Next]_vars => TypeOK'
  <1> SUFFICES ASSUME TypeOK, [Next]_vars
               PROVE  TypeOK'
    OBVIOUS
  <1> USE DEF TypeOK, watch
  <1>1. CASE Dies
    <2>1. server' \in [Fires -> {"none", "head", "whole", "ok", "bad"}]
      BY <1>1 DEF Dies
    <2>2. queue' \in Seq(Fires)
      BY <1>1 DEF Dies
    <2> QED
      BY <1>1, <2>1, <2>2 DEF Dies
  <1>2. CASE Record
    BY <1>2, RangeTail DEF Record
  <1>3. ASSUME NEW d \in Dirs \cup {NoWrite}, Fire(d)
        PROVE  TypeOK'
    BY <1>3 DEF Fire
  <1>4. ASSUME NEW r \in Fires,
               ScriptFails(r) \/ Send(r) \/ RestArrives(r) \/ GiveUp(r) \/ Answer(r)
        PROVE  TypeOK'
    BY <1>4 DEF ScriptFails, Send, RestArrives, GiveUp, Answer
  <1>5. ASSUME NEW r \in Fires, Handle(r)
        PROVE  TypeOK'
    <2>1. queue' \in Seq(Fires) /\ events' \in Seq(Fires)
      <3>1. Append(queue, r) \in Seq(Fires) /\ Append(events, r) \in Seq(Fires)
        OBVIOUS
      <3>2. \/ queue' = Append(queue, r) /\ events' = Append(events, r)
            \/ queue' = queue /\ events' = events
        BY <1>5 DEF Handle
      <3> QED
        BY <3>1, <3>2
    <2>2. server' \in [Fires -> {"none", "head", "whole", "ok", "bad"}]
      BY <1>5 DEF Handle
    <2> QED
      BY <1>5, <2>1, <2>2 DEF Handle
  <1>6. ASSUME NEW d \in Dirs, WatcherEnds(d)
        PROVE  TypeOK'
    <2>1. dead' = dead \cup {d} /\ d \in dynamic /\ dynamic' = dynamic /\ roots' = roots
      BY <1>6 DEF WatcherEnds
    <2>2. UNCHANGED path
      BY <1>6 DEF WatcherEnds
    <2> QED
      BY <2>1, <2>2 DEF path
  <1>7. CASE UNCHANGED vars
    BY <1>7 DEF vars, path
  <1> QED
    BY <1>1, <1>2, <1>3, <1>4, <1>5, <1>6, <1>7 DEF Next

\* A run that is new has not come to the receiver, so no run gives two events.
LEMMA HandledStep == TypeOK /\ HandledOnce /\ [Next]_vars => HandledOnce'
  <1> SUFFICES ASSUME TypeOK, HandledOnce, [Next]_vars
               PROVE  HandledOnce'
    OBVIOUS
  <1> USE DEF TypeOK, HandledOnce, watch
  <1>1. CASE Dies
    <2>1. Range(queue') = {}
      BY <1>1 DEF Dies, Range
    <2> QED
      BY <1>1, <2>1 DEF Dies
  <1>2. CASE Record
    BY <1>2, RangeTail DEF Record
  <1>3. ASSUME NEW d \in Dirs \cup {NoWrite}, Fire(d)
        PROVE  HandledOnce'
    BY <1>3 DEF Fire
  <1>4. ASSUME NEW r \in Fires,
               ScriptFails(r) \/ Send(r) \/ RestArrives(r) \/ GiveUp(r) \/ Answer(r)
        PROVE  HandledOnce'
    BY <1>4 DEF ScriptFails, Send, RestArrives, GiveUp, Answer
  <1>5. ASSUME NEW r \in Fires, Handle(r)
        PROVE  HandledOnce'
    <2>1. CASE Parses(r)
      <3>1. /\ server' = [server EXCEPT ![r] = "ok"] /\ client' = client
            /\ queue' = Append(queue, r) /\ events' = Append(events, r)
        BY <1>5, <2>1 DEF Handle
      <3>2. r \notin Range(events)
        BY <2>1 DEF Parses
      <3>3. /\ Range(events') = Range(events) \cup {r}
            /\ Range(queue') = Range(queue) \cup {r}
        BY <3>1, RangeAppend
      <3>4. IsInjective(events')
        BY <3>1, <3>2, InjectiveAppend
      <3>5. \A q \in Fires : q \in Range(events') <=> server'[q] = "ok"
        BY <3>1, <3>3
      <3> QED
        BY <3>1, <3>3, <3>4, <3>5, <2>1 DEF Parses
    <2>2. CASE ~Parses(r)
      BY <1>5, <2>2 DEF Handle, Parses
    <2> QED
      BY <2>1, <2>2
  <1>6. ASSUME NEW d \in Dirs, WatcherEnds(d)
        PROVE  HandledOnce'
    BY <1>6 DEF WatcherEnds, path
  <1>7. CASE UNCHANGED vars
    BY <1>7 DEF vars, path
  <1> QED
    BY <1>1, <1>2, <1>3, <1>4, <1>5, <1>6, <1>7 DEF Next

\* Only the recording of an event changes who watches what.
LEMMA WatchMoves == [Next]_vars => Record \/ UNCHANGED <<roots, dynamic>>
  BY DEF Next, vars, path, watch, Dies, Fire, ScriptFails, Send, RestArrives, GiveUp,
         Handle, Answer, WatcherEnds

\* A directory that is not covered has no place yet, so a place goes to it only
\* while there is one, and it lies under no root of watch_dirs.
LEMMA PlacesStep ==
    TypeOK /\ Places /\ [Next]_vars =>
        /\ Places'
        /\ roots \subseteq roots'
        /\ Cardinality(dynamic) = MaxDynamic => Cardinality(dynamic') = MaxDynamic
  <1> SUFFICES ASSUME TypeOK, Places, [Next]_vars
               PROVE  /\ Places'
                      /\ roots \subseteq roots'
                      /\ Cardinality(dynamic) = MaxDynamic =>
                             Cardinality(dynamic') = MaxDynamic
    OBVIOUS
  <1>1. CASE UNCHANGED <<roots, dynamic>>
    BY <1>1 DEF Places
  <1>2. CASE Record /\ ~UNCHANGED <<roots, dynamic>>
    <2> DEFINE d == wrote[Head(queue)]
    <2>1. /\ ~Covered(d) /\ Room
          /\ roots' = roots \cup {d} /\ dynamic' = dynamic \cup {d}
      BY <1>2 DEF Record
    <2>2. d \notin dynamic
      BY <2>1 DEF TypeOK, Covered, Under
    <2>3. /\ IsFiniteSet(dynamic') /\ Cardinality(dynamic') = Cardinality(dynamic) + 1
          /\ Cardinality(dynamic) \in Nat
      BY <2>1, <2>2, FS_AddElement, FS_CardinalityType DEF Places
    <2>4. Cardinality(dynamic') <= MaxDynamic /\ Cardinality(dynamic) # MaxDynamic
      BY <2>1, <2>3, MaxDynamicAssumption DEF Room
    <2>5. \A root \in Roots : ~Under(d, root)
      BY <2>1 DEF Covered, Places
    <2> QED
      BY <2>1, <2>3, <2>4, <2>5 DEF Places
  <1> QED
    BY <1>1, <1>2, WatchMoves

\* An event leaves the queue when its directory is watched or has been given a
\* watcher, or when the places are taken; both last.
LEMMA RecordedStep == HookInv /\ [Next]_vars => RecordedWatched'
  <1> SUFFICES ASSUME HookInv, [Next]_vars
               PROVE  RecordedWatched'
    OBVIOUS
  <1> USE DEF HookInv
  <1>1. /\ roots \subseteq roots'
        /\ Cardinality(dynamic) = MaxDynamic => Cardinality(dynamic') = MaxDynamic
    BY PlacesStep
  <1>2. \A d : Covered(d) => Covered(d)'
    BY <1>1 DEF Covered
  <1>3. SUFFICES ASSUME NEW r \in Range(events'), r \notin Range(queue'),
                        up', NEW d \in Dirs \ Unwatchable, wrote'[r] = d
                 PROVE  Covered(d)' \/ Cardinality(dynamic') = MaxDynamic
    BY DEF RecordedWatched
  <1>4. ASSUME r \in Range(events), r \notin Range(queue), up, wrote[r] = d
        PROVE  Covered(d)' \/ Cardinality(dynamic') = MaxDynamic
    BY <1>1, <1>2, <1>3, <1>4 DEF RecordedWatched
  <1>5. CASE Record
    <2>1. /\ queue # <<>> /\ queue' = Tail(queue) /\ events' = events
          /\ wrote' = wrote /\ up
      BY <1>5 DEF Record
    <2>2. Range(queue) = Range(queue') \cup {Head(queue)}
      BY <2>1, RangeTail DEF TypeOK
    <2>3. CASE r # Head(queue)
      BY <1>3, <1>4, <2>1, <2>2, <2>3
    <2>4. CASE r = Head(queue)
      <3>1. CASE Covered(d)
        BY <1>2, <2>1, <3>1
      <3>2. CASE ~Covered(d) /\ Room
        <4>1. roots' = roots \cup {d}
          BY <1>3, <1>5, <2>1, <2>4, <3>2 DEF Record
        <4> QED
          BY <2>1, <4>1 DEF Covered, Under
      <3>3. CASE ~Room
        BY <1>1, <3>3, FS_CardinalityType, MaxDynamicAssumption DEF Places, Room
      <3> QED
        BY <3>1, <3>2, <3>3
    <2> QED
      BY <2>3, <2>4
  <1>6. CASE Dies
    BY <1>3, <1>6 DEF Dies
  <1>7. ASSUME NEW w \in Dirs \cup {NoWrite}, Fire(w)
        PROVE  wrote[r] = wrote'[r] /\ events' = events /\ queue' = queue /\ up' = up
    <2>1. /\ events' = events /\ queue' = queue /\ up' = up /\ server' = server
          /\ \E q \in Fires : client[q] = "new" /\ wrote' = [wrote EXCEPT ![q] = w]
      BY <1>7 DEF Fire
    <2>2. r \in Fires /\ server[r] = "ok"
      BY <1>3, <2>1 DEF TypeOK, HandledOnce, Range
    <2> QED
      BY <2>1, <2>2 DEF TypeOK, HandledOnce
  <1>8. ASSUME NEW q \in Fires, Handle(q)
        PROVE  wrote' = wrote /\ up' = up /\ r \in Range(events) /\ r \notin Range(queue)
    <2>1. wrote' = wrote /\ up' = up
      BY <1>8 DEF Handle
    <2>2. CASE Parses(q)
      <3>1. queue' = Append(queue, q) /\ events' = Append(events, q)
        BY <1>8, <2>2 DEF Handle
      <3>2. /\ Range(events') = Range(events) \cup {q}
            /\ Range(queue') = Range(queue) \cup {q}
        BY <3>1, RangeAppend DEF TypeOK
      <3> QED
        BY <1>3, <2>1, <3>2
    <2>3. CASE ~Parses(q)
      BY <1>3, <1>8, <2>1, <2>3 DEF Handle
    <2> QED
      BY <2>2, <2>3
  <1>9. ASSUME NEW q \in Fires,
               ScriptFails(q) \/ Send(q) \/ RestArrives(q) \/ GiveUp(q) \/ Answer(q)
        PROVE  UNCHANGED <<wrote, events, queue, up>>
    BY <1>9 DEF ScriptFails, Send, RestArrives, GiveUp, Answer
  <1>10. ASSUME NEW w \in Dirs, WatcherEnds(w)
         PROVE  UNCHANGED <<wrote, events, queue, up>>
    BY <1>10 DEF WatcherEnds, path
  <1>11. CASE UNCHANGED vars
    BY <1>3, <1>4, <1>11 DEF vars, path
  <1> QED
    BY <1>3, <1>4, <1>5, <1>6, <1>7, <1>8, <1>9, <1>10, <1>11 DEF Next

-----------------------------------------------------------------------------
(* The theorems.                                                           *)

\* A request gives its event once, whatever becomes of its script and of the
\* daemon, and what the drain loop recorded of _maybe_watch_created_path's
\* writes found a root or the places taken.
THEOREM HookInvariant == Spec => []HookInv
  <1>1. HookInv /\ [Next]_vars => HookInv'
    BY TypeStep, HandledStep, PlacesStep, RecordedStep DEF HookInv
  <1> QED
    BY HookInit, <1>1, PTL DEF Spec

\* WritesWatchedOnce of HookPath: one event per run, no answer of 200 without it,
\* no more dynamic watchers than _MAX_DYNAMIC_WATCHERS, none of them under a
\* watched root, and every recorded write covered while there is a place.
THEOREM WritesWatchedOnceThm == Spec => []WritesWatchedOnce
  <1>1. HookInv => WritesWatchedOnce
    BY DEF HookInv, HandledOnce, Places, RecordedWatched, WritesWatchedOnce
  <1> QED
    BY <1>1, HookInvariant, PTL

-----------------------------------------------------------------------------
(* II. The settings file (HookSettings).                                   *)

Bucket == [cia : {0, 1}, own : {"none", "some"}]
Contents == [state : {"absent", "ok", "torn"}, other : Nat, buckets : [Hooks -> Bucket]]
Doing == [op : {"none", "install", "uninstall", "edit"},
          at : {"rest", "scripts", "begun", "read", "open"}, read : Contents]

\* What a file, and what a process has read of it, may be: no bucket lists cia's
\* script twice.
SettingsTypeOK ==
    /\ file \in Contents
    /\ doing \in [Actors -> Doing]
    /\ begun \in Nat
    /\ last \in {"install", "uninstall"}
    /\ clash \in BOOLEAN

\* The places of an operation: one that is at rest is nowhere, and only cia opens the
\* file in place.
DoingPlaces ==
    \A p \in Actors :
        /\ doing[p].at = "rest" <=> doing[p] = Resting
        /\ doing[p].at = "open" => doing[p].op \in {"install", "uninstall"}
        /\ doing[p].at # "rest" => doing[p].op # "none"

\* As long as nothing overlapped and nothing was killed with the file open, one
\* process at most is at work.
OneAtWork ==
    ~clash => \A p, q \in Actors : doing[p] # Resting /\ doing[q] # Resting => p = q

\* f holds what the owners wanted, and cia's script as the command op left it.
Kept(f, theirs, op) == /\ TheirsIn(f) = theirs
                       /\ \A h \in Hooks : f.buckets[h].cia = 1 <=> op = "install"

\* The contents that the owners and cia left are in the file, or with the process
\* that has it open; and what a process has read is what is still there.
SomebodyKeeps ==
    ~clash =>
        /\ (\A p \in Actors : doing[p].at # "open") => file.state # "torn" /\ Kept(file, wanted, last)
        /\ file.state = "absent" => Kept(Nothing, wanted, last)
        /\ \A p \in Actors : doing[p].at \in {"read", "open"} => Kept(doing[p].read, wanted, last)

SettingsInv == SettingsTypeOK /\ DoingPlaces /\ OneAtWork /\ SomebodyKeeps

\* Resting and Nothing are what they look like.
LEMMA NothingType ==
    /\ Nothing \in Contents /\ Nothing.state = "absent"
    /\ Resting \in Doing /\ Resting.at = "rest" /\ Resting.op = "none"
    /\ Torn \in Contents /\ Torn.state = "torn"
  <1>1. Nothing \in Contents /\ Nothing.state = "absent"
    BY DEF Nothing, Contents, Bucket
  <1>2. Resting \in Doing /\ Resting.at = "rest" /\ Resting.op = "none"
    BY <1>1 DEF Resting, Doing
  <1>3. Torn \in Contents /\ Torn.state = "torn"
    BY <1>1 DEF Torn, Contents
  <1> QED
    BY <1>1, <1>2, <1>3

\* Nobody is at work at the start, and there is no file.
LEMMA SettingsInit == InitSettings => SettingsInv
  <1> SUFFICES ASSUME InitSettings
               PROVE  SettingsInv
    OBVIOUS
  <1> USE NothingType DEF InitSettings
  <1>1. SettingsTypeOK
    BY DEF SettingsTypeOK
  <1>2. DoingPlaces /\ OneAtWork
    BY DEF DoingPlaces, OneAtWork
  <1>3. Kept(Nothing, wanted, last)
    BY DEF Kept, Nothing
  <1>4. SomebodyKeeps
    BY <1>3 DEF SomebodyKeeps
  <1> QED
    BY <1>1, <1>2, <1>4 DEF SettingsInv

\* What a command of cia writes: the settings of others as it read them, and its
\* script in every bucket once, or in none.
LEMMA ComputedKeeps ==
    ASSUME SettingsTypeOK, NEW p \in Actors, doing[p].op \in {"install", "uninstall"}
    PROVE  /\ Computed(p) \in Contents
           /\ Computed(p).state = "ok"
           /\ TheirsIn(Computed(p)) = TheirsIn(doing[p].read)
           /\ \A h \in Hooks : Computed(p).buckets[h].cia = 1 <=> doing[p].op = "install"
  <1> DEFINE r == doing[p].read
             b == [h \in Hooks |-> IF doing[p].op = "install" THEN WithEntry(r.buckets[h])
                                  ELSE WithoutEntry(r.buckets[h])]
  <1>1. r \in Contents
    BY DEF SettingsTypeOK, Doing
  <1>2. ASSUME NEW h \in Hooks
        PROVE  /\ b[h] \in Bucket /\ b[h].own = r.buckets[h].own
               /\ b[h].cia = 1 <=> doing[p].op = "install"
    <2>1. r.buckets[h] \in Bucket
      BY <1>1 DEF Contents
    <2>2. CASE doing[p].op = "install"
      <3>1. b[h] = IF r.buckets[h].cia > 0 THEN r.buckets[h]
                   ELSE [r.buckets[h] EXCEPT !.cia = r.buckets[h].cia + 1]
        BY <2>2 DEF WithEntry
      <3> QED
        BY <2>1, <2>2, <3>1 DEF Bucket
    <2>3. CASE doing[p].op # "install"
      <3>1. b[h] = [r.buckets[h] EXCEPT !.cia = 0]
        BY <2>3 DEF WithoutEntry
      <3> QED
        BY <2>1, <2>3, <3>1 DEF Bucket
    <2> QED
      BY <2>2, <2>3
  <1>3. b \in [Hooks -> Bucket]
    BY <1>2
  <1>4. Computed(p) = [r EXCEPT !.state = "ok", !.buckets = b]
    BY <1>1 DEF Computed, Contents
  <1> HIDE DEF b
  <1>5. Computed(p) = [state |-> "ok", other |-> r.other, buckets |-> b]
    BY <1>1, <1>4 DEF Contents
  <1>6. Computed(p) \in Contents /\ Computed(p).state = "ok"
    BY <1>1, <1>3, <1>5 DEF Contents
  <1>7. TheirsIn(Computed(p)) = TheirsIn(r)
    BY <1>2, <1>5 DEF TheirsIn
  <1> QED
    BY <1>2, <1>5, <1>6, <1>7

\* What somebody else writes keeps cia's entries.
LEMMA EditKeeps ==
    ASSUME SettingsTypeOK, NEW p \in Actors, Edit(p)
    PROVE  /\ file' \in Contents /\ file'.state = "ok"
           /\ \A h \in Hooks : file'.buckets[h].cia = doing[p].read.buckets[h].cia
  <1> DEFINE r == doing[p].read
  <1>1. r \in Contents
    BY DEF SettingsTypeOK, Doing
  <1>2. PICK g \in Hooks, own \in {"none", "some"} :
            file' = [r EXCEPT !.state = "ok", !.other = begun, !.buckets[g].own = own]
    BY DEF Edit
  <1>3. file' = [state |-> "ok", other |-> begun,
                 buckets |-> [r.buckets EXCEPT ![g] = [r.buckets[g] EXCEPT !.own = own]]]
    BY <1>1, <1>2 DEF Contents
  <1> DEFINE b == [r.buckets EXCEPT ![g] = [r.buckets[g] EXCEPT !.own = own]]
  <1>4. /\ b \in [Hooks -> Bucket]
        /\ \A h \in Hooks : b[h].cia = r.buckets[h].cia
    <2>1. r.buckets \in [Hooks -> Bucket]
      BY <1>1 DEF Contents
    <2>2. r.buckets[g] \in Bucket
      BY <2>1
    <2>3. [r.buckets[g] EXCEPT !.own = own] \in Bucket
          /\ [r.buckets[g] EXCEPT !.own = own].cia = r.buckets[g].cia
      BY <2>2 DEF Bucket
    <2>4. \A h \in Hooks : b[h] = IF h = g THEN [r.buckets[g] EXCEPT !.own = own] ELSE r.buckets[h]
      BY <2>1
    <2> QED
      BY <2>1, <2>3, <2>4
  <1>5. file' = [state |-> "ok", other |-> begun, buckets |-> b]
    BY <1>3
  <1> HIDE DEF b
  <1>6. begun \in Nat
    BY DEF SettingsTypeOK
  <1> QED
    BY <1>4, <1>5, <1>6 DEF Contents

-----------------------------------------------------------------------------

\* Every step keeps the types of the settings.
LEMMA SettingsTypeStep ==
    SettingsTypeOK /\ DoingPlaces /\ [NextSettings]_settings => SettingsTypeOK'
  <1> SUFFICES ASSUME SettingsTypeOK, DoingPlaces, [NextSettings]_settings
               PROVE  SettingsTypeOK'
    OBVIOUS
  <1> USE NothingType DEF SettingsTypeOK
  <1>1. ASSUME NEW p \in Actors, NEW op \in {"install", "uninstall", "edit"}, Begin(p, op)
        PROVE  SettingsTypeOK'
    <2> DEFINE d == [op |-> op, read |-> Nothing,
                     at |-> IF op = "install" THEN "scripts" ELSE "begun"]
    <2>1. d \in Doing
      BY DEF Doing
    <2>2. doing' = [doing EXCEPT ![p] = d]
      BY <1>1 DEF Begin
    <2>3. file' = file /\ begun' = begun + 1 /\ last' = last /\ clash' \in BOOLEAN
      BY <1>1 DEF Begin
    <2> HIDE DEF d
    <2> QED
      BY <2>1, <2>2, <2>3
  <1>2. ASSUME NEW p \in Actors, ScriptsWritten(p)
        PROVE  SettingsTypeOK'
    <2>1. [doing[p] EXCEPT !.at = "begun"] \in Doing
      BY DEF Doing
    <2> QED
      BY <1>2, <2>1 DEF ScriptsWritten
  <1>3. ASSUME NEW p \in Actors, Read(p)
        PROVE  SettingsTypeOK'
    <2> DEFINE r == IF file.state = "ok" THEN file ELSE Nothing
    <2>1. [doing[p] EXCEPT !.at = "read", !.read = r] \in Doing
      BY DEF Doing
    <2>2. \/ doing' = [doing EXCEPT ![p] = Resting]
          \/ doing' = [doing EXCEPT ![p] = [doing[p] EXCEPT !.at = "read", !.read = r]]
      BY <1>3 DEF Read
    <2> HIDE DEF r
    <2> QED
      BY <1>3, <2>1, <2>2 DEF Read
  <1>4. ASSUME NEW p \in Actors, Truncate(p)
        PROVE  SettingsTypeOK'
    <2>1. [doing[p] EXCEPT !.at = "open"] \in Doing
      BY DEF Doing
    <2> QED
      BY <1>4, <2>1 DEF Truncate
  <1>5. ASSUME NEW p \in Actors, WriteText(p)
        PROVE  SettingsTypeOK'
    <2>1. doing[p].op \in {"install", "uninstall"}
      BY <1>5 DEF WriteText, DoingPlaces
    <2>2. Computed(p) \in Contents
      BY <2>1, ComputedKeeps
    <2> QED
      BY <1>5, <2>1, <2>2 DEF WriteText
  <1>6. ASSUME NEW p \in Actors, Edit(p)
        PROVE  SettingsTypeOK'
    <2>1. file' \in Contents
      BY <1>6, EditKeeps
    <2> QED
      BY <1>6, <2>1 DEF Edit
  <1>7. ASSUME NEW p \in Actors, Kill(p)
        PROVE  SettingsTypeOK'
    BY <1>7 DEF Kill
  <1>8. CASE UNCHANGED settings
    BY <1>8 DEF settings
  <1> QED
    BY <1>1, <1>2, <1>3, <1>4, <1>5, <1>6, <1>7, <1>8 DEF NextSettings

\* A process goes from one place to the next.
LEMMA DoingPlacesStep ==
    SettingsTypeOK /\ DoingPlaces /\ [NextSettings]_settings => DoingPlaces'
  <1> SUFFICES ASSUME SettingsTypeOK, DoingPlaces, [NextSettings]_settings
               PROVE  DoingPlaces'
    OBVIOUS
  <1> USE NothingType DEF SettingsTypeOK, DoingPlaces
  <1>1. ASSUME NEW p \in Actors, NEW op \in {"install", "uninstall", "edit"}, Begin(p, op)
        PROVE  DoingPlaces'
    <2> DEFINE d == [op |-> op, read |-> Nothing,
                     at |-> IF op = "install" THEN "scripts" ELSE "begun"]
    <2>1. d.at \notin {"rest", "open"} /\ d # Resting /\ d.op # "none"
      BY DEF Resting
    <2>2. doing' = [doing EXCEPT ![p] = d]
      BY <1>1 DEF Begin
    <2> HIDE DEF d
    <2> QED
      BY <2>1, <2>2
  <1>2. ASSUME NEW p \in Actors, ScriptsWritten(p)
        PROVE  DoingPlaces'
    <2> DEFINE d == [doing[p] EXCEPT !.at = "begun"]
    <2>1. d.at = "begun" /\ d # Resting /\ d.op = doing[p].op
      BY DEF Doing
    <2> QED
      BY <1>2, <2>1 DEF ScriptsWritten
  <1>3. ASSUME NEW p \in Actors, Read(p)
        PROVE  DoingPlaces'
    <2> DEFINE r == IF file.state = "ok" THEN file ELSE Nothing
               d == [doing[p] EXCEPT !.at = "read", !.read = r]
    <2>1. d.at = "read" /\ d # Resting /\ d.op = doing[p].op
      BY DEF Doing
    <2>2. doing[p].op # "none"
      BY <1>3 DEF Read
    <2>3. doing' = [doing EXCEPT ![p] = Resting] \/ doing' = [doing EXCEPT ![p] = d]
      BY <1>3 DEF Read
    <2> HIDE DEF d
    <2> QED
      BY <2>1, <2>2, <2>3
  <1>4. ASSUME NEW p \in Actors, Truncate(p)
        PROVE  DoingPlaces'
    <2> DEFINE d == [doing[p] EXCEPT !.at = "open"]
    <2>1. d.at = "open" /\ d # Resting /\ d.op = doing[p].op
      BY DEF Doing
    <2>2. doing[p].op \in {"install", "uninstall"}
      BY <1>4 DEF Truncate, Doing
    <2>3. doing' = [doing EXCEPT ![p] = d]
      BY <1>4 DEF Truncate
    <2> HIDE DEF d
    <2> QED
      BY <2>1, <2>2, <2>3
  <1>5. ASSUME NEW p \in Actors, WriteText(p) \/ Edit(p) \/ Kill(p)
        PROVE  DoingPlaces'
    <2>1. doing' = [doing EXCEPT ![p] = Resting]
      BY <1>5 DEF WriteText, Edit, Kill
    <2> QED
      BY <2>1
  <1>6. CASE UNCHANGED settings
    BY <1>6 DEF settings
  <1> QED
    BY <1>1, <1>2, <1>3, <1>4, <1>5, <1>6 DEF NextSettings

\* Who begins while another is at work is a clash.
LEMMA OneAtWorkStep ==
    SettingsTypeOK /\ DoingPlaces /\ OneAtWork /\ [NextSettings]_settings => OneAtWork'
  <1> SUFFICES ASSUME SettingsTypeOK, DoingPlaces, OneAtWork, [NextSettings]_settings
               PROVE  OneAtWork'
    OBVIOUS
  <1> USE NothingType DEF SettingsTypeOK, OneAtWork
  <1>1. ASSUME NEW p \in Actors, NEW op \in {"install", "uninstall", "edit"}, Begin(p, op)
        PROVE  OneAtWork'
    <2>1. /\ clash' = (clash \/ \E q \in Actors : doing[q] # Resting)
          /\ \A q \in Actors : q # p => doing'[q] = doing[q]
      BY <1>1 DEF Begin
    <2> QED
      BY <2>1
  <1>2. ASSUME NEW p \in Actors, doing[p] # Resting, clash => clash',
               NEW d, doing' = [doing EXCEPT ![p] = d]
        PROVE  OneAtWork'
    BY <1>2
  <1>3. ASSUME NEW p \in Actors, ScriptsWritten(p) \/ Truncate(p)
        PROVE  OneAtWork'
    <2>1. doing[p] # Resting /\ clash' = clash
      BY <1>3 DEF ScriptsWritten, Truncate
    <2>2. \E d : doing' = [doing EXCEPT ![p] = d]
      BY <1>3 DEF ScriptsWritten, Truncate
    <2> QED
      BY <1>2, <2>1, <2>2
  <1>4. ASSUME NEW p \in Actors, Read(p)
        PROVE  OneAtWork'
    <2>1. doing[p] # Resting /\ clash' = clash
      BY <1>4 DEF Read
    <2>2. \E d : doing' = [doing EXCEPT ![p] = d]
      BY <1>4 DEF Read
    <2> QED
      BY <1>2, <2>1, <2>2
  <1>5. ASSUME NEW p \in Actors, WriteText(p) \/ Edit(p) \/ Kill(p)
        PROVE  OneAtWork'
    <2>1. doing' = [doing EXCEPT ![p] = Resting] /\ doing[p] # Resting /\ (clash => clash')
      BY <1>5 DEF WriteText, Edit, Kill
    <2> QED
      BY <1>2, <2>1
  <1>6. CASE UNCHANGED settings
    BY <1>6 DEF settings
  <1> QED
    BY <1>1, <1>3, <1>4, <1>5, <1>6 DEF NextSettings

\* Alone, a process finds what was left, takes it with it, and leaves it again.
LEMMA KeepsStep == SettingsInv /\ [NextSettings]_settings => SomebodyKeeps'
  <1> DEFINE G == /\ (\A p \in Actors : doing'[p].at # "open") =>
                         file'.state # "torn" /\ Kept(file', wanted', last')
                  /\ file'.state = "absent" => Kept(Nothing, wanted', last')
                  /\ \A p \in Actors : doing'[p].at \in {"read", "open"} =>
                         Kept(doing'[p].read, wanted', last')
  <1> SUFFICES ASSUME SettingsInv, [NextSettings]_settings, ~clash'
               PROVE  G
    BY DEF SomebodyKeeps
  <1> USE NothingType DEF SettingsInv, SettingsTypeOK
  <1>1. ~clash
    BY DEF NextSettings, settings, Begin, ScriptsWritten, Read, Truncate, WriteText, Edit, Kill
  <1>2. /\ (\A p \in Actors : doing[p].at # "open") =>
               file.state # "torn" /\ Kept(file, wanted, last)
        /\ file.state = "absent" => Kept(Nothing, wanted, last)
        /\ \A p \in Actors : doing[p].at \in {"read", "open"} =>
               Kept(doing[p].read, wanted, last)
    BY <1>1 DEF SomebodyKeeps
  <1>3. ASSUME NEW p \in Actors, doing[p].at # "rest"
        PROVE  \A q \in Actors : q # p => doing[q] = Resting
    BY <1>1, <1>3 DEF OneAtWork
  <1>4. ASSUME NEW p \in Actors, NEW d, doing' = [doing EXCEPT ![p] = d],
               doing[p].at # "open", d.at \notin {"read", "open"},
               file' = file, wanted' = wanted, last' = last
        PROVE  G
    <2>1. \A q \in Actors : doing'[q] = IF q = p THEN d ELSE doing[q]
      BY <1>4
    <2>2. (\A q \in Actors : doing'[q].at # "open") => \A q \in Actors : doing[q].at # "open"
      BY <1>4, <2>1
    <2>3. \A q \in Actors : doing'[q].at \in {"read", "open"} => doing'[q] = doing[q]
      BY <1>4, <2>1
    <2> QED
      BY <1>2, <1>4, <2>2, <2>3
  <1>5. ASSUME NEW p \in Actors, NEW op \in {"install", "uninstall", "edit"}, Begin(p, op)
        PROVE  G
    <2> DEFINE d == [op |-> op, read |-> Nothing,
                     at |-> IF op = "install" THEN "scripts" ELSE "begun"]
    <2>1. doing' = [doing EXCEPT ![p] = d] /\ doing[p].at # "open"
      BY <1>5 DEF Begin
    <2>2. d.at \notin {"read", "open"}
      OBVIOUS
    <2>3. file' = file /\ wanted' = wanted /\ last' = last
      BY <1>5 DEF Begin
    <2> HIDE DEF d, G
    <2> QED
      BY <1>4, <2>1, <2>2, <2>3
  <1>6. ASSUME NEW p \in Actors, ScriptsWritten(p)
        PROVE  G
    <2> DEFINE d == [doing[p] EXCEPT !.at = "begun"]
    <2>1. doing' = [doing EXCEPT ![p] = d] /\ doing[p].at # "open"
      BY <1>6 DEF ScriptsWritten
    <2>2. d.at \notin {"read", "open"}
      BY DEF Doing
    <2>3. file' = file /\ wanted' = wanted /\ last' = last
      BY <1>6 DEF ScriptsWritten
    <2> HIDE DEF d, G
    <2> QED
      BY <1>4, <2>1, <2>2, <2>3
  <1>7. ASSUME NEW p \in Actors, Read(p)
        PROVE  G
    <2> DEFINE r == IF file.state = "ok" THEN file ELSE Nothing
               d == [doing[p] EXCEPT !.at = "read", !.read = r]
    <2>1. /\ doing[p].at = "begun"
          /\ file' = file /\ wanted' = wanted /\ last' = last
          /\ doing' = [doing EXCEPT ![p] = Resting] \/ doing' = [doing EXCEPT ![p] = d]
      BY <1>7 DEF Read
    <2>2. CASE doing' = [doing EXCEPT ![p] = Resting]
      <3> HIDE DEF G
      <3> QED
        BY <1>4, <2>1, <2>2
    <2>3. CASE doing' = [doing EXCEPT ![p] = d]
      <3>1. d.at = "read" /\ d.read = r
        BY DEF Doing
      <3>2. \A q \in Actors : doing[q].at # "open"
        BY <1>3, <2>1
      <3>3. Kept(file, wanted, last) /\ file.state # "torn" /\ Kept(r, wanted, last)
        BY <1>2, <3>2 DEF Contents
      <3> HIDE DEF d, r
      <3>4. \A q \in Actors : doing'[q] = IF q = p THEN d ELSE Resting
        BY <1>3, <2>1, <2>3
      <3> QED
        BY <1>2, <2>1, <3>1, <3>3, <3>4
    <2> QED
      BY <2>1, <2>2, <2>3
  <1>8. ASSUME NEW p \in Actors, Truncate(p)
        PROVE  G
    <2> DEFINE d == [doing[p] EXCEPT !.at = "open"]
    <2>1. /\ doing[p].at = "read" /\ doing' = [doing EXCEPT ![p] = d]
          /\ file' = Torn /\ wanted' = wanted /\ last' = last
      BY <1>8 DEF Truncate
    <2>2. d.at = "open" /\ d.read = doing[p].read
      BY DEF Doing
    <2> HIDE DEF d
    <2>3. \A q \in Actors : doing'[q] = IF q = p THEN d ELSE Resting
      BY <1>3, <2>1
    <2> QED
      BY <1>2, <2>1, <2>2, <2>3
  <1>9. ASSUME NEW p \in Actors, doing[p].at # "rest", doing' = [doing EXCEPT ![p] = Resting],
               file'.state = "ok", Kept(file', wanted', last')
        PROVE  G
    <2>1. \A q \in Actors : doing'[q] = Resting
      BY <1>3, <1>9
    <2> QED
      BY <1>9, <2>1
  <1>10. ASSUME NEW p \in Actors, WriteText(p)
         PROVE  G
    <2>1. /\ doing[p].at = "open" /\ doing' = [doing EXCEPT ![p] = Resting]
          /\ file' = Computed(p) /\ last' = doing[p].op /\ wanted' = wanted
      BY <1>10 DEF WriteText
    <2>2. doing[p].op \in {"install", "uninstall"}
      BY <2>1 DEF DoingPlaces
    <2>3. Kept(doing[p].read, wanted, last)
      BY <1>2, <2>1
    <2>4. Kept(Computed(p), wanted', last') /\ Computed(p).state = "ok"
      BY <2>1, <2>2, <2>3, ComputedKeeps DEF Kept
    <2> HIDE DEF G
    <2> QED
      BY <1>9, <2>1, <2>4
  <1>11. ASSUME NEW p \in Actors, Edit(p)
         PROVE  G
    <2>1. /\ doing[p].at = "read" /\ doing' = [doing EXCEPT ![p] = Resting]
          /\ wanted' = TheirsIn(file') /\ last' = last
      BY <1>11 DEF Edit, TheirsIn
    <2>2. Kept(doing[p].read, wanted, last)
      BY <1>2, <2>1
    <2>3. Kept(file', wanted', last') /\ file'.state = "ok"
      BY <1>11, <2>1, <2>2, EditKeeps DEF Kept
    <2> HIDE DEF G
    <2> QED
      BY <1>9, <2>1, <2>3
  <1>12. ASSUME NEW p \in Actors, Kill(p)
         PROVE  G
    <2>1. doing' = [doing EXCEPT ![p] = Resting] /\ doing[p].at # "open"
      BY <1>12 DEF Kill
    <2>2. file' = file /\ wanted' = wanted /\ last' = last
      BY <1>12 DEF Kill
    <2> HIDE DEF G
    <2> QED
      BY <1>4, <2>1, <2>2
  <1>13. CASE UNCHANGED settings
    BY <1>2, <1>13 DEF settings
  <1> HIDE DEF G
  <1> QED
    BY <1>5, <1>6, <1>7, <1>8, <1>10, <1>11, <1>12, <1>13 DEF NextSettings

\* The settings file of install_hooks and uninstall_hooks, for any processes, hooks
\* and number of changes: one process at most is at work without a clash, and
\* what others and cia left is in the file or with the process that has it open.
THEOREM SettingsInvariant == SpecSettings => []SettingsInv
  <1>1. SettingsInv /\ [NextSettings]_settings => SettingsInv'
    BY SettingsTypeStep, DoingPlacesStep, OneAtWorkStep, KeepsStep DEF SettingsInv
  <1> QED
    BY SettingsInit, <1>1, PTL DEF SpecSettings

\* SettingsKept of HookSettings: no bucket lists cia's script twice, and without a
\* clash the settings are as their owners left them and the script is in every
\* bucket or in none.
THEOREM SettingsKeptThm == SpecSettings => []SettingsKept
  <1>1. SettingsInv => SettingsKept
    <2> SUFFICES ASSUME SettingsInv  PROVE  SettingsKept
      OBVIOUS
    <2>1. \A h \in Hooks : file.buckets[h].cia <= 1
      <3>1. file \in Contents
        BY DEF SettingsInv, SettingsTypeOK
      <3> SUFFICES ASSUME NEW h \in Hooks  PROVE  file.buckets[h].cia <= 1
        OBVIOUS
      <3>2. file.buckets[h] \in Bucket
        BY <3>1 DEF Contents
      <3>3. file.buckets[h].cia \in {0, 1}
        BY <3>2 DEF Bucket
      <3> QED
        BY <3>3
    <2> QED
      BY <2>1 DEF SettingsInv, SomebodyKeeps, Kept, SettingsKept
  <1> QED
    BY <1>1, SettingsInvariant, PTL

-----------------------------------------------------------------------------
(* III. What Claude Code's cost counter comes to (Telemetry).              *)

Export == [ts : Nat, value : Nat, given : BOOLEAN, tries : Nat]

TelemetryTypeOK ==
    /\ asked \in {"delta", "cumulative"} /\ recorded \in BOOLEAN /\ repeated \in BOOLEAN
    /\ clock \in Nat
    /\ turns \in Seq(Nat) /\ spent \in Seq(Nat) /\ Len(spent) = Len(turns) + 1
    /\ counter \in Nat /\ collected \in Nat /\ collected <= counter
    /\ inflight \in SUBSET Export /\ IsFiniteSet(inflight)
    /\ points \in Seq([ts : Nat, value : Nat])
    /\ missing \in Nat /\ resumes \in Nat

OneEach(S) == \A b, c \in S : b.ts = c.ts => b = c

\* Prompts and collections have times of their own, none of them to come; a retried
\* export is still one export.
InOrder ==
    /\ \A j, k \in 1..Len(turns) : j < k => turns[j] < turns[k]
    /\ \A k \in 1..Len(turns) : turns[k] <= clock
    /\ \A i \in 1..Len(points) : points[i].ts <= clock
    /\ \A b \in inflight : b.ts <= clock
    /\ OneEach(inflight)

TelemetryBase == TelemetryTypeOK /\ InOrder

\* What was spent before the k-th prompt.
SpentBy(k) == SumFunctionOnSet(spent, 1..k)

\* What the readings of a list come to, of those collected before a time, and what
\* the exports of a set would deliver of that, had they not been delivered.
WorthOf(p, T) == SumFunctionOnSet([i \in DOMAIN p |-> p[i].value], {i \in DOMAIN p : p[i].ts < T})
Worth(T) == WorthOf(points, T)

Amounts == [b \in Export |-> b.value]
OwedOnes(S, T) == {b \in S : ~b.given /\ b.ts < T}
OwedOf(S, T) == SumFunctionOnSet(Amounts, OwedOnes(S, T))
Owed(T) == OwedOf(inflight, T)

\* Increments, each delivered once: what is recorded, owed, given up and not yet
\* collected is what was spent, and nothing of it was collected before it was spent.
DeltaInv ==
    asked = "delta" /\ ~repeated =>
        /\ \A T \in Nat : T > clock =>
               Worth(T) + Owed(T) + missing + (counter - collected) = SpentBy(Len(spent))
        /\ \A k \in 1..Len(turns) : Worth(turns[k]) + Owed(turns[k]) <= SpentBy(k)

\* The counter of one process: a reading is no more than was spent by its time, and
\* later ones are no less.
Reading(x) == [ts |-> x.ts, value |-> x.value]
Readings == {Reading(points[i]) : i \in 1..Len(points)} \cup {Reading(b) : b \in inflight}

CounterInv ==
    asked = "cumulative" /\ resumes = 0 =>
        /\ counter <= SpentBy(Len(spent))
        /\ \A r \in Readings : r.value <= collected
        /\ \A r \in Readings : \A k \in 1..Len(turns) : r.ts < turns[k] => r.value <= SpentBy(k)
        /\ \A r, q \in Readings : r.ts <= q.ts => r.value <= q.value

TelemetryInv == TelemetryBase /\ DeltaInv /\ CounterInv

-----------------------------------------------------------------------------
(* Sums of what was spent, read and owed.                                  *)

\* The first numbers of a list have a sum.
LEMMA Numbers ==
    ASSUME NEW s \in Seq(Nat), NEW k \in 0..Len(s)
    PROVE  /\ IsFiniteSet(1..k) /\ \A i \in 1..k : s[i] \in Int
           /\ SumFunctionOnSet(s, 1..k) \in Nat
  <1>1. IsFiniteSet(1..k) /\ \A i \in 1..k : s[i] \in Nat
    <2>1. k \in Int /\ 1 \in Int
      OBVIOUS
    <2>2. IsFiniteSet(1..k)
      BY ONLY <2>1, FS_Interval
    <2>3. \A i \in 1..k : s[i] \in Nat
      OBVIOUS
    <2> QED
      BY <2>2, <2>3
  <1>2. SumFunctionOnSet(s, 1..k) \in Nat
    BY <1>1, SumType
  <1> QED
    BY <1>1, <1>2

\* The sum of a longer list whose first numbers are the same.
LEMMA NumbersSame ==
    ASSUME NEW s \in Seq(Nat), NEW t, NEW k \in 0..Len(s), \A i \in 1..k : t[i] = s[i]
    PROVE  SumFunctionOnSet(t, 1..k) = SumFunctionOnSet(s, 1..k)
  <1>1. PICK D : D = 1..k
    OBVIOUS
  <1>2. IsFiniteSet(D) /\ \A i \in D : t[i] = s[i]
    BY <1>1, Numbers
  <1> QED
    BY ONLY <1>1, <1>2, SumSame

\* One number more.
LEMMA NumbersNext ==
    ASSUME NEW s \in Seq(Nat), NEW k \in 1..Len(s)
    PROVE  SumFunctionOnSet(s, 1..k) = SumFunctionOnSet(s, 1..(k - 1)) + s[k]
  <1>1. PICK D : D = 1..(k - 1)
    OBVIOUS
  <1>2. k - 1 \in 0..Len(s) /\ k \in 0..Len(s) /\ D \cup {k} = 1..k /\ k \notin D
    BY <1>1
  <1>3. IsFiniteSet(D) /\ \A i \in D \cup {k} : s[i] \in Int
    BY <1>1, <1>2, Numbers
  <1>4. SumFunctionOnSet(s, D \cup {k}) = SumFunctionOnSet(s, D) + s[k]
    BY ONLY <1>2, <1>3, SumAdd
  <1> QED
    BY <1>1, <1>2, <1>4

\* A prompt starts a turn in which nothing is spent yet, ...
LEMMA PromptSpent ==
    ASSUME TelemetryTypeOK, Prompt
    PROVE  /\ spent' \in Seq(Nat) /\ Len(spent') = Len(spent) + 1
           /\ \A k \in 0..Len(spent) : SpentBy(k)' = SpentBy(k)
           /\ SpentBy(Len(spent))' = SpentBy(Len(spent))
  <1>a. spent \in Seq(Nat) /\ spent' = Append(spent, 0)
    BY DEF TelemetryTypeOK, Prompt
  <1>b. spent' \in Seq(Nat) /\ Len(spent) \in Nat
    BY <1>a
  <1>1. PICK s \in Seq(Nat), t \in Seq(Nat), n \in Nat :
            s = spent /\ t = spent' /\ n = Len(s) /\ t = Append(s, 0)
    BY <1>a, <1>b
  <1>2. Len(t) = n + 1 /\ (\A i \in 1..n : t[i] = s[i]) /\ t[n + 1] = 0
    BY <1>1
  <1>3. ASSUME NEW k \in 0..n
        PROVE  SumFunctionOnSet(t, 1..k) = SumFunctionOnSet(s, 1..k)
    <2>1. k \in 0..Len(s) /\ \A i \in 1..k : t[i] = s[i]
      BY <1>1, <1>2, <1>3
    <2> QED
      BY ONLY <1>1, <2>1, NumbersSame
  <1>4. SumFunctionOnSet(t, 1..(n + 1)) = SumFunctionOnSet(s, 1..n)
    <2>1. n + 1 \in 1..Len(t) /\ (n + 1) - 1 = n
      BY <1>2
    <2>2. SumFunctionOnSet(t, 1..(n + 1)) = SumFunctionOnSet(t, 1..n) + 0
      BY <1>1, <1>2, <2>1, NumbersNext
    <2>3. SumFunctionOnSet(t, 1..n) \in Nat
      BY <1>2, Numbers
    <2> QED
      BY <1>1, <1>3, <2>2, <2>3
  <1>5. \A k \in 0..Len(spent) : SpentBy(k)' = SpentBy(k)
    BY <1>1, <1>3 DEF SpentBy
  <1>6. SpentBy(Len(spent))' = SpentBy(Len(spent))
    <2>1. Len(spent)' = n + 1 /\ Len(spent) = n
      BY <1>1, <1>2
    <2> QED
      BY ONLY <1>1, <1>4, <2>1 DEF SpentBy
  <1> QED
    BY <1>1, <1>2, <1>5, <1>6

\* ... and what is spent is spent in the last one.
LEMMA SpendSpent ==
    ASSUME TelemetryTypeOK, Spend
    PROVE  /\ spent' \in Seq(Nat) /\ Len(spent') = Len(spent)
           /\ \A k \in 0..(Len(spent) - 1) : SpentBy(k)' = SpentBy(k)
           /\ SpentBy(Len(spent))' = SpentBy(Len(spent)) + 1
  <1>1. PICK s \in Seq(Nat), n \in Nat \ {0} : s = spent /\ n = Len(s)
    BY DEF TelemetryTypeOK
  <1>2. PICK t : t = [s EXCEPT ![n] = @ + 1] /\ t = spent'
    BY <1>1 DEF Spend
  <1>3. /\ t \in Seq(Nat) /\ Len(t) = n
        /\ (\A i \in 1..(n - 1) : t[i] = s[i]) /\ t[n] = s[n] + 1
    <2>1. s \in [1..n -> Nat]
      BY <1>1
    <2>2. t \in [1..n -> Nat] /\ (\A i \in 1..(n - 1) : t[i] = s[i]) /\ t[n] = s[n] + 1
      BY <1>2, <2>1
    <2>3. t \in Seq(Nat)
      BY <2>2, SeqDef
    <2> QED
      BY <2>2, <2>3
  <1>4. ASSUME NEW k \in 0..(n - 1)
        PROVE  SumFunctionOnSet(t, 1..k) = SumFunctionOnSet(s, 1..k)
    <2>1. k \in 0..Len(s) /\ \A i \in 1..k : t[i] = s[i]
      BY <1>1, <1>3, <1>4
    <2> QED
      BY ONLY <1>1, <2>1, NumbersSame
  <1>5. SumFunctionOnSet(t, 1..n) = SumFunctionOnSet(s, 1..n) + 1
    <2>1. n \in 1..Len(t) /\ n \in 1..Len(s) /\ n - 1 \in 0..(n - 1) /\ n - 1 \in 0..Len(s)
      BY <1>1, <1>3
    <2>c. SumFunctionOnSet(s, 1..(n - 1)) \in Nat
      BY ONLY s \in Seq(Nat), <2>1, Numbers
    <2>d. s[n] \in Nat
      BY ONLY s \in Seq(Nat), <2>1
    <2>2. PICK a \in Nat, b \in Nat : a = SumFunctionOnSet(s, 1..(n - 1)) /\ b = s[n]
      BY ONLY <2>c, <2>d
    <2>a. SumFunctionOnSet(t, 1..n) = SumFunctionOnSet(t, 1..(n - 1)) + t[n]
      BY ONLY <1>3, <2>1, NumbersNext
    <2>b. SumFunctionOnSet(t, 1..(n - 1)) = a /\ t[n] = b + 1
      BY <1>3, <1>4, <2>1, <2>2
    <2>3. SumFunctionOnSet(t, 1..n) = a + (b + 1)
      BY ONLY <2>a, <2>b
    <2>4. SumFunctionOnSet(s, 1..n) = a + b
      BY <1>1, <2>1, <2>2, NumbersNext
    <2> QED
      BY <2>2, <2>3, <2>4
  <1> QED
    BY <1>1, <1>2, <1>3, <1>4, <1>5 DEF SpentBy

\* What the model adds up is what these sums are.
LEMMA TotalIs ==
    ASSUME NEW S \in SUBSET Export, IsFiniteSet(S)
    PROVE  Total(S) = SumFunctionOnSet(Amounts, S) /\ Total(S) \in Nat
  <1>1. PICK f : f = [b \in S |-> b.value]
    OBVIOUS
  <1>2. \A b \in S : f[b] = Amounts[b] /\ f[b] \in Nat
    BY <1>1 DEF Amounts, Export
  <1>3. SumFunctionOnSet(f, S) = SumFunctionOnSet(Amounts, S)
    BY <1>2, SumSame
  <1>4. SumFunctionOnSet(f, S) \in Nat
    BY <1>2, SumType
  <1>5. Total(S) = SumFunctionOnSet(f, S)
    BY <1>1 DEF Total, SumFunction
  <1> QED
    BY <1>3, <1>4, <1>5

\* One more reading, and one more export.
LEMMA WorthNext ==
    ASSUME NEW p \in Seq([ts : Nat, value : Nat]), NEW r \in [ts : Nat, value : Nat], NEW T \in Nat
    PROVE  /\ WorthOf(p, T) \in Nat
           /\ WorthOf(Append(p, r), T) = WorthOf(p, T) + IF r.ts < T THEN r.value ELSE 0
  <1>1. PICK R : R = [ts : Nat, value : Nat]
    OBVIOUS
  <1>a. p \in Seq(R) /\ r \in R
    BY <1>1
  <1>b. Append(p, r) \in Seq(R) /\ Len(p) \in Nat
    BY ONLY <1>a
  <1>2. PICK n \in Nat, q \in Seq(R) : n = Len(p) /\ q = Append(p, r)
    BY ONLY <1>b
  <1>3. /\ DOMAIN p = 1..n /\ DOMAIN q = 1..(n + 1) /\ q[n + 1] = r
        /\ \A i \in 1..n : q[i] = p[i] /\ p[i] \in R
    BY ONLY <1>a, <1>2
  <1>4. \A x \in R : x.ts \in Nat /\ x.value \in Nat
    BY <1>1
  <1>5. PICK f, S : f = [i \in 1..n |-> p[i].value] /\ S = {i \in 1..n : p[i].ts < T}
    OBVIOUS
  <1>6. PICK h : h = [i \in 1..(n + 1) |-> q[i].value]
    OBVIOUS
  <1>7. /\ IsFiniteSet(S) /\ (\A i \in S : f[i] = h[i] /\ f[i] \in Nat)
        /\ n + 1 \notin S /\ h[n + 1] = r.value
    <2>1. IsFiniteSet(1..n)
      BY FS_Interval
    <2>2. IsFiniteSet(S)
      BY <1>5, <2>1, FS_Subset
    <2> QED
      BY <1>3, <1>4, <1>5, <1>6, <2>2
  <1>8. PICK a \in Nat : a = SumFunctionOnSet(f, S) /\ a = SumFunctionOnSet(h, S)
    BY ONLY <1>7, SumSame, SumType
  <1>9. WorthOf(p, T) = a
    BY <1>3, <1>5, <1>8 DEF WorthOf
  <1>10. PICK U : U = {i \in 1..(n + 1) : q[i].ts < T}
    OBVIOUS
  <1>11. WorthOf(q, T) = SumFunctionOnSet(h, U)
    BY <1>3, <1>6, <1>10 DEF WorthOf
  <1>12. CASE r.ts < T
    <2>1. U = S \cup {n + 1}
      BY <1>3, <1>5, <1>10, <1>12
    <2>a. PICK k : k = n + 1
      OBVIOUS
    <2>b. r.value \in Nat
      BY <1>4, <1>a
    <2>c. IsFiniteSet(S) /\ k \notin S
      BY <1>7, <2>a
    <2>2. \A i \in S \cup {k} : h[i] \in Int
      <3>1. \A i \in S : h[i] \in Nat
        BY ONLY <1>7
      <3>2. h[k] \in Nat
        BY <1>7, <2>a, <2>b
      <3> QED
        BY ONLY <3>1, <3>2
    <2>3. SumFunctionOnSet(h, S \cup {n + 1}) = SumFunctionOnSet(h, S) + h[n + 1]
      <3>1. SumFunctionOnSet(h, S \cup {k}) = SumFunctionOnSet(h, S) + h[k]
        BY ONLY <2>c, <2>2, SumAdd
      <3> QED
        BY <2>a, <3>1
    <2> QED
      BY <1>2, <1>7, <1>8, <1>9, <1>11, <1>12, <2>1, <2>3
  <1>13. CASE ~(r.ts < T)
    <2>1. U = S
      BY <1>3, <1>5, <1>10, <1>13
    <2> QED
      BY <1>2, <1>8, <1>9, <1>11, <1>13, <2>1
  <1> QED
    BY <1>9, <1>12, <1>13

Due(c, T) == IF ~c.given /\ c.ts < T THEN c.value ELSE 0

\* One more export owes what is due of it.
LEMMA OwedNext ==
    ASSUME NEW S \in SUBSET Export, IsFiniteSet(S), NEW c \in Export, c \notin S, NEW T \in Nat
    PROVE  /\ OwedOf(S, T) \in Nat /\ Due(c, T) \in Nat
           /\ OwedOf(S \cup {c}, T) = OwedOf(S, T) + Due(c, T)
  <1>1. \A b \in Export : Amounts[b] = b.value /\ b.value \in Nat
    BY DEF Amounts, Export
  <1>2. PICK O : O = OwedOnes(S, T)
    OBVIOUS
  <1>3. O \subseteq S /\ c \notin O
    BY <1>2 DEF OwedOnes
  <1>4. IsFiniteSet(O) /\ \A b \in O \cup {c} : Amounts[b] \in Nat /\ Amounts[b] \in Int
    BY <1>1, <1>3, FS_Subset
  <1>5. SumFunctionOnSet(Amounts, O) \in Nat
    BY ONLY <1>4, SumType
  <1>6. SumFunctionOnSet(Amounts, O \cup {c}) = SumFunctionOnSet(Amounts, O) + Amounts[c]
    BY ONLY <1>3, <1>4, SumAdd
  <1>7. CASE ~c.given /\ c.ts < T
    <2>1. OwedOnes(S \cup {c}, T) = O \cup {c}
      BY <1>2, <1>7 DEF OwedOnes
    <2> QED
      BY <1>1, <1>2, <1>5, <1>6, <1>7, <2>1 DEF OwedOf, Due
  <1>8. CASE ~(~c.given /\ c.ts < T)
    <2>1. OwedOnes(S \cup {c}, T) = O
      BY <1>2, <1>8 DEF OwedOnes
    <2> QED
      BY <1>2, <1>5, <1>8, <2>1 DEF OwedOf, Due
  <1> QED
    BY <1>7, <1>8

\* The readings are a finite list of times and values.
LEMMA PointsAre ==
    ASSUME TelemetryTypeOK
    PROVE  /\ DOMAIN points = 1..Len(points) /\ Len(points) \in Nat
           /\ IsFiniteSet(DOMAIN points)
           /\ \A i \in 1..Len(points) : points[i].ts \in Nat /\ points[i].value \in Nat
  <1>1. PICK R : R = [ts : Nat, value : Nat]
    OBVIOUS
  <1>2. points \in Seq(R)
    BY <1>1 DEF TelemetryTypeOK
  <1>3. DOMAIN points = 1..Len(points) /\ Len(points) \in Nat
    BY ONLY <1>2
  <1>4. IsFiniteSet(DOMAIN points)
    BY <1>3, FS_Interval
  <1>5. \A i \in 1..Len(points) : points[i] \in R
    BY ONLY <1>2
  <1> QED
    BY <1>1, <1>3, <1>4, <1>5

-----------------------------------------------------------------------------
(* The exports in flight: one each time.                                   *)

\* An export that is retried keeps its time and its value.
Again(b, c, g) == c \in Export /\ c.ts = b.ts /\ c.value = b.value /\ c.given = g

\* An export that is retried is the same but for its mark and its tries.
LEMMA Retrying ==
    ASSUME TelemetryTypeOK, NEW b \in inflight, NEW g \in BOOLEAN, Retried(b, g)
    PROVE  \E c : Again(b, c, g) /\ inflight' = (inflight \ {b}) \cup {c}
  <1>1. b \in [ts : Nat, value : Nat, given : BOOLEAN, tries : Nat]
    BY DEF TelemetryTypeOK, Export
  <1>2. PICK n \in Nat : n = b.tries + 1
    BY <1>1
  <1>3. PICK c : c = [b EXCEPT !.given = g, !.tries = b.tries + 1]
    OBVIOUS
  <1>4. c = [ts |-> b.ts, value |-> b.value, given |-> g, tries |-> n]
    BY <1>1, <1>2, <1>3
  <1>5. Again(b, c, g)
    BY <1>1, <1>4 DEF Again, Export
  <1>6. inflight' = (inflight \ {b}) \cup {c}
    BY <1>3 DEF Retried
  <1> QED
    BY <1>5, <1>6

\* What the exports owe without one of them, and with another of its time.
LEMMA OwedSettled ==
    ASSUME NEW S \in SUBSET Export, IsFiniteSet(S), OneEach(S), NEW b \in S, NEW T \in Nat
    PROVE  /\ OwedOf(S \ {b}, T) \in Nat /\ Due(b, T) \in Nat
           /\ OwedOf(S, T) = OwedOf(S \ {b}, T) + Due(b, T)
           /\ \A c \in Export : c.ts = b.ts =>
                  OwedOf((S \ {b}) \cup {c}, T) = OwedOf(S \ {b}, T) + Due(c, T)
  <1>1. PICK R : R = S \ {b}
    OBVIOUS
  <1>2. R \in SUBSET Export /\ IsFiniteSet(R) /\ b \notin R /\ b \in Export /\ R \cup {b} = S
    BY <1>1, FS_Subset
  <1>3. OwedOf(R, T) \in Nat /\ Due(b, T) \in Nat /\ OwedOf(R \cup {b}, T) = OwedOf(R, T) + Due(b, T)
    BY ONLY <1>2, T \in Nat, OwedNext
  <1>4. ASSUME NEW c \in Export, c.ts = b.ts
        PROVE  OwedOf(R \cup {c}, T) = OwedOf(R, T) + Due(c, T)
    <2>1. c \notin R
      BY <1>1, <1>4 DEF OneEach
    <2> QED
      BY ONLY <1>2, <2>1, T \in Nat, c \in Export, OwedNext
  <1> QED
    BY <1>1, <1>2, <1>3, <1>4

\* They stay one each time, none of them to come.
LEMMA StayEach ==
    ASSUME NEW S \in SUBSET Export, IsFiniteSet(S), OneEach(S), NEW b \in S, NEW t \in Nat,
           \A x \in S : x.ts <= t,
           NEW R, R = S \ {b} \/ \E c \in Export : c.ts = b.ts /\ R = (S \ {b}) \cup {c}
    PROVE  R \in SUBSET Export /\ IsFiniteSet(R) /\ OneEach(R) /\ \A x \in R : x.ts <= t
  <1>1. IsFiniteSet(S \ {b})
    BY FS_Subset
  <1>2. IsFiniteSet(R)
    <2>1. ASSUME NEW c, R = (S \ {b}) \cup {c}  PROVE IsFiniteSet(R)
      <3>1. IsFiniteSet((S \ {b}) \cup {c})
        BY ONLY <1>1, FS_AddElement
      <3> QED
        BY <2>1, <3>1
    <2> QED
      BY <1>1, <2>1
  <1> QED
    BY <1>2 DEF OneEach

-----------------------------------------------------------------------------
(* Types and times, step by step.                                          *)

\* There are no prompts, exports and readings at the start.
LEMMA BaseInit == InitTelemetry => TelemetryBase
  <1> SUFFICES ASSUME InitTelemetry  PROVE TelemetryBase
    OBVIOUS
  <1>1. turns = <<>> /\ spent = <<0>> /\ points = <<>> /\ inflight = {}
    BY DEF InitTelemetry
  <1>2. /\ turns \in Seq(Nat) /\ spent \in Seq(Nat) /\ Len(spent) = Len(turns) + 1
        /\ Len(turns) = 0 /\ Len(points) = 0
    BY <1>1
  <1>3. points \in Seq([ts : Nat, value : Nat])
    BY <1>1
  <1>4. inflight \in SUBSET Export /\ IsFiniteSet(inflight)
    BY <1>1, FS_EmptySet
  <1>a. asked \in {"delta", "cumulative"} /\ recorded \in BOOLEAN /\ repeated \in BOOLEAN
    <2>1. asked \in {"delta", "cumulative"} /\ recorded \in BOOLEAN /\ repeated = FALSE
      BY DEF InitTelemetry
    <2> QED
      BY <2>1
  <1>5. /\ clock \in Nat /\ counter \in Nat /\ collected \in Nat /\ collected <= counter
        /\ missing \in Nat /\ resumes \in Nat
    BY DEF InitTelemetry
  <1>6. InOrder
    BY <1>1, <1>2 DEF InOrder, OneEach
  <1> QED
    BY <1>2, <1>3, <1>4, <1>a, <1>5, <1>6 DEF TelemetryBase, TelemetryTypeOK

\* A prompt is the latest of them.
LEMMA BasePrompt == ASSUME TelemetryBase, Prompt  PROVE TelemetryBase'
  <1>1. PICK n \in Nat, t \in Seq(Nat), u \in Seq(Nat) :
            n = clock /\ t = turns /\ u = Append(turns, n + 1)
    <2>1. clock \in Nat /\ turns \in Seq(Nat)
      BY DEF TelemetryBase, TelemetryTypeOK
    <2>2. clock + 1 \in Nat
      BY <2>1
    <2>3. Append(turns, clock + 1) \in Seq(Nat)
      BY ONLY <2>1, <2>2
    <2> QED
      BY <2>1, <2>3
  <1>2. clock' = n + 1 /\ turns' = u
    BY <1>1 DEF Prompt
  <1>3. /\ Len(u) = Len(t) + 1 /\ Len(t) \in Nat /\ u[Len(t) + 1] = n + 1
        /\ \A k \in 1..Len(t) : u[k] = t[k] /\ t[k] \in Nat
    BY <1>1
  <1>4. UNCHANGED <<asked, recorded, repeated, counter, collected, inflight, points, missing, resumes>>
    BY DEF Prompt, choice, exporter
  <1>5. spent' \in Seq(Nat) /\ Len(spent') = Len(spent) + 1
    BY PromptSpent DEF TelemetryBase
  <1>6. TelemetryTypeOK'
    BY <1>1, <1>2, <1>3, <1>4, <1>5 DEF TelemetryBase, TelemetryTypeOK
  <1>7. InOrder'
    <2>1. /\ \A j, k \in 1..Len(t) : j < k => t[j] < t[k]
          /\ \A k \in 1..Len(t) : t[k] <= n
      BY <1>1 DEF TelemetryBase, InOrder
    <2>a. PICK m \in Nat : m = Len(t)
      BY <1>3
    <2>b. Len(u) = m + 1 /\ u[m + 1] = n + 1 /\ \A k \in 1..m : u[k] = t[k] /\ u[k] <= n /\ u[k] \in Nat
      BY <1>3, <2>1, <2>a
    <2>c. \A k \in 1..Len(u) : u[k] <= n + 1 /\ u[k] \in Nat
      <3> SUFFICES ASSUME NEW k \in 1..Len(u)  PROVE u[k] <= n + 1 /\ u[k] \in Nat
        OBVIOUS
      <3>1. k \in 1..m \/ k = m + 1
        BY <2>b
      <3> QED
        BY ONLY <2>b, <3>1, n \in Nat
    <2>d. ASSUME NEW j \in 1..Len(u), NEW k \in 1..Len(u), j < k
          PROVE  u[j] < u[k]
      <3>1. j \in 1..m /\ (k \in 1..m \/ k = m + 1)
        BY <2>b, <2>d
      <3>2. CASE k \in 1..m
        <4>1. t[j] < t[k]
          BY <2>1, <2>a, <2>d, <3>1, <3>2
        <4> QED
          BY <2>b, <3>1, <3>2, <4>1
      <3>3. CASE k = m + 1
        BY ONLY <2>b, <3>1, <3>3, n \in Nat
      <3> QED
        BY <3>1, <3>2, <3>3
    <2>2. /\ \A j, k \in 1..Len(u) : j < k => u[j] < u[k]
          /\ \A k \in 1..Len(u) : u[k] <= n + 1
      BY <2>c, <2>d
    <2>3. \A i \in 1..Len(points) : points[i].ts <= n + 1
      <3> SUFFICES ASSUME NEW i \in 1..Len(points)  PROVE points[i].ts <= n + 1
        OBVIOUS
      <3>1. points[i].ts <= n /\ points[i].ts \in Nat
        BY <1>1, PointsAre DEF TelemetryBase, InOrder
      <3> QED
        BY <1>1, <3>1
    <2>4. \A b \in inflight : b.ts <= n + 1
      <3> SUFFICES ASSUME NEW b \in inflight  PROVE b.ts <= n + 1
        OBVIOUS
      <3>1. b.ts <= n /\ b.ts \in Nat
        BY <1>1 DEF TelemetryBase, TelemetryTypeOK, InOrder, Export
      <3> QED
        BY <1>1, <3>1
    <2> QED
      BY <1>2, <1>4, <2>2, <2>3, <2>4 DEF TelemetryBase, InOrder
  <1> QED
    BY <1>6, <1>7 DEF TelemetryBase

\* Spending leaves all times alone.
LEMMA BaseSpend == ASSUME TelemetryBase, Spend  PROVE TelemetryBase'
  <1>1. UNCHANGED <<asked, recorded, clock, turns, collected, inflight, points, missing, repeated, resumes>>
    BY DEF Spend, choice
  <1>2. spent' \in Seq(Nat) /\ Len(spent') = Len(spent)
    BY SpendSpent DEF TelemetryBase
  <1>3. counter' \in Nat /\ collected <= counter'
    BY DEF Spend, TelemetryBase, TelemetryTypeOK
  <1>4. TelemetryTypeOK'
    BY <1>1, <1>2, <1>3 DEF TelemetryBase, TelemetryTypeOK
  <1>5. InOrder'
    BY <1>1 DEF TelemetryBase, InOrder
  <1> QED
    BY <1>4, <1>5 DEF TelemetryBase

\* What a collection exports.
Exported == [ts |-> clock + 1, value |-> IF asked = "delta" THEN counter - collected ELSE counter,
             given |-> FALSE, tries |-> 0]

\* A collection adds an export of its own time.
LEMMA Collecting ==
    ASSUME TelemetryBase, Collect
    PROVE  /\ Exported \in Export /\ Exported \notin inflight
           /\ inflight' = inflight \cup {Exported} /\ clock' = clock + 1 /\ clock' \in Nat
           /\ collected' = counter
           /\ Exported.ts = clock + 1 /\ ~Exported.given
           /\ Exported.value = IF asked = "delta" THEN counter - collected ELSE counter
           /\ \A b \in inflight : b.ts <= clock /\ b.ts < clock + 1 /\ b.ts \in Nat
           /\ UNCHANGED <<asked, recorded, turns, spent, counter, points, missing, repeated, resumes>>
  <1>1. clock \in Nat /\ counter \in Nat /\ collected \in Nat /\ collected <= counter
    BY DEF TelemetryBase, TelemetryTypeOK
  <1>2. PICK v \in Nat, t \in Nat : /\ v = IF asked = "delta" THEN counter - collected ELSE counter
                                    /\ t = clock + 1
    <2>1. (IF asked = "delta" THEN counter - collected ELSE counter) \in Nat /\ clock + 1 \in Nat
      BY <1>1
    <2> QED
      BY <2>1
  <1>3. Exported = [ts |-> t, value |-> v, given |-> FALSE, tries |-> 0]
    BY <1>2 DEF Exported
  <1>4. Exported \in Export /\ Exported.ts = t /\ Exported.value = v /\ ~Exported.given
    BY <1>3 DEF Export
  <1>5. \A b \in inflight : b.ts <= clock /\ b.ts < clock + 1 /\ b.ts \in Nat
    <2> SUFFICES ASSUME NEW b \in inflight
                 PROVE  b.ts <= clock /\ b.ts < clock + 1 /\ b.ts \in Nat
      OBVIOUS
    <2>1. b.ts \in Nat /\ b.ts <= clock
      BY DEF TelemetryBase, TelemetryTypeOK, InOrder, Export
    <2> QED
      BY <1>1, <2>1
  <1>6. Exported \notin inflight
    BY <1>1, <1>2, <1>4, <1>5
  <1>7. inflight' = inflight \cup {Exported} /\ clock' = clock + 1 /\ collected' = counter
    BY DEF Collect, Exported
  <1>8. UNCHANGED <<asked, recorded, turns, spent, counter, points, missing, repeated, resumes>>
    BY DEF Collect, choice
  <1> QED
    BY <1>2, <1>4, <1>5, <1>6, <1>7, <1>8

\* A collection is the latest of them.
LEMMA BaseCollect == ASSUME TelemetryBase, Collect  PROVE TelemetryBase'
  <1>1. /\ Exported \in Export
        /\ inflight' = inflight \cup {Exported} /\ clock' = clock + 1 /\ clock' \in Nat
        /\ collected' = counter /\ Exported.ts = clock + 1
        /\ \A b \in inflight : b.ts <= clock /\ b.ts < clock + 1 /\ b.ts \in Nat
        /\ UNCHANGED <<asked, recorded, turns, spent, counter, points, missing, repeated, resumes>>
    BY Collecting
  <1>2. inflight \in SUBSET Export /\ IsFiniteSet(inflight)
    BY DEF TelemetryBase, TelemetryTypeOK
  <1>3. inflight' \in SUBSET Export /\ IsFiniteSet(inflight')
    <2>1. IsFiniteSet(inflight \cup {Exported})
      BY ONLY <1>2, FS_AddElement
    <2> QED
      BY <1>1, <1>2, <2>1
  <1>4. TelemetryTypeOK'
    <2>1. counter \in Nat /\ counter <= counter
      BY DEF TelemetryBase, TelemetryTypeOK
    <2> QED
      BY <1>1, <1>3, <2>1 DEF TelemetryBase, TelemetryTypeOK
  <1>5. OneEach(inflight')
    <2>1. PICK n \in Nat : n = clock + 1
      BY <1>1
    <2>a. PICK e : e = Exported /\ e.ts = n
      BY <1>1, <2>1
    <2>2. \A b \in inflight : b.ts # n /\ b.ts <= n
      BY <1>1, <2>1
    <2>3. inflight' = inflight \cup {e}
      BY <1>1, <2>a
    <2> QED
      BY ONLY <2>a, <2>2, <2>3, TelemetryBase DEF TelemetryBase, InOrder, OneEach
  <1>6. \A b \in inflight' : b.ts <= clock'
    BY <1>1
  <1>7. \A k \in 1..Len(turns) : turns[k] <= clock'
    <2> SUFFICES ASSUME NEW k \in 1..Len(turns)  PROVE turns[k] <= clock'
      OBVIOUS
    <2>a. turns \in Seq(Nat) /\ turns[k] <= clock /\ clock \in Nat
      BY DEF TelemetryBase, TelemetryTypeOK, InOrder
    <2>1. turns[k] \in Nat
      BY ONLY <2>a, k \in 1..Len(turns)
    <2> QED
      BY <1>1, <2>a, <2>1
  <1>8. \A i \in 1..Len(points) : points[i].ts <= clock'
    <2> SUFFICES ASSUME NEW i \in 1..Len(points)  PROVE points[i].ts <= clock'
      OBVIOUS
    <2>1. points[i].ts \in Nat /\ points[i].ts <= clock /\ clock \in Nat
      BY PointsAre DEF TelemetryBase, TelemetryTypeOK, InOrder
    <2> QED
      BY <1>1, <2>1
  <1>9. InOrder'
    BY <1>1, <1>5, <1>6, <1>7, <1>8 DEF TelemetryBase, InOrder
  <1> QED
    BY <1>4, <1>9 DEF TelemetryBase

\* The exports after an answer, a refusal or an end: some of those before, one of them
\* perhaps with a new mark.
LEMMA BaseExports ==
    ASSUME TelemetryBase, NEW b \in inflight,
           \/ inflight' = {}
           \/ inflight' = inflight \ {b}
           \/ \E c : \E g \in BOOLEAN : Again(b, c, g) /\ inflight' = (inflight \ {b}) \cup {c}
    PROVE  /\ inflight' \in SUBSET Export /\ IsFiniteSet(inflight')
           /\ OneEach(inflight') /\ \A x \in inflight' : x.ts <= clock
  <1>1. /\ inflight \in SUBSET Export /\ IsFiniteSet(inflight) /\ OneEach(inflight) /\ clock \in Nat
        /\ \A x \in inflight : x.ts <= clock
    BY DEF TelemetryBase, TelemetryTypeOK, InOrder
  <1>2. CASE inflight' = {}
    BY <1>2, FS_EmptySet DEF OneEach
  <1>3. CASE inflight' # {}
    <2>1. \/ inflight' = inflight \ {b}
          \/ \E c \in Export : c.ts = b.ts /\ inflight' = (inflight \ {b}) \cup {c}
      BY <1>3 DEF Again
    <2> QED
      BY ONLY <1>1, <2>1, b \in inflight, StayEach
  <1> QED
    BY <1>2, <1>3

\* A process that ends leaves no export.
LEMMA BaseResume == ASSUME TelemetryBase, Resume  PROVE TelemetryBase'
  <1>1. /\ UNCHANGED <<asked, recorded, clock, turns, spent, points, repeated>>
        /\ inflight' = {} /\ counter' = 0 /\ collected' = 0 /\ resumes' = resumes + 1
        /\ missing' = missing + (counter - collected) + Total(Undelivered)
    BY DEF Resume, choice
  <1>2. Total(Undelivered) \in Nat
    <2>1. Undelivered \in SUBSET Export /\ IsFiniteSet(Undelivered)
      BY FS_Subset DEF TelemetryBase, TelemetryTypeOK, Undelivered
    <2> QED
      BY ONLY <2>1, TotalIs
  <1>3. missing' \in Nat /\ resumes' \in Nat /\ counter' \in Nat /\ collected' \in Nat /\ collected' <= counter'
    <2>1. missing \in Nat /\ resumes \in Nat /\ counter \in Nat /\ collected \in Nat /\ collected <= counter
      BY DEF TelemetryBase, TelemetryTypeOK
    <2> QED
      BY <1>1, <1>2, <2>1
  <1>4. inflight' \in SUBSET Export /\ IsFiniteSet(inflight') /\ OneEach(inflight')
    BY <1>1, FS_EmptySet DEF OneEach
  <1>5. TelemetryTypeOK'
    BY <1>1, <1>3, <1>4 DEF TelemetryBase, TelemetryTypeOK
  <1>6. InOrder'
    BY <1>1, <1>4 DEF TelemetryBase, InOrder
  <1> QED
    BY <1>5, <1>6 DEF TelemetryBase

\* What becomes of one export.
LEMMA Settling ==
    ASSUME TelemetryBase, NEW b \in inflight, GiveUpExport(b) \/ HandleExport(b) \/ Refuse(b)
    PROVE  /\ \/ inflight' = inflight \ {b}
              \/ \E c : \E g \in BOOLEAN : Again(b, c, g) /\ inflight' = (inflight \ {b}) \cup {c}
           /\ GiveUpExport(b) => inflight' = inflight \ {b}
           /\ HandleExport(b) => \/ inflight' = inflight \ {b}
                                \/ \E c : Again(b, c, TRUE) /\ inflight' = (inflight \ {b}) \cup {c}
           /\ Refuse(b) => \E c : Again(b, c, b.given) /\ inflight' = (inflight \ {b}) \cup {c}
           /\ UNCHANGED <<asked, recorded, clock, turns, spent, counter, collected, resumes>>
  <1>1. TelemetryTypeOK /\ b.given \in BOOLEAN
    BY DEF TelemetryBase, TelemetryTypeOK, Export
  <1>2. UNCHANGED <<asked, recorded, clock, turns, spent, counter, collected, resumes>>
    BY DEF GiveUpExport, HandleExport, Refuse, choice
  <1>3. GiveUpExport(b) => inflight' = inflight \ {b}
    BY DEF GiveUpExport
  <1>4. HandleExport(b) => \/ inflight' = inflight \ {b}
                          \/ \E c : Again(b, c, TRUE) /\ inflight' = (inflight \ {b}) \cup {c}
    BY <1>1, Retrying DEF HandleExport, Answered
  <1>5. Refuse(b) => \E c : Again(b, c, b.given) /\ inflight' = (inflight \ {b}) \cup {c}
    BY <1>1, Retrying DEF Refuse
  <1> QED
    BY <1>1, <1>2, <1>3, <1>4, <1>5

\* Settling an export leaves times as they are.
LEMMA BaseExport ==
    ASSUME TelemetryBase, NEW b \in inflight, GiveUpExport(b) \/ HandleExport(b) \/ Refuse(b)
    PROVE  TelemetryBase'
  <1>1. /\ \/ inflight' = inflight \ {b}
           \/ \E c : \E g \in BOOLEAN : Again(b, c, g) /\ inflight' = (inflight \ {b}) \cup {c}
        /\ UNCHANGED <<asked, recorded, clock, turns, spent, counter, collected, resumes>>
    BY Settling
  <1>2. /\ inflight' \in SUBSET Export /\ IsFiniteSet(inflight')
        /\ OneEach(inflight') /\ \A x \in inflight' : x.ts <= clock
    BY <1>1, BaseExports
  <1>3. b.ts \in Nat /\ b.value \in Nat /\ b.ts <= clock
    BY DEF TelemetryBase, TelemetryTypeOK, InOrder, Export
  <1>4. missing' \in Nat /\ repeated' \in BOOLEAN
    <2>1. missing \in Nat /\ repeated \in BOOLEAN /\ b.given \in BOOLEAN
      BY DEF TelemetryBase, TelemetryTypeOK, Export
    <2>a. PICK x : x = IF b.given THEN 0 ELSE b.value
      OBVIOUS
    <2>b. x \in Nat
      BY <1>3, <2>a
    <2>c. missing' = missing \/ missing' = missing + x
      BY <2>a DEF GiveUpExport, HandleExport, Refuse
    <2>2. missing' \in Nat
      BY <2>1, <2>b, <2>c
    <2>3. repeated' = repeated \/ repeated' = (repeated \/ b.given)
      BY DEF GiveUpExport, HandleExport, Refuse
    <2>4. repeated' \in BOOLEAN
      BY <2>1, <2>3
    <2> QED
      BY <1>3, <2>1, <2>2, <2>4
  <1>5. /\ points' \in Seq([ts : Nat, value : Nat])
        /\ \A i \in 1..Len(points') : points'[i].ts <= clock
    <2>1. PICK R, r : R = [ts : Nat, value : Nat] /\ r = [ts |-> b.ts, value |-> b.value]
      OBVIOUS
    <2>2. points \in Seq(R) /\ r \in R /\ r.ts <= clock
      BY <1>3, <2>1 DEF TelemetryBase, TelemetryTypeOK
    <2>3. points' = points \/ points' = Append(points, r)
      BY <2>1 DEF GiveUpExport, HandleExport, Refuse
    <2>4. points' \in Seq(R)
      BY ONLY <2>2, <2>3
    <2>5. \A i \in 1..Len(points) : points[i].ts <= clock
      BY DEF TelemetryBase, InOrder
    <2>6. \A i \in 1..Len(points') : points'[i].ts <= clock
      BY ONLY <2>2, <2>3, <2>5
    <2> QED
      BY <2>1, <2>4, <2>6
  <1>6. TelemetryTypeOK'
    BY <1>1, <1>2, <1>4, <1>5 DEF TelemetryBase, TelemetryTypeOK
  <1>7. InOrder'
    BY <1>1, <1>2, <1>5 DEF TelemetryBase, InOrder
  <1> QED
    BY <1>6, <1>7 DEF TelemetryBase

\* Types and times are kept.
LEMMA BaseStep == ASSUME TelemetryBase, [NextTelemetry]_telemetry  PROVE TelemetryBase'
  <1>1. CASE Prompt
    BY <1>1, BasePrompt
  <1>2. CASE Spend
    BY <1>2, BaseSpend
  <1>3. CASE Collect
    BY <1>3, BaseCollect
  <1>4. CASE Resume
    BY <1>4, BaseResume
  <1>5. CASE \E b \in inflight : GiveUpExport(b) \/ HandleExport(b) \/ Refuse(b)
    BY <1>5, BaseExport
  <1>6. CASE UNCHANGED telemetry
    BY <1>6 DEF TelemetryBase, TelemetryTypeOK, InOrder, telemetry, choice, exporter
  <1> QED
    BY <1>1, <1>2, <1>3, <1>4, <1>5, <1>6 DEF NextTelemetry

-----------------------------------------------------------------------------
(* Increments: what is recorded, owed, given up and not yet collected is   *)
(* what was spent.                                                         *)

\* All these sums are natural numbers.
LEMMA SumsAre ==
    ASSUME TelemetryTypeOK
    PROVE  /\ \A T \in Nat : Worth(T) \in Nat /\ Owed(T) \in Nat
           /\ \A k \in 0..Len(spent) : SpentBy(k) \in Nat
           /\ \A k \in 1..Len(turns) : turns[k] \in Nat
           /\ Len(turns) \in Nat /\ Len(spent) = Len(turns) + 1
  <1>1. ASSUME NEW T \in Nat  PROVE Worth(T) \in Nat /\ Owed(T) \in Nat
    <2>1. points \in Seq([ts : Nat, value : Nat]) /\ inflight \in SUBSET Export /\ IsFiniteSet(inflight)
      BY DEF TelemetryTypeOK
    <2>2. [ts |-> 0, value |-> 0] \in [ts : Nat, value : Nat]
      OBVIOUS
    <2>3. WorthOf(points, T) \in Nat
      BY ONLY <2>1, <2>2, T \in Nat, WorthNext
    <2>4. OwedOnes(inflight, T) \subseteq inflight
      BY DEF OwedOnes
    <2>5. /\ IsFiniteSet(OwedOnes(inflight, T))
          /\ \A b \in OwedOnes(inflight, T) : Amounts[b] \in Nat
      BY <2>1, <2>4, FS_Subset DEF Amounts, Export
    <2>6. OwedOf(inflight, T) \in Nat
      BY <2>5, SumType DEF OwedOf
    <2> QED
      BY <2>3, <2>6 DEF Worth, Owed
  <1>2. ASSUME NEW k \in 0..Len(spent)  PROVE SpentBy(k) \in Nat
    <2>1. spent \in Seq(Nat)
      BY DEF TelemetryTypeOK
    <2> QED
      BY ONLY <2>1, k \in 0..Len(spent), Numbers DEF SpentBy
  <1>3. turns \in Seq(Nat) /\ Len(spent) = Len(turns) + 1
    BY DEF TelemetryTypeOK
  <1>4. (\A k \in 1..Len(turns) : turns[k] \in Nat) /\ Len(turns) \in Nat
    BY <1>3
  <1> QED
    BY <1>1, <1>2, <1>3, <1>4

\* After the latest reading and export, all are owed that were not delivered.
LEMMA AllOwed ==
    ASSUME TelemetryBase, NEW T \in Nat, T > clock
    PROVE  /\ OwedOnes(inflight, T) = Undelivered /\ Total(Undelivered) = Owed(T)
           /\ \A b \in inflight : b.ts < T
  <1>1. \A b \in inflight : b.ts < T
    <2> SUFFICES ASSUME NEW b \in inflight  PROVE b.ts < T
      OBVIOUS
    <2>1. b.ts \in Nat /\ b.ts <= clock /\ clock \in Nat
      BY DEF TelemetryBase, TelemetryTypeOK, InOrder, Export
    <2> QED
      BY <2>1
  <1>2. OwedOnes(inflight, T) = Undelivered
    BY <1>1 DEF OwedOnes, Undelivered
  <1>3. Undelivered \in SUBSET Export /\ IsFiniteSet(Undelivered)
    BY FS_Subset DEF TelemetryBase, TelemetryTypeOK, Undelivered
  <1>4. Total(Undelivered) = SumFunctionOnSet(Amounts, Undelivered)
    BY ONLY <1>3, TotalIs
  <1> QED
    BY <1>1, <1>2, <1>4 DEF Owed, OwedOf

\* What is settled of one export.
LEMMA ExportMoves ==
    ASSUME TelemetryBase, NEW b \in inflight, GiveUpExport(b) \/ HandleExport(b) \/ Refuse(b),
           ~repeated', NEW T \in Nat
    PROVE  /\ Worth(T)' + Owed(T)' \in Nat /\ Worth(T)' + Owed(T)' <= Worth(T) + Owed(T)
           /\ T > clock => Worth(T)' + Owed(T)' + missing' = Worth(T) + Owed(T) + missing
  <1>1. TelemetryTypeOK /\ TelemetryTypeOK'
    BY BaseExport DEF TelemetryBase
  <1>2. inflight \in SUBSET Export /\ IsFiniteSet(inflight) /\ OneEach(inflight)
    BY DEF TelemetryBase, TelemetryTypeOK, InOrder
  <1>3. b.ts \in Nat /\ b.value \in Nat /\ b.given \in BOOLEAN /\ missing \in Nat /\ clock \in Nat
    BY <1>1 DEF TelemetryTypeOK, Export
  <1>4. PICK o \in Nat, d \in Nat : /\ o = OwedOf(inflight \ {b}, T) /\ d = Due(b, T)
                                   /\ Owed(T) = o + d
                                   /\ \A c \in Export : c.ts = b.ts =>
                                          OwedOf((inflight \ {b}) \cup {c}, T) = o + Due(c, T)
    <2>1. /\ OwedOf(inflight \ {b}, T) \in Nat /\ Due(b, T) \in Nat
          /\ OwedOf(inflight, T) = OwedOf(inflight \ {b}, T) + Due(b, T)
          /\ \A c \in Export : c.ts = b.ts =>
                 OwedOf((inflight \ {b}) \cup {c}, T) = OwedOf(inflight \ {b}, T) + Due(c, T)
      BY ONLY <1>2, b \in inflight, T \in Nat, OwedSettled
    <2> QED
      BY <2>1 DEF Owed
  <1>5. PICK w \in Nat : w = Worth(T)
    BY <1>1, SumsAre
  <1>6. Owed(T)' = OwedOf(inflight', T) /\ Worth(T)' = WorthOf(points', T)
    BY DEF Owed, Worth
  <1>7. CASE GiveUpExport(b)
    <2>1. Owed(T)' = o
      BY <1>4, <1>6, <1>7, Settling
    <2>2. points' = points /\ missing' = missing + IF b.given THEN 0 ELSE b.value
      BY <1>7 DEF GiveUpExport
    <2>3. Worth(T)' = w
      BY <1>5, <1>6, <2>2 DEF Worth
    <2>4. ASSUME T > clock  PROVE missing' = missing + d
      <3>1. b.ts < T
        BY <2>4, AllOwed
      <3> QED
        BY <1>3, <1>4, <2>2, <3>1 DEF Due
    <2> QED
      BY <1>3, <1>4, <1>5, <2>1, <2>3, <2>4
  <1>8. CASE HandleExport(b)
    <2>1. ~b.given /\ missing' = missing
      BY <1>8 DEF HandleExport
    <2>2. Owed(T)' = o
      <3>1. CASE inflight' = inflight \ {b}
        BY <1>4, <1>6, <3>1
      <3>2. ASSUME NEW c, Again(b, c, TRUE), inflight' = (inflight \ {b}) \cup {c}
            PROVE  Owed(T)' = o
        <4>1. c \in Export /\ c.ts = b.ts /\ Due(c, T) = 0
          BY <3>2 DEF Again, Due
        <4>2. OwedOf((inflight \ {b}) \cup {c}, T) = o + Due(c, T)
          BY ONLY <1>4, <4>1
        <4>3. o + Due(c, T) = o
          BY ONLY <4>1, o \in Nat
        <4> QED
          BY ONLY <1>6, <3>2, <4>2, <4>3
      <3> QED
        BY <1>8, <3>1, <3>2, Settling
    <2>3. Worth(T)' = w + d
      <3>1. PICK r : r = [ts |-> b.ts, value |-> b.value]
        OBVIOUS
      <3>2. r \in [ts : Nat, value : Nat] /\ r.ts = b.ts /\ r.value = b.value
        BY <1>3, <3>1
      <3>3. points' = Append(points, r)
        BY <1>8, <3>1 DEF HandleExport
      <3>4. points \in Seq([ts : Nat, value : Nat])
        BY <1>1 DEF TelemetryTypeOK
      <3>5. WorthOf(Append(points, r), T) = WorthOf(points, T) + IF r.ts < T THEN r.value ELSE 0
        BY ONLY <3>2, <3>4, T \in Nat, WorthNext
      <3>6. d = IF r.ts < T THEN r.value ELSE 0
        BY <1>4, <2>1, <3>2 DEF Due
      <3> QED
        BY <1>5, <1>6, <3>3, <3>5, <3>6 DEF Worth
    <2> QED
      BY <1>3, <1>4, <1>5, <2>1, <2>2, <2>3
  <1>9. CASE Refuse(b)
    <2>1. points' = points /\ missing' = missing
      BY <1>9 DEF Refuse
    <2>2. PICK c : Again(b, c, b.given) /\ inflight' = (inflight \ {b}) \cup {c}
      BY <1>9, Settling
    <2>3. c \in Export /\ c.ts = b.ts /\ Due(c, T) = d
      BY <1>4, <2>2 DEF Again, Due
    <2>4. Owed(T)' = o + d
      BY <1>4, <1>6, <2>2, <2>3
    <2>5. Worth(T)' = w
      BY <1>5, <1>6, <2>1 DEF Worth
    <2> QED
      BY <1>3, <1>4, <1>5, <2>1, <2>4, <2>5
  <1> QED
    BY <1>7, <1>8, <1>9

\* What was exported and not delivered is given up when the process ends.
LEMMA ResumeMoves ==
    ASSUME TelemetryBase, Resume, NEW T \in Nat
    PROVE  /\ Worth(T)' + Owed(T)' \in Nat /\ Worth(T)' + Owed(T)' <= Worth(T) + Owed(T)
           /\ T > clock => Worth(T)' + Owed(T)' + missing' + (counter' - collected')
                              = Worth(T) + Owed(T) + missing + (counter - collected)
  <1>1. TelemetryTypeOK
    BY DEF TelemetryBase
  <1>2. PICK w \in Nat, o \in Nat, m \in Nat, d \in Nat :
            w = Worth(T) /\ o = Owed(T) /\ m = missing /\ d = counter - collected
    <2>1. Worth(T) \in Nat /\ Owed(T) \in Nat
      BY <1>1, SumsAre
    <2>2. missing \in Nat /\ counter \in Nat /\ collected \in Nat /\ collected <= counter
      BY <1>1 DEF TelemetryTypeOK
    <2>3. counter - collected \in Nat
      BY <2>2
    <2> QED
      BY <2>1, <2>2, <2>3
  <1>3. /\ points' = points /\ inflight' = {} /\ counter' = 0 /\ collected' = 0
        /\ missing' = missing + (counter - collected) + Total(Undelivered)
    BY DEF Resume
  <1>4. Worth(T)' = w
    BY <1>2, <1>3 DEF Worth
  <1>5. Owed(T)' = 0
    <2>1. OwedOnes(inflight', T) = {}
      BY <1>3 DEF OwedOnes
    <2> QED
      BY <2>1, SumEmpty DEF Owed, OwedOf
  <1>6. ASSUME T > clock  PROVE missing' = m + d + o
    BY <1>2, <1>3, <1>6, AllOwed
  <1>7. counter' - collected' = 0
    BY <1>3
  <1> QED
    BY <1>2, <1>4, <1>5, <1>6, <1>7

\* What is collected is owed from then on.
LEMMA CollectMoves ==
    ASSUME TelemetryBase, Collect, asked = "delta", NEW T \in Nat
    PROVE  /\ Worth(T)' = Worth(T)
           /\ T > clock + 1 => Owed(T)' = Owed(T) + (counter - collected)
           /\ T <= clock + 1 => Owed(T)' = Owed(T)
  <1>1. /\ Exported \in Export /\ Exported \notin inflight /\ inflight' = inflight \cup {Exported}
        /\ Exported.ts = clock + 1 /\ ~Exported.given
        /\ Exported.value = counter - collected /\ points' = points
    BY Collecting
  <1>2. inflight \in SUBSET Export /\ IsFiniteSet(inflight) /\ clock \in Nat
    BY DEF TelemetryBase, TelemetryTypeOK
  <1>3. PICK e : e = Exported
    OBVIOUS
  <1>4. e \in Export /\ e \notin inflight
    BY <1>1, <1>3
  <1>5. /\ OwedOf(inflight, T) \in Nat
        /\ OwedOf(inflight \cup {e}, T) = OwedOf(inflight, T) + Due(e, T)
    BY ONLY <1>2, <1>4, T \in Nat, OwedNext
  <1>6. Owed(T)' = Owed(T) + Due(e, T) /\ Owed(T) \in Nat
    BY <1>1, <1>3, <1>5 DEF Owed
  <1>7. Due(e, T) = IF clock + 1 < T THEN counter - collected ELSE 0
    BY <1>1, <1>3 DEF Due
  <1>8. Worth(T)' = Worth(T)
    BY <1>1 DEF Worth
  <1> QED
    BY <1>2, <1>6, <1>7, <1>8

\* Nothing is spent, read or owed at the start.
LEMMA DeltaInit == InitTelemetry => DeltaInv
  <1> SUFFICES ASSUME InitTelemetry  PROVE DeltaInv
    OBVIOUS
  <1>1. /\ turns = <<>> /\ spent = <<0>> /\ points = <<>> /\ inflight = {}
        /\ missing = 0 /\ counter = 0 /\ collected = 0
    BY DEF InitTelemetry
  <1>2. Len(turns) = 0 /\ Len(spent) = 1 /\ DOMAIN points = {}
    BY <1>1
  <1>3. SpentBy(Len(spent)) = 0
    <2>1. 1..Len(spent) = {1} /\ spent[1] = 0 /\ spent[1] \in Int
      BY <1>1, <1>2
    <2>2. SumFunctionOnSet(spent, {1}) = spent[1]
      BY ONLY <2>1, SumOne
    <2> QED
      BY <2>1, <2>2 DEF SpentBy
  <1>4. ASSUME NEW T \in Nat  PROVE Worth(T) = 0 /\ Owed(T) = 0
    <2>1. {i \in DOMAIN points : points[i].ts < T} = {} /\ OwedOnes(inflight, T) = {}
      BY <1>1, <1>2 DEF OwedOnes
    <2> QED
      BY <2>1, SumEmpty DEF Worth, WorthOf, Owed, OwedOf
  <1> QED
    BY <1>1, <1>2, <1>3, <1>4 DEF DeltaInv

\* Increments add up to what was spent, step by step.
LEMMA DeltaStep == ASSUME TelemetryBase, DeltaInv, [NextTelemetry]_telemetry  PROVE DeltaInv'
  <1>0. TelemetryTypeOK /\ TelemetryTypeOK' /\ TelemetryBase'
    BY BaseStep DEF TelemetryBase
  <1> SUFFICES ASSUME asked' = "delta", ~repeated'
               PROVE  /\ \A T \in Nat : T > clock' =>
                             Worth(T)' + Owed(T)' + missing' + (counter' - collected')
                                 = SpentBy(Len(spent))'
                      /\ \A T \in Nat : \A k \in 1..Len(turns') :
                             T = turns'[k] => Worth(T)' + Owed(T)' <= SpentBy(k)'
    <2>a. turns' \in Seq(Nat)
      BY <1>0 DEF TelemetryTypeOK
    <2>1. \A k \in 1..Len(turns') : turns'[k] \in Nat
      BY ONLY <2>a
    <2> QED
      BY <2>1 DEF DeltaInv, Worth, Owed
  <1>1. /\ asked = "delta" /\ ~repeated
        /\ \A T \in Nat : T > clock =>
               Worth(T) + Owed(T) + missing + (counter - collected) = SpentBy(Len(spent))
        /\ \A k \in 1..Len(turns) : Worth(turns[k]) + Owed(turns[k]) <= SpentBy(k)
    <2>1. asked' = asked /\ (repeated => repeated')
      BY <1>0 DEF NextTelemetry, telemetry, choice, exporter, Prompt, Spend, Collect, Resume,
              GiveUpExport, HandleExport, Refuse, TelemetryTypeOK
    <2> QED
      BY <2>1 DEF DeltaInv
  <1>2. /\ \A T \in Nat : Worth(T) \in Nat /\ Owed(T) \in Nat 
        /\ \A k \in 0..Len(spent) : SpentBy(k) \in Nat
        /\ \A k \in 1..Len(turns) : turns[k] \in Nat
        /\ Len(turns) \in Nat /\ Len(spent) = Len(turns) + 1
    BY <1>0, SumsAre
  <1>3. /\ missing \in Nat /\ missing' \in Nat /\ counter \in Nat /\ collected \in Nat
        /\ collected <= counter /\ clock \in Nat /\ counter - collected \in Nat
    <2>1. /\ missing \in Nat /\ missing' \in Nat /\ counter \in Nat /\ collected \in Nat
          /\ collected <= counter /\ clock \in Nat
      BY <1>0 DEF TelemetryTypeOK
    <2> QED
      BY <2>1
  <1>4. CASE Prompt
    <2>1. PICK n \in Nat : n = Len(turns) /\ Len(turns') = n + 1 /\ turns'[n + 1] = clock + 1
                             /\ (\A k \in 1..n : turns'[k] = turns[k]) /\ clock' = clock + 1
      <3>1. turns \in Seq(Nat) /\ turns' = Append(turns, clock + 1) /\ clock' = clock + 1
        BY <1>0, <1>4 DEF TelemetryTypeOK, Prompt
      <3>2. /\ Len(turns) \in Nat /\ Len(turns') = Len(turns) + 1 /\ turns'[Len(turns) + 1] = clock + 1
            /\ \A k \in 1..Len(turns) : turns'[k] = turns[k]
        BY <3>1
      <3> QED
        BY <3>1, <3>2
    <2>2. /\ \A k \in 0..(n + 1) : SpentBy(k)' = SpentBy(k)
          /\ SpentBy(Len(spent))' = SpentBy(n + 1)
      BY <1>0, <1>2, <1>4, <2>1, PromptSpent
    <2>3. ASSUME NEW T \in Nat
          PROVE  Worth(T)' = Worth(T) /\ Owed(T)' = Owed(T)
      BY <1>4 DEF Prompt, exporter, Worth, Owed
    <2>4. missing' = missing /\ counter' = counter /\ collected' = collected
      BY <1>4 DEF Prompt, exporter
    <2>5. ASSUME NEW T \in Nat, T > clock
          PROVE  Worth(T) + Owed(T) + missing + (counter - collected) = SpentBy(n + 1)
      BY <1>1, <1>2, <2>1, <2>5
    <2>6. ASSUME NEW T \in Nat, NEW k \in 1..(n + 1), T = turns'[k]
          PROVE  Worth(T) + Owed(T) <= SpentBy(k)
      <3>1. CASE k \in 1..n
        BY <1>1, <2>1, <2>6, <3>1
      <3>2. CASE k = n + 1
        <4>1. T > clock
          BY <1>3, <2>1, <2>6, <3>2
        <4>2. Worth(T) + Owed(T) + missing + (counter - collected) = SpentBy(k)
          BY <2>5, <3>2, <4>1
        <4>3. Worth(T) \in Nat /\ Owed(T) \in Nat
          BY <1>2
        <4> QED
          BY ONLY <1>3, <4>2, <4>3
      <3> QED
        BY <2>1, <3>1, <3>2
    <2>7. ASSUME NEW T \in Nat, T > clock'
          PROVE  Worth(T)' + Owed(T)' + missing' + (counter' - collected') = SpentBy(Len(spent))'
      <3>1. T > clock
        BY <1>3, <2>1, <2>7
      <3> QED
        BY <2>2, <2>3, <2>4, <2>5, <3>1
    <2>8. ASSUME NEW T \in Nat, NEW k \in 1..Len(turns'), T = turns'[k]
          PROVE  Worth(T)' + Owed(T)' <= SpentBy(k)'
      <3>1. k \in 1..(n + 1) /\ k \in 0..(n + 1)
        BY <2>1
      <3> QED
        BY <2>2, <2>3, <2>6, <2>8, <3>1
    <2> QED
      BY <2>7, <2>8
  <1>5. CASE Spend
    <2>1. /\ \A k \in 0..Len(turns) : SpentBy(k)' = SpentBy(k)
          /\ SpentBy(Len(spent))' = SpentBy(Len(spent)) + 1
      BY <1>0, <1>2, <1>5, SpendSpent
    <2>2. ASSUME NEW T \in Nat
          PROVE  Worth(T)' = Worth(T) /\ Owed(T)' = Owed(T)
      BY <1>5 DEF Spend, Worth, Owed
    <2>3. /\ missing' = missing /\ counter' = counter + 1 /\ collected' = collected
          /\ clock' = clock /\ turns' = turns
      BY <1>5 DEF Spend
    <2>4. ASSUME NEW T \in Nat, T > clock'
          PROVE  Worth(T)' + Owed(T)' + missing' + (counter' - collected') = SpentBy(Len(spent))'
      <3>1. Worth(T) + Owed(T) + missing + (counter - collected) = SpentBy(Len(spent))
        BY <1>1, <2>3, <2>4
      <3>2. Worth(T) \in Nat /\ Owed(T) \in Nat
        BY <1>2
      <3> QED
        BY <1>3, <2>1, <2>2, <2>3, <3>1, <3>2
    <2>5. ASSUME NEW T \in Nat, NEW k \in 1..Len(turns'), T = turns'[k]
          PROVE  Worth(T)' + Owed(T)' <= SpentBy(k)'
      <3>1. k \in 1..Len(turns) /\ k \in 0..Len(turns) /\ T = turns[k]
        BY <1>2, <2>3, <2>5
      <3> QED
        BY <1>1, <2>1, <2>2, <3>1
    <2> QED
      BY <2>4, <2>5
  <1>6. CASE Collect
    <2>1. /\ clock' = clock + 1 /\ collected' = counter
          /\ UNCHANGED <<turns, spent, counter, missing>>
      BY <1>6, Collecting
    <2>2. ASSUME NEW T \in Nat
          PROVE  /\ Worth(T)' = Worth(T)
                 /\ T > clock + 1 => Owed(T)' = Owed(T) + (counter - collected)
                 /\ T <= clock + 1 => Owed(T)' = Owed(T)
      BY ONLY TelemetryBase, <1>1, <1>6, <2>2, CollectMoves
    <2>3. \A k : SpentBy(k)' = SpentBy(k)
      BY <2>1 DEF SpentBy
    <2>a. SpentBy(Len(spent))' = SpentBy(Len(spent))
      BY <2>1 DEF SpentBy
    <2>4. ASSUME NEW T \in Nat, T > clock'
          PROVE  Worth(T)' + Owed(T)' + missing' + (counter' - collected') = SpentBy(Len(spent))'
      <3>1. T > clock /\ T > clock + 1 /\ counter' - collected' = 0 /\ missing' = missing
        BY <1>3, <2>1, <2>4
      <3>2. Worth(T) + Owed(T) + missing + (counter - collected) = SpentBy(Len(spent))
        BY <1>1, <3>1
      <3>3. Worth(T) \in Nat /\ Owed(T) \in Nat
        BY <1>2
      <3>4. Worth(T)' = Worth(T) /\ Owed(T)' = Owed(T) + (counter - collected)
        BY <2>2, <3>1
      <3> QED
        BY ONLY <1>3, <2>a, <3>1, <3>2, <3>3, <3>4
    <2>5. ASSUME NEW T \in Nat, NEW k \in 1..Len(turns'), T = turns'[k]
          PROVE  Worth(T)' + Owed(T)' <= SpentBy(k)'
      <3>1. k \in 1..Len(turns) /\ T = turns[k]
        BY <2>1, <2>5
      <3>2. T <= clock
        BY <3>1 DEF TelemetryBase, InOrder
      <3>3. Owed(T)' = Owed(T) /\ Worth(T)' = Worth(T)
        BY <1>3, <2>2, <3>2
      <3> QED
        BY <1>1, <2>3, <3>1, <3>3
    <2> QED
      BY <2>4, <2>5
  <1>7. ASSUME UNCHANGED <<clock, turns, spent>>,
               \A T \in Nat :
                   /\ Worth(T)' + Owed(T)' \in Nat /\ Worth(T)' + Owed(T)' <= Worth(T) + Owed(T)
                   /\ T > clock => Worth(T)' + Owed(T)' + missing' + (counter' - collected')
                                      = Worth(T) + Owed(T) + missing + (counter - collected)
        PROVE  /\ \A T \in Nat : T > clock' =>
                      Worth(T)' + Owed(T)' + missing' + (counter' - collected')
                          = SpentBy(Len(spent))'
               /\ \A T \in Nat : \A k \in 1..Len(turns') :
                      T = turns'[k] => Worth(T)' + Owed(T)' <= SpentBy(k)'
    <2>1. (\A k : SpentBy(k)' = SpentBy(k)) /\ SpentBy(Len(spent))' = SpentBy(Len(spent))
      BY <1>7 DEF SpentBy
    <2>2. ASSUME NEW T \in Nat, NEW k \in 1..Len(turns'), T = turns'[k]
          PROVE  Worth(T)' + Owed(T)' <= SpentBy(k)'
      <3>1. k \in 1..Len(turns) /\ k \in 0..Len(spent) /\ T = turns[k]
        BY <1>2, <1>7, <2>2
      <3>2. PICK a \in Nat, c \in Nat, d \in Nat, e \in Nat :
                a = Worth(T)' + Owed(T)' /\ c = Worth(T) /\ d = Owed(T) /\ e = SpentBy(k)
        BY <1>2, <1>7, <3>1
      <3>3. a <= c + d /\ c + d <= e
        BY <1>1, <1>7, <3>1, <3>2
      <3>4. a <= e
        BY ONLY <3>3, a \in Nat, c \in Nat, d \in Nat, e \in Nat
      <3> QED
        BY <2>1, <3>2, <3>4
    <2>3. ASSUME NEW T \in Nat, T > clock'
          PROVE  Worth(T)' + Owed(T)' + missing' + (counter' - collected') = SpentBy(Len(spent))'
      BY <1>1, <1>7, <2>1, <2>3
    <2> QED
      BY <2>2, <2>3
  <1>8. CASE Resume
    <2>1. UNCHANGED <<clock, turns, spent>>
      BY <1>8 DEF Resume
    <2>2. ASSUME NEW T \in Nat
          PROVE  /\ Worth(T)' + Owed(T)' \in Nat /\ Worth(T)' + Owed(T)' <= Worth(T) + Owed(T)
                 /\ T > clock => Worth(T)' + Owed(T)' + missing' + (counter' - collected')
                                    = Worth(T) + Owed(T) + missing + (counter - collected)
      BY ONLY TelemetryBase, <1>8, <2>2, ResumeMoves
    <2> QED
      BY ONLY <1>7, <2>1, <2>2
  <1>9. ASSUME NEW b \in inflight, GiveUpExport(b) \/ HandleExport(b) \/ Refuse(b)
        PROVE  /\ \A T \in Nat : T > clock' =>
                      Worth(T)' + Owed(T)' + missing' + (counter' - collected')
                          = SpentBy(Len(spent))'
               /\ \A T \in Nat : \A k \in 1..Len(turns') :
                      T = turns'[k] => Worth(T)' + Owed(T)' <= SpentBy(k)'
    <2>1. UNCHANGED <<clock, turns, spent, counter, collected>>
      BY <1>9, Settling
    <2>2. ASSUME NEW T \in Nat
          PROVE  /\ Worth(T)' + Owed(T)' \in Nat /\ Worth(T)' + Owed(T)' <= Worth(T) + Owed(T)
                 /\ T > clock => Worth(T)' + Owed(T)' + missing' + (counter' - collected')
                                    = Worth(T) + Owed(T) + missing + (counter - collected)
      <3>1. /\ Worth(T)' + Owed(T)' \in Nat /\ Worth(T)' + Owed(T)' <= Worth(T) + Owed(T)
            /\ T > clock => Worth(T)' + Owed(T)' + missing' = Worth(T) + Owed(T) + missing
        BY ExportMoves, <1>9
      <3> QED
        BY <2>1, <3>1
    <2> QED
      BY ONLY <1>7, <2>1, <2>2
  <1>10. CASE UNCHANGED telemetry
    <2>1. UNCHANGED <<clock, turns, spent, counter, collected, missing, points, inflight>>
      BY <1>10 DEF telemetry, exporter
    <2>2. ASSUME NEW T \in Nat
          PROVE  /\ Worth(T)' + Owed(T)' \in Nat /\ Worth(T)' + Owed(T)' <= Worth(T) + Owed(T)
                 /\ T > clock => Worth(T)' + Owed(T)' + missing' + (counter' - collected')
                                    = Worth(T) + Owed(T) + missing + (counter - collected)
      <3>1. Worth(T)' = Worth(T) /\ Owed(T)' = Owed(T)
        BY <2>1 DEF Worth, Owed
      <3>2. Worth(T) \in Nat /\ Owed(T) \in Nat
        BY <1>2
      <3> QED
        BY <2>1, <3>1, <3>2
    <2> QED
      BY ONLY <1>7, <2>1, <2>2
  <1> QED
    BY <1>4, <1>5, <1>6, <1>8, <1>9, <1>10 DEF NextTelemetry

-----------------------------------------------------------------------------
(* The counter: a reading is no more than was spent by its time.           *)

\* Readings have a time, not to come, and a value.
LEMMA ReadingsAre ==
    ASSUME TelemetryBase
    PROVE  \A r \in Readings : r.ts \in Nat /\ r.value \in Nat /\ r.ts <= clock
  <1>1. \A i \in 1..Len(points) : points[i].ts \in Nat /\ points[i].value \in Nat /\ points[i].ts <= clock
    BY PointsAre DEF TelemetryBase, InOrder
  <1>2. \A b \in inflight : b.ts \in Nat /\ b.value \in Nat /\ b.ts <= clock
    BY DEF TelemetryBase, TelemetryTypeOK, InOrder, Export
  <1>3. \A x : Reading(x).ts = x.ts /\ Reading(x).value = x.value
    BY DEF Reading
  <1> QED
    BY <1>1, <1>2, <1>3 DEF Readings

\* Settling an export makes no new reading, ...
LEMMA SettledReadings ==
    ASSUME TelemetryBase, NEW b \in inflight, GiveUpExport(b) \/ HandleExport(b) \/ Refuse(b)
    PROVE  Readings' \subseteq Readings
  <1>1. PICK P : P = {Reading(points[i]) : i \in 1..Len(points)}
    OBVIOUS
  <1>2. {Reading(points[i]) : i \in 1..Len(points)}' \subseteq P \cup {Reading(b)}
    <2>1. PICK R, r : R = [ts : Nat, value : Nat] /\ r = [ts |-> b.ts, value |-> b.value]
      OBVIOUS
    <2>2. points \in Seq(R) /\ r \in R
      BY <2>1 DEF TelemetryBase, TelemetryTypeOK, Export
    <2>3. points' = points \/ points' = Append(points, r)
      BY <2>1 DEF GiveUpExport, HandleExport, Refuse
    <2>4. \A i \in 1..Len(points') : (i \in 1..Len(points) /\ points'[i] = points[i]) \/ points'[i] = r
      BY ONLY <2>2, <2>3
    <2>5. Reading(r) = Reading(b)
      BY <2>1 DEF Reading
    <2> QED
      BY <1>1, <2>4, <2>5
  <1>3. \A x \in inflight' : x \in inflight \/ Reading(x) = Reading(b)
    <2>1. \/ inflight' = inflight \ {b}
          \/ \E c : \E g \in BOOLEAN : Again(b, c, g) /\ inflight' = (inflight \ {b}) \cup {c}
      BY Settling
    <2>2. \A c : \A g \in BOOLEAN : Again(b, c, g) => Reading(c) = Reading(b)
      BY DEF Again, Reading
    <2> QED
      BY ONLY <2>1, <2>2
  <1> QED
    BY <1>1, <1>2, <1>3 DEF Readings

\* ... and a collection makes one.
LEMMA CollectedReadings ==
    ASSUME TelemetryBase, Collect, asked = "cumulative"
    PROVE  \A r \in Readings' : \/ r \in Readings
                                \/ r.ts = clock + 1 /\ r.value = counter
  <1>1. /\ inflight' = inflight \cup {Exported} /\ points' = points
        /\ Exported.ts = clock + 1 /\ Exported.value = counter
    BY Collecting
  <1>2. Reading(Exported).ts = clock + 1 /\ Reading(Exported).value = counter
    BY <1>1 DEF Reading
  <1> QED
    BY <1>1, <1>2 DEF Readings

\* There is no reading at the start.
LEMMA CounterInit == InitTelemetry => CounterInv
  <1> SUFFICES ASSUME InitTelemetry  PROVE CounterInv
    OBVIOUS
  <1>1. spent = <<0>> /\ points = <<>> /\ inflight = {} /\ counter = 0
    BY DEF InitTelemetry
  <1>2. Len(points) = 0 /\ Len(spent) = 1
    BY <1>1
  <1>3. Readings = {}
    BY <1>1, <1>2 DEF Readings
  <1>4. SpentBy(Len(spent)) = 0
    <2>1. 1..Len(spent) = {1} /\ spent[1] = 0 /\ spent[1] \in Int
      BY <1>1, <1>2
    <2>2. SumFunctionOnSet(spent, {1}) = spent[1]
      BY ONLY <2>1, SumOne
    <2> QED
      BY <2>1, <2>2 DEF SpentBy
  <1> QED
    BY <1>1, <1>3, <1>4 DEF CounterInv

\* Each reading stays within what was spent, step by step.
LEMMA CounterStep == ASSUME TelemetryBase, CounterInv, [NextTelemetry]_telemetry  PROVE CounterInv'
  <1>0. TelemetryTypeOK /\ TelemetryBase'
    BY BaseStep DEF TelemetryBase
  <1> DEFINE Goal == /\ counter' <= SpentBy(Len(spent))'
                     /\ \A r \in Readings' : r.value <= collected'
                     /\ \A r \in Readings' : \A k \in 1..Len(turns') :
                            r.ts < turns'[k] => r.value <= SpentBy(k)'
                     /\ \A r, q \in Readings' : r.ts <= q.ts => r.value <= q.value
  <1> SUFFICES ASSUME asked' = "cumulative", resumes' = 0  PROVE Goal
    BY DEF CounterInv
  <1>1. /\ \A k \in 0..Len(spent) : SpentBy(k) \in Nat
        /\ \A k \in 1..Len(turns) : turns[k] \in Nat
        /\ Len(turns) \in Nat /\ Len(spent) = Len(turns) + 1
    BY <1>0, SumsAre
  <1>2. /\ counter \in Nat /\ collected \in Nat /\ collected <= counter /\ clock \in Nat /\ resumes \in Nat
        /\ \A k \in 1..Len(turns) : turns[k] <= clock
    BY <1>0 DEF TelemetryTypeOK, TelemetryBase, InOrder
  <1>3. asked = "cumulative" /\ resumes = 0
    <2>1. asked' = asked /\ (resumes' = resumes \/ resumes' = resumes + 1)
      BY DEF NextTelemetry, telemetry, choice, exporter, Prompt, Spend, Collect, Resume,
             GiveUpExport, HandleExport, Refuse
    <2> QED
      BY <1>2, <2>1
  <1>4. /\ counter <= SpentBy(Len(spent))
        /\ \A r \in Readings : r.value <= collected
        /\ \A r \in Readings : \A k \in 1..Len(turns) : r.ts < turns[k] => r.value <= SpentBy(k)
        /\ \A r, q \in Readings : r.ts <= q.ts => r.value <= q.value
    BY <1>3 DEF CounterInv
  <1>5. \A r \in Readings : r.ts \in Nat /\ r.value \in Nat /\ r.ts <= clock
    BY ReadingsAre
  <1>6. CASE Prompt
    <2>1. PICK n \in Nat : n = Len(turns) /\ Len(turns') = n + 1 /\ turns'[n + 1] = clock + 1
                             /\ (\A k \in 1..n : turns'[k] = turns[k]) /\ clock' = clock + 1
      <3>1. turns \in Seq(Nat) /\ turns' = Append(turns, clock + 1) /\ clock' = clock + 1 /\ clock \in Nat
        BY <1>0, <1>6 DEF TelemetryTypeOK, Prompt
      <3>2. /\ Len(turns) \in Nat /\ Len(turns') = Len(turns) + 1 /\ turns'[Len(turns) + 1] = clock + 1
            /\ \A k \in 1..Len(turns) : turns'[k] = turns[k]
        BY <3>1
      <3> QED
        BY <3>1, <3>2
    <2>2. /\ \A k \in 0..(n + 1) : SpentBy(k)' = SpentBy(k)
          /\ SpentBy(Len(spent))' = SpentBy(n + 1) /\ Len(spent) = n + 1
      BY <1>0, <1>1, <1>6, <2>1, PromptSpent
    <2>3. counter' = counter /\ collected' = collected /\ Readings' = Readings
      BY <1>6 DEF Prompt, exporter, Readings
    <2>4. ASSUME NEW r \in Readings, NEW k \in 1..(n + 1), r.ts < turns'[k]
          PROVE  r.value <= SpentBy(k)'
      <3>1. k \in 0..(n + 1) /\ SpentBy(k)' = SpentBy(k)
        BY <2>2
      <3>2. CASE k \in 1..n
        BY <1>4, <2>1, <2>4, <3>1, <3>2
      <3>3. CASE k = n + 1
        <4>1. r.value <= collected /\ counter <= SpentBy(k)
          BY <1>4, <2>2, <3>3
        <4>2. SpentBy(k) \in Nat /\ r.value \in Nat
          BY <1>1, <1>5, <2>2, <3>1
        <4> QED
          BY <1>2, <3>1, <4>1, <4>2
      <3> QED
        BY <2>1, <3>2, <3>3
    <2> QED
      BY <1>4, <2>1, <2>2, <2>3, <2>4
  <1>7. CASE Spend
    <2>1. /\ \A k \in 0..Len(turns) : SpentBy(k)' = SpentBy(k)
          /\ SpentBy(Len(spent))' = SpentBy(Len(spent)) + 1
      BY <1>0, <1>1, <1>7, SpendSpent
    <2>2. counter' = counter + 1 /\ collected' = collected /\ turns' = turns /\ Readings' = Readings
      BY <1>7 DEF Spend, Readings
    <2>3. counter' <= SpentBy(Len(spent))'
      <3>1. SpentBy(Len(spent)) \in Nat
        BY <1>1
      <3> QED
        BY <1>2, <1>4, <2>1, <2>2, <3>1
    <2>4. \A k \in 1..Len(turns) : SpentBy(k)' = SpentBy(k)
      BY <1>1, <2>1
    <2> QED
      BY <1>4, <2>2, <2>3, <2>4
  <1>8. CASE Collect
    <2>1. /\ clock' = clock + 1 /\ collected' = counter /\ UNCHANGED <<turns, spent, counter>>
      BY <1>8, Collecting
    <2>2. \A r \in Readings' : r \in Readings \/ (r.ts = clock + 1 /\ r.value = counter)
      BY <1>3, <1>8, CollectedReadings
    <2>3. (\A k : SpentBy(k)' = SpentBy(k)) /\ SpentBy(Len(spent))' = SpentBy(Len(spent))
      BY <2>1 DEF SpentBy
    <2>4. \A r \in Readings' : r.value <= counter /\ r.ts \in Nat /\ r.value \in Nat
      BY <1>2, <1>4, <1>5, <2>2
    <2>5. ASSUME NEW r \in Readings', NEW k \in 1..Len(turns), r.ts < turns[k]
          PROVE  r.value <= SpentBy(k)
      BY <1>1, <1>2, <1>4, <2>2, <2>5
    <2>6. ASSUME NEW r \in Readings', NEW q \in Readings', r.ts <= q.ts
          PROVE  r.value <= q.value
      <3>1. CASE q \in Readings
        <4>1. r \in Readings
          BY <1>2, <1>5, <2>2, <2>6, <3>1
        <4> QED
          BY <1>4, <2>6, <3>1, <4>1
      <3>2. CASE q.value = counter
        BY <2>4, <3>2
      <3> QED
        BY <2>2, <3>1, <3>2
    <2> QED
      BY <1>4, <2>1, <2>3, <2>4, <2>5, <2>6
  <1>9. CASE Resume
    <2>1. resumes' = resumes + 1
      BY <1>9 DEF Resume
    <2> QED
      BY <1>2, <2>1
  <1>10. ASSUME Readings' \subseteq Readings, UNCHANGED <<turns, spent, counter, collected>>
         PROVE  Goal
    <2>1. (\A k : SpentBy(k)' = SpentBy(k)) /\ SpentBy(Len(spent))' = SpentBy(Len(spent))
      BY <1>10 DEF SpentBy
    <2> QED
      BY <1>4, <1>10, <2>1
  <1>11. ASSUME NEW b \in inflight, GiveUpExport(b) \/ HandleExport(b) \/ Refuse(b)
         PROVE  Goal
    BY <1>10, <1>11, SettledReadings, Settling
  <1>12. CASE UNCHANGED telemetry
    <2>1. Readings' = Readings /\ UNCHANGED <<turns, spent, counter, collected>>
      BY <1>12 DEF telemetry, exporter, Readings
    <2> QED
      BY <1>10, <2>1
  <1> QED
    BY <1>6, <1>7, <1>8, <1>9, <1>11, <1>12 DEF NextTelemetry

\* The invariant is inductive.
THEOREM TelemetryInvariant == SpecTelemetry => []TelemetryInv
  <1>1. InitTelemetry => TelemetryInv
    BY BaseInit, DeltaInit, CounterInit DEF TelemetryInv
  <1>2. TelemetryInv /\ [NextTelemetry]_telemetry => TelemetryInv'
    BY BaseStep, DeltaStep, CounterStep DEF TelemetryInv
  <1> QED
    BY <1>1, <1>2, PTL DEF SpecTelemetry

-----------------------------------------------------------------------------
(* The order of the readings, and of numbers.                              *)

\* A finite set that is ordered by a relation has a greatest element.
LEMMA GreatestOf ==
    ASSUME NEW S, IsFiniteSet(S), S # {}, NEW R,
           \A x, y \in S : x = y \/ <<x, y>> \in R \/ <<y, x>> \in R,
           \A x, y, z \in S : <<x, y>> \in R /\ <<y, z>> \in R => <<x, z>> \in R
    PROVE  \E m \in S : \A x \in S : x = m \/ <<x, m>> \in R
  <1> DEFINE Top(u, m) == m \in u /\ \A x \in u : x = m \/ <<x, m>> \in R
             B == {u \in SUBSET S : u # {} /\ ~ \E m \in u : Top(u, m)}
  <1>1. ASSUME B # {}  PROVE FALSE
    <2>1. PICK u \in B : \A x \in u : u \ {x} \notin B
      BY <1>1, LeastSet
    <2>2. u \in SUBSET S /\ u # {} /\ ~ \E m \in u : Top(u, m)
      BY <2>1
    <2>3. PICK x \in u : TRUE
      BY <2>2
    <2>4. u \ {x} \in SUBSET S
      BY <2>2
    <2>5. CASE u \ {x} = {}
      <3>1. Top(u, x)
        BY <2>5
      <3> QED
        BY <2>2, <3>1
    <2>6. CASE u \ {x} # {}
      <3>1. PICK m \in u \ {x} : Top(u \ {x}, m)
        BY <2>1, <2>4, <2>6
      <3>2. CASE <<x, m>> \in R
        <4>1. Top(u, m)
          BY <3>1, <3>2
        <4> QED
          BY <2>2, <4>1
      <3>3. CASE <<m, x>> \in R
        <4>1. Top(u, x)
          BY <2>2, <3>1, <3>3
        <4> QED
          BY <2>2, <4>1
      <3>4. m # x /\ m \in S /\ x \in S
        BY <2>2, <3>1
      <3> QED
        BY <3>2, <3>3, <3>4
    <2> QED
      BY <2>5, <2>6
  <1>2. S \notin B
    BY <1>1
  <1> QED
    BY <1>2

\* The greatest of a finite set of numbers.
LEMMA MaxOf ==
    ASSUME NEW S \in SUBSET Nat, IsFiniteSet(S), S # {}
    PROVE  Max(S) \in S /\ \A x \in S : x <= Max(S)
  <1>1. PICK R : R = {p \in S \X S : p[1] < p[2]}
    OBVIOUS
  <1>2. \A x, y \in S : <<x, y>> \in R <=> x < y
    BY <1>1
  <1>3. \A x, y \in S : x = y \/ <<x, y>> \in R \/ <<y, x>> \in R
    <2> SUFFICES ASSUME NEW x \in S, NEW y \in S
                 PROVE  x = y \/ <<x, y>> \in R \/ <<y, x>> \in R
      OBVIOUS
    <2>1. x = y \/ x < y \/ y < x
      OBVIOUS
    <2> QED
      BY ONLY <1>2, <2>1, x \in S, y \in S
  <1>4. \A x, y, z \in S : <<x, y>> \in R /\ <<y, z>> \in R => <<x, z>> \in R
    <2> SUFFICES ASSUME NEW x \in S, NEW y \in S, NEW z \in S, <<x, y>> \in R, <<y, z>> \in R
                 PROVE  <<x, z>> \in R
      OBVIOUS
    <2>1. x < y /\ y < z
      BY <1>2
    <2>2. x < z
      BY ONLY <2>1, x \in S, y \in S, z \in S, S \in SUBSET Nat
    <2> QED
      BY <1>2, <2>2
  <1>5. PICK m \in S : \A x \in S : x = m \/ <<x, m>> \in R
    BY <1>3, <1>4, GreatestOf
  <1>6. \A x \in S : m >= x
    <2> SUFFICES ASSUME NEW x \in S  PROVE m >= x
      OBVIOUS
    <2>1. x = m \/ x < m
      BY <1>2, <1>5
    <2> QED
      BY ONLY <2>1, x \in S, m \in S, S \in SUBSET Nat
  <1>7. Max(S) \in S /\ \A x \in S : Max(S) >= x
    BY <1>6 DEF Max
  <1>8. \A x \in S : x \in Nat /\ Max(S) \in Nat
    BY <1>7
  <1> QED
    BY <1>7, <1>8

\* One reading is before another or after it.
LEMMA BeforeIs ==
    ASSUME TelemetryTypeOK
    PROVE  /\ \A i, j \in 1..Len(points) : i = j \/ i \in Before(j) \/ j \in Before(i)
           /\ \A i, j, k \in 1..Len(points) : i \in Before(j) /\ j \in Before(k) => i \in Before(k)
           /\ \A i \in 1..Len(points) : i \notin Before(i) /\ Before(i) \in SUBSET (1..Len(points))
           /\ \A i, j \in 1..Len(points) : i \in Before(j) => points[i].ts <= points[j].ts
           /\ \A i, j \in 1..Len(points) : points[i].ts < points[j].ts => i \in Before(j)
  <1>1. /\ DOMAIN points = 1..Len(points) /\ Len(points) \in Nat
        /\ \A i \in 1..Len(points) : points[i].ts \in Nat
    BY PointsAre
  <1>2. \A i, j \in 1..Len(points) :
            i \in Before(j) <=> points[i].ts < points[j].ts \/ (points[i].ts = points[j].ts /\ i < j)
    BY <1>1 DEF Before
  <1>3. PICK D, t : D = 1..Len(points) /\ t = [i \in D |-> points[i].ts]
    OBVIOUS
  <1>4. D \subseteq Nat /\ t \in [D -> Nat] /\ \A i \in D : t[i] = points[i].ts
    BY <1>1, <1>3
  <1>5. \A i, j \in D : i \in Before(j) <=> t[i] < t[j] \/ (t[i] = t[j] /\ i < j)
    BY <1>2, <1>3, <1>4
  <1>6. /\ \A i, j \in D : i = j \/ i \in Before(j) \/ j \in Before(i)
        /\ \A i, j, k \in D : i \in Before(j) /\ j \in Before(k) => i \in Before(k)
        /\ \A i \in D : i \notin Before(i)
        /\ \A i, j \in D : i \in Before(j) => t[i] <= t[j]
        /\ \A i, j \in D : t[i] < t[j] => i \in Before(j)
    BY ONLY <1>4, <1>5
  <1>7. \A i \in D : Before(i) \in SUBSET D
    BY <1>1, <1>3 DEF Before
  <1> QED
    BY <1>3, <1>4, <1>6, <1>7

\* With a reading, all those before it.
Closed(S) == \A i \in S : Before(i) \subseteq S

\* Readings that are closed under what is before have a latest, and are that one and
\* those before it.
LEMMA LatestOf ==
    ASSUME TelemetryTypeOK, NEW S \in SUBSET (1..Len(points)), S # {}, Closed(S)
    PROVE  \E m \in S : S = Before(m) \cup {m} /\ m \notin Before(m) /\ Closed(Before(m))
  <1>1. /\ \A i, j \in 1..Len(points) : i = j \/ i \in Before(j) \/ j \in Before(i)
        /\ \A i, j, k \in 1..Len(points) : i \in Before(j) /\ j \in Before(k) => i \in Before(k)
        /\ \A i \in 1..Len(points) : i \notin Before(i) /\ Before(i) \in SUBSET (1..Len(points))
    BY BeforeIs
  <1>2. IsFiniteSet(S)
    BY PointsAre, FS_Subset
  <1>3. PICK R : R = {p \in S \X S : p[1] \in Before(p[2])}
    OBVIOUS
  <1>4. \A x, y \in S : <<x, y>> \in R <=> x \in Before(y)
    BY <1>3
  <1>5. \A x, y \in S : x = y \/ <<x, y>> \in R \/ <<y, x>> \in R
    BY <1>1, <1>4
  <1>6. \A x, y, z \in S : <<x, y>> \in R /\ <<y, z>> \in R => <<x, z>> \in R
    BY <1>1, <1>4
  <1>7. PICK m \in S : \A x \in S : x = m \/ <<x, m>> \in R
    BY <1>2, <1>5, <1>6, GreatestOf
  <1>8. S = Before(m) \cup {m}
    BY <1>4, <1>7 DEF Closed
  <1>9. Closed(Before(m))
    BY <1>1 DEF Closed
  <1> QED
    BY <1>1, <1>8, <1>9

\* The one before a reading.
LEMMA PreviousIs ==
    ASSUME TelemetryTypeOK, NEW i \in 1..Len(points)
    PROVE  /\ Before(i) = {} => Previous(i) = 0
           /\ \A j \in Before(i) : Before(i) = Before(j) \cup {j} => Previous(i) = points[j].value
           /\ Previous(i) \in Nat
  <1>1. /\ \A k \in 1..Len(points) : k \notin Before(k) /\ Before(k) \in SUBSET (1..Len(points))
        /\ \A k, l, n \in 1..Len(points) : k \in Before(l) /\ l \in Before(n) => k \in Before(n)
    BY BeforeIs
  <1>2. \A j \in 1..Len(points) : points[j].value \in Nat
    BY PointsAre
  <1>3. ASSUME Before(i) # {}
        PROVE  \E j \in Before(i) : Before(i) = Before(j) \cup {j}
    <2>1. Before(i) \in SUBSET (1..Len(points)) /\ Closed(Before(i))
      BY <1>1 DEF Closed
    <2> QED
      BY <1>3, <2>1, LatestOf
  <1>4. ASSUME NEW j \in Before(i), NEW k \in Before(i),
               Before(i) = Before(j) \cup {j}, Before(i) = Before(k) \cup {k}
        PROVE  j = k
    <2>1. j \in 1..Len(points) /\ k \in 1..Len(points)
      BY <1>1
    <2>2. ASSUME j # k  PROVE FALSE
      <3>1. j \in Before(k) /\ k \in Before(j)
        BY <1>4, <2>2
      <3> QED
        BY <1>1, <2>1, <3>1
    <2> QED
      BY <2>2
  <1>5. ASSUME NEW j \in Before(i), Before(i) = Before(j) \cup {j}
        PROVE  Previous(i) = points[j].value
    <2>1. PICK c : c = CHOOSE k \in Before(i) : Before(i) = Before(k) \cup {k}
      OBVIOUS
    <2>2. c \in Before(i) /\ Before(i) = Before(c) \cup {c}
      BY <1>5, <2>1
    <2>3. c = j
      BY <1>4, <1>5, <2>2
    <2>4. Before(i) # {}
      OBVIOUS
    <2> QED
      BY <2>1, <2>3, <2>4 DEF Previous
  <1>6. Before(i) = {} => Previous(i) = 0
    BY DEF Previous
  <1>7. Previous(i) \in Nat
    BY <1>1, <1>2, <1>3, <1>5, <1>6
  <1> QED
    BY <1>5, <1>6, <1>7

\* The difference that each reading makes.
Stepped == [i \in 1..Len(points) |-> points[i].value - Previous(i)]

\* The differences up to a reading come to that reading.
LEMMA Telescope ==
    ASSUME TelemetryTypeOK, NEW S \in SUBSET (1..Len(points)), Closed(S),
           NEW m \in S, S = Before(m) \cup {m}
    PROVE  SumFunctionOnSet(Stepped, S) = points[m].value
  <1>1. /\ \A k \in 1..Len(points) : k \notin Before(k) /\ Before(k) \in SUBSET (1..Len(points))
        /\ \A k, l, n \in 1..Len(points) : k \in Before(l) /\ l \in Before(n) => k \in Before(n)
    BY BeforeIs
  <1>2. \A i \in 1..Len(points) : points[i].value \in Nat /\ Previous(i) \in Nat
    BY PointsAre, PreviousIs
  <1>3. \A i \in 1..Len(points) : Stepped[i] \in Int /\ Stepped[i] = points[i].value - Previous(i)
    BY <1>2 DEF Stepped
  <1>4. IsFiniteSet(1..Len(points))
    BY PointsAre
  <1> DEFINE Good(u) == \A k \in u : u = Before(k) \cup {k} => SumFunctionOnSet(Stepped, u) = points[k].value
             B == {u \in SUBSET (1..Len(points)) : Closed(u) /\ ~Good(u)}
  <1>5. ASSUME B # {}  PROVE FALSE
    <2>a. PICK D, C : D = 1..Len(points) /\ C = B
      OBVIOUS
    <2>b. IsFiniteSet(D) /\ C \in SUBSET SUBSET D /\ C # {}
      BY <1>4, <1>5, <2>a
    <2>c. PICK u \in C : \A x \in u : u \ {x} \notin C
      BY ONLY <2>b, LeastSet
    <2>1. u \in B /\ \A x \in u : u \ {x} \notin B
      BY <2>a, <2>c
    <2>2. u \in SUBSET (1..Len(points)) /\ Closed(u)
      BY <2>1
    <2>3. PICK k \in u : u = Before(k) \cup {k} /\ SumFunctionOnSet(Stepped, u) # points[k].value
      BY <2>1
    <2>4. k \in 1..Len(points) /\ k \notin Before(k) /\ u \ {k} = Before(k)
      BY <1>1, <2>2, <2>3
    <2>5. Before(k) \in SUBSET (1..Len(points)) /\ Closed(Before(k)) /\ IsFiniteSet(Before(k))
      <3>1. Before(k) \in SUBSET (1..Len(points)) /\ Closed(Before(k))
        BY <1>1, <2>4 DEF Closed
      <3> QED
        BY <1>4, <3>1, FS_Subset
    <2>6. Good(Before(k))
      BY <2>1, <2>4, <2>5
    <2>7. PICK P : P = Before(k)
      OBVIOUS
    <2>8. SumFunctionOnSet(Stepped, P \cup {k}) = SumFunctionOnSet(Stepped, P) + Stepped[k]
      <3>1. IsFiniteSet(P) /\ k \notin P /\ \A x \in P \cup {k} : Stepped[x] \in Int
        BY <1>3, <2>4, <2>5, <2>7
      <3> QED
        BY ONLY <3>1, SumAdd
    <2>9. SumFunctionOnSet(Stepped, P) = Previous(k)
      <3>1. CASE P = {}
        BY <2>4, <2>7, <3>1, SumEmpty, PreviousIs
      <3>2. CASE P # {}
        <4>1. PICK j \in P : P = Before(j) \cup {j}
          BY <2>5, <2>7, <3>2, LatestOf
        <4>2. SumFunctionOnSet(Stepped, P) = points[j].value
          BY <2>6, <2>7, <4>1
        <4>3. Previous(k) = points[j].value
          BY <2>4, <2>7, <4>1, PreviousIs
        <4> QED
          BY <4>2, <4>3
      <3> QED
        BY <3>1, <3>2
    <2>10. SumFunctionOnSet(Stepped, u) = Previous(k) + (points[k].value - Previous(k))
      BY <1>3, <2>3, <2>4, <2>7, <2>8, <2>9
    <2>11. Previous(k) + (points[k].value - Previous(k)) = points[k].value
      BY <1>2, <2>4
    <2> QED
      BY <2>3, <2>10, <2>11
  <1>6. Good(S)
    BY <1>5
  <1> QED
    BY <1>6

-----------------------------------------------------------------------------
(* The turns share the increments.                                         *)

Increments == [i \in 1..Len(points) |-> Increment(i)]

\* A reading is given to one turn, and to one up to the k-th exactly if it was
\* collected before the next prompt.
LEMMA TurnIs ==
    ASSUME TelemetryBase, NEW ts \in Nat
    PROVE  /\ TurnOf(ts) \in 0..Len(turns)
           /\ \A k \in 0..(Len(turns) - 1) : TurnOf(ts) <= k <=> ts < turns[k + 1]
  <1>1. PICK t \in Seq(Nat), n \in Nat : t = turns /\ n = Len(turns)
    BY DEF TelemetryBase, TelemetryTypeOK
  <1>2. /\ DOMAIN t = 1..n /\ \A k \in 1..n : t[k] \in Nat
        /\ \A j, k \in 1..n : j < k => t[j] < t[k]
    <2>1. \A j, k \in 1..Len(turns) : j < k => turns[j] < turns[k]
      BY DEF TelemetryBase, InOrder
    <2>2. DOMAIN t = 1..n /\ \A k \in 1..n : t[k] \in Nat
      BY <1>1
    <2> QED
      BY <1>1, <2>1, <2>2
  <1>3. PICK S : S = {0} \cup {k \in 1..n : t[k] <= ts}
    OBVIOUS
  <1>4. S \in SUBSET Nat /\ S \subseteq 0..n /\ IsFiniteSet(S) /\ S # {}
    <2>1. S \in SUBSET Nat /\ S \subseteq 0..n /\ S # {}
      BY <1>3
    <2>2. IsFiniteSet(0..n)
      BY FS_Interval
    <2> QED
      BY <2>1, <2>2, FS_Subset
  <1>5. PICK m : m = TurnOf(ts) /\ m = Max(S)
    BY <1>1, <1>2, <1>3 DEF TurnOf
  <1>6. m \in S /\ \A x \in S : x <= m
    BY <1>4, <1>5, MaxOf
  <1>7. ASSUME NEW k \in 0..(n - 1)
        PROVE  m <= k <=> ts < t[k + 1]
    <2>1. m \in 0..n /\ k + 1 \in 1..n /\ t[k + 1] \in Nat
      BY <1>2, <1>4, <1>6
    <2>2. ASSUME m <= k  PROVE ts < t[k + 1]
      <3>1. k + 1 \notin S
        BY <1>6, <2>1, <2>2
      <3> QED
        BY <1>3, <2>1, <3>1
    <2>3. ASSUME ts < t[k + 1], ~(m <= k)  PROVE FALSE
      <3>1. m \in 1..n /\ k + 1 <= m
        BY <2>1, <2>3
      <3>2. t[m] <= ts /\ t[m] \in Nat
        BY <1>2, <1>3, <1>6, <3>1
      <3>3. k + 1 = m \/ k + 1 < m
        BY <2>1, <3>1
      <3>4. t[k + 1] <= t[m]
        BY <1>2, <2>1, <3>1, <3>3
      <3> QED
        BY <2>1, <2>3, <3>2, <3>4
    <2> QED
      BY <2>2, <2>3
  <1> QED
    BY <1>1, <1>4, <1>5, <1>6, <1>7

\* Every reading has an increment, perhaps a negative one.
LEMMA IncrementsAre ==
    ASSUME TelemetryTypeOK
    PROVE  \A i \in 1..Len(points) : Increments[i] = Increment(i) /\ Increments[i] \in Int
  <1>1. \A i \in 1..Len(points) : points[i].value \in Nat /\ Previous(i) \in Nat
    BY PointsAre, PreviousIs
  <1>2. ASSUME NEW i \in 1..Len(points)  PROVE Increment(i) \in Int
    <2>1. Increment(i) = points[i].value - Previous(i) \/ Increment(i) = points[i].value - 0
      BY DEF Increment
    <2> QED
      BY <1>1, <2>1
  <1> QED
    BY <1>2 DEF Increments

\* The turns up to one share what was collected in them.
LEMMA Shared ==
    ASSUME TelemetryBase, NEW n \in 0..Len(turns)
    PROVE  SumFunction([k \in 0..n |-> CostOf(k)])
               = SumFunctionOnSet(Increments, {i \in 1..Len(points) : TurnOf(points[i].ts) <= n})
  <1>1. PICK D, f, c, g : /\ D = 1..Len(points) /\ f = Increments
                          /\ c = [i \in 1..Len(points) |-> TurnOf(points[i].ts)]
                          /\ g = [k \in 0..n |-> CostOf(k)]
    OBVIOUS
  <1>2. TelemetryTypeOK /\ Len(turns) \in Nat /\ n \in Nat
    BY DEF TelemetryBase, TelemetryTypeOK
  <1>3. IsFiniteSet(D) /\ (\A x \in D : f[x] = Increment(x) /\ f[x] \in Int) /\ D = DOMAIN points
    BY <1>1, <1>2, PointsAre, IncrementsAre
  <1>4. \A x \in D : c[x] = TurnOf(points[x].ts) /\ c[x] \in Nat
    <2>1. \A x \in D : points[x].ts \in Nat
      BY <1>1, <1>2, PointsAre
    <2>2. \A x \in D : TurnOf(points[x].ts) \in 0..Len(turns)
      BY <2>1, TurnIs
    <2> QED
      BY <1>1, <2>2
  <1>5. ASSUME NEW k \in 0..n
        PROVE  g[k] = SumFunctionOnSet(f, {x \in D : c[x] = k})
    <2>1. PICK U, h : /\ U = {x \in D : c[x] = k} /\ h = [i \in U |-> Increment(i)]
      OBVIOUS
    <2>2. U = {j \in DOMAIN points : TurnOf(points[j].ts) = k}
      BY <1>3, <1>4, <2>1
    <2>3. CostOf(k) = SumFunctionOnSet(h, U)
      BY <2>1, <2>2 DEF CostOf, SumFunction
    <2>4. IsFiniteSet(U)
      BY <1>3, <2>1, FS_Subset
    <2>5. \A x \in U : h[x] = f[x]
      BY <1>3, <2>1
    <2>6. SumFunctionOnSet(h, U) = SumFunctionOnSet(f, U)
      BY ONLY <2>4, <2>5, SumSame
    <2> QED
      BY <1>1, <2>1, <2>3, <2>6
  <1>6. SumFunctionOnSet(g, 0..n) = SumFunctionOnSet(f, {x \in D : c[x] <= n})
    <2>1. (\A x \in D : f[x] \in Int) /\ (\A x \in D : c[x] \in Nat)
      BY <1>3, <1>4
    <2>2. ClassSums(g, f, D, c, n)
      BY <1>5 DEF ClassSums
    <2> QED
      BY ONLY <1>2, <1>3, <2>1, <2>2, SumClasses
  <1>7. {x \in D : c[x] <= n} = {i \in 1..Len(points) : TurnOf(points[i].ts) <= n}
    BY <1>1, <1>4
  <1>8. SumFunction([k \in 0..n |-> CostOf(k)]) = SumFunctionOnSet(g, 0..n)
    BY <1>1 DEF SumFunction
  <1> QED
    BY <1>1, <1>6, <1>7, <1>8

\* The readings of the turns up to the n-th are those collected before some time.
Ends(n, T) ==
    /\ {i \in 1..Len(points) : TurnOf(points[i].ts) <= n} = {i \in 1..Len(points) : points[i].ts < T}
    /\ n < Len(turns) => T = turns[n + 1]
    /\ n = Len(turns) => T = clock + 1

\* Namely the next prompt, or a time to come.
LEMMA UpTo ==
    ASSUME TelemetryBase, NEW n \in 0..Len(turns)
    PROVE  \E T \in Nat : Ends(n, T)
  <1>1. TelemetryTypeOK /\ Len(turns) \in Nat /\ clock \in Nat /\ turns \in Seq(Nat)
    BY DEF TelemetryBase, TelemetryTypeOK
  <1>2. \A i \in 1..Len(points) : points[i].ts \in Nat /\ points[i].ts <= clock
    BY PointsAre DEF TelemetryBase, InOrder
  <1>3. CASE n < Len(turns)
    <2>1. n \in 0..(Len(turns) - 1) /\ n + 1 \in 1..Len(turns)
      BY <1>1, <1>3
    <2>2. turns[n + 1] \in Nat
      BY ONLY <1>1, <2>1
    <2>3. \A i \in 1..Len(points) : TurnOf(points[i].ts) <= n <=> points[i].ts < turns[n + 1]
      BY <1>2, <2>1, TurnIs
    <2>4. Ends(n, turns[n + 1])
      BY <1>1, <1>3, <2>3 DEF Ends
    <2> QED
      BY <2>2, <2>4
  <1>4. CASE n = Len(turns)
    <2>1. \A i \in 1..Len(points) : TurnOf(points[i].ts) <= n
      <3> SUFFICES ASSUME NEW i \in 1..Len(points)  PROVE TurnOf(points[i].ts) <= n
        OBVIOUS
      <3>1. TurnOf(points[i].ts) \in 0..Len(turns)
        BY <1>2, TurnIs
      <3> QED
        BY <1>1, <1>4, <3>1
    <2>2. \A i \in 1..Len(points) : points[i].ts < clock + 1
      BY <1>1, <1>2
    <2>3. clock + 1 \in Nat
      BY <1>1
    <2>4. Ends(n, clock + 1)
      BY <1>1, <1>4, <2>1, <2>2 DEF Ends
    <2> QED
      BY <2>3, <2>4
  <1> QED
    BY <1>1, <1>3, <1>4

\* Increments are what they say, ...
LEMMA DeltaSum ==
    ASSUME TelemetryTypeOK, asked = "delta", recorded, NEW T \in Nat
    PROVE  SumFunctionOnSet(Increments, {i \in 1..Len(points) : points[i].ts < T}) = Worth(T)
  <1>1. PICK U, h : /\ U = {i \in 1..Len(points) : points[i].ts < T}
                    /\ h = [i \in 1..Len(points) |-> points[i].value]
    OBVIOUS
  <1>2. DOMAIN points = 1..Len(points) /\ \A i \in 1..Len(points) : points[i].value \in Nat
    BY PointsAre
  <1>3. ~OfCounter
    BY DEF OfCounter, Temporality
  <1>4. \A i \in 1..Len(points) : Increment(i) = points[i].value
    <2>1. \A i \in 1..Len(points) : Increment(i) = points[i].value - 0
      BY <1>3 DEF Increment
    <2> QED
      BY <1>2, <2>1
  <1>5. IsFiniteSet(U) /\ \A x \in U : Increments[x] = h[x]
    <2>1. IsFiniteSet(U)
      BY <1>1, PointsAre, FS_Subset
    <2>2. \A x \in U : Increments[x] = h[x]
      BY <1>1, <1>4, IncrementsAre
    <2> QED
      BY <2>1, <2>2
  <1>6. SumFunctionOnSet(Increments, U) = SumFunctionOnSet(h, U)
    BY ONLY <1>5, SumSame
  <1> QED
    BY <1>1, <1>2, <1>6 DEF Worth, WorthOf

\* ... and those of a counter come to its latest reading.
LEMMA CounterSum ==
    ASSUME TelemetryBase, CounterInv, asked = "cumulative", resumes = 0, NEW T \in Nat,
           NEW S, S = {i \in 1..Len(points) : points[i].ts < T}
    PROVE  \/ S = {} /\ SumFunctionOnSet(Increments, S) = 0
           \/ \E m \in S : /\ SumFunctionOnSet(Increments, S) = points[m].value
                           /\ \A i \in S : points[i].value <= points[m].value
  <1>0. TelemetryTypeOK
    BY DEF TelemetryBase
  <1>1. /\ DOMAIN points = 1..Len(points) /\ Len(points) \in Nat
        /\ \A i \in 1..Len(points) : points[i].ts \in Nat /\ points[i].value \in Nat
    BY <1>0, PointsAre
  <1>2. /\ \A i \in 1..Len(points) : Before(i) \in SUBSET (1..Len(points)) /\ i \notin Before(i)
        /\ \A i, j \in 1..Len(points) : i \in Before(j) => points[i].ts <= points[j].ts
    BY <1>0, BeforeIs
  <1>3. \A i, j \in 1..Len(points) : i \in Before(j) => points[i].value <= points[j].value
    <2> SUFFICES ASSUME NEW i \in 1..Len(points), NEW j \in 1..Len(points), i \in Before(j)
                 PROVE  points[i].value <= points[j].value
      OBVIOUS
    <2>1. Reading(points[i]) \in Readings /\ Reading(points[j]) \in Readings
      BY DEF Readings
    <2>2. \A x : Reading(x).ts = x.ts /\ Reading(x).value = x.value
      BY DEF Reading
    <2>3. Reading(points[i]).ts <= Reading(points[j]).ts
      BY <1>2, <2>2
    <2>4. Reading(points[i]).value <= Reading(points[j]).value
      BY <2>1, <2>3 DEF CounterInv
    <2> QED
      BY <2>2, <2>4
  <1>4. \A i \in 1..Len(points) : Increment(i) = Stepped[i]
    <2>1. CASE OfCounter
      BY <2>1 DEF Increment, Stepped
    <2>2. CASE ~OfCounter
      <3>1. Grows
        BY <1>1, <1>3 DEF Grows, Before
      <3>2. ~(Len(points) >= 2)
        BY <2>2, <3>1 DEF OfCounter, Temporality
      <3>3. \A i \in 1..Len(points) : Before(i) = {}
        <4> SUFFICES ASSUME NEW i \in 1..Len(points), NEW j \in Before(i)  PROVE FALSE
          OBVIOUS
        <4>1. j \in 1..Len(points) /\ j # i
          BY <1>2
        <4> QED
          BY <1>1, <3>2, <4>1
      <3>4. \A i \in 1..Len(points) : Previous(i) = 0
        BY <3>3 DEF Previous
      <3> QED
        BY <2>2, <3>4 DEF Increment, Stepped
    <2> QED
      BY <2>1, <2>2
  <1>5. S \in SUBSET (1..Len(points)) /\ Closed(S)
    <2>1. S \in SUBSET (1..Len(points))
      OBVIOUS
    <2>2. ASSUME NEW i \in S, NEW j \in Before(i)  PROVE j \in S
      <3>1. i \in 1..Len(points) /\ j \in 1..Len(points)
        BY <1>2
      <3>2. points[j].ts <= points[i].ts /\ points[i].ts < T
        BY <1>2, <3>1
      <3>3. points[j].ts < T
        BY <1>1, <3>1, <3>2
      <3> QED
        BY <3>1, <3>3
    <2> QED
      BY <2>1, <2>2 DEF Closed
  <1>6. SumFunctionOnSet(Increments, S) = SumFunctionOnSet(Stepped, S)
    <2>1. IsFiniteSet(S)
      BY <1>0, <1>5, PointsAre, FS_Subset
    <2>2. \A x \in S : Increments[x] = Stepped[x]
      BY <1>0, <1>4, <1>5, IncrementsAre
    <2> QED
      BY ONLY <2>1, <2>2, SumSame
  <1>7. CASE S = {}
    BY <1>6, <1>7, SumEmpty
  <1>8. CASE S # {}
    <2>1. PICK m \in S : S = Before(m) \cup {m}
      BY <1>0, <1>5, <1>8, LatestOf
    <2>2. SumFunctionOnSet(Stepped, S) = points[m].value
      BY <1>0, <1>5, <2>1, Telescope
    <2>3. \A i \in S : points[i].value <= points[m].value
      <3> SUFFICES ASSUME NEW i \in S  PROVE points[i].value <= points[m].value
        OBVIOUS
      <3>1. i \in 1..Len(points) /\ m \in 1..Len(points) /\ (i = m \/ i \in Before(m))
        BY <1>5, <2>1
      <3> QED
        BY <1>1, <1>3, <3>1
    <2> QED
      BY <1>6, <2>2, <2>3
  <1> QED
    BY <1>7, <1>8

-----------------------------------------------------------------------------
(* What the counter comes to.                                              *)

\* What is given to the turns adds up, by the invariant.
LEMMA AddsUp == ASSUME TelemetryInv  PROVE CostAddsUp
  <1>0. TelemetryBase /\ TelemetryTypeOK /\ DeltaInv /\ CounterInv
    BY DEF TelemetryInv, TelemetryBase
  <1>1. Len(turns) \in Nat /\ clock \in Nat /\ Len(turns) \in 0..Len(turns)
    BY <1>0 DEF TelemetryTypeOK
  <1>2. DOMAIN points = 1..Len(points) /\ IsFiniteSet(DOMAIN points)
        /\ \A i \in 1..Len(points) : points[i].value \in Nat /\ points[i].ts \in Nat
    BY <1>0, PointsAre
  <1>3. PICK N : N = 1..Len(points)
    OBVIOUS
  <1>4. TotalCost = SumFunctionOnSet(Increments, N)
    BY <1>2, <1>3 DEF TotalCost, Increments, SumFunction
  <1>5. PICK T \in Nat : /\ T = clock + 1 /\ N = {i \in 1..Len(points) : points[i].ts < T}
                         /\ N = {i \in 1..Len(points) : TurnOf(points[i].ts) <= Len(turns)}
    <2>a. PICK T \in Nat : Ends(Len(turns), T)
      BY <1>0, <1>1, UpTo
    <2>1. /\ {i \in 1..Len(points) : TurnOf(points[i].ts) <= Len(turns)}
                 = {i \in 1..Len(points) : points[i].ts < T}
          /\ T = clock + 1
      BY <2>a DEF Ends
    <2>2. \A i \in 1..Len(points) : points[i].ts <= clock
      BY <1>0 DEF TelemetryBase, InOrder
    <2>3. N = {i \in 1..Len(points) : points[i].ts < T}
      BY <1>1, <1>2, <1>3, <2>1, <2>2
    <2> QED
      BY <2>1, <2>3
  <1>6. SumFunction([k \in 0..Len(turns) |-> CostOf(k)]) = TotalCost
    BY <1>0, <1>1, <1>4, <1>5, Shared
  <1>7. ASSUME asked = "delta", recorded, ~repeated
        PROVE  TotalCost = SumFunction(spent) - missing - (counter - collected) - Total(Undelivered)
    <2>1. T \in Nat /\ T > clock
      BY <1>1, <1>5
    <2>2. TotalCost = Worth(T)
      BY <1>0, <1>4, <1>5, <1>7, DeltaSum
    <2>3. Total(Undelivered) = Owed(T)
      BY <1>0, <2>1, AllOwed
    <2>4. Worth(T) + Owed(T) + missing + (counter - collected) = SpentBy(Len(spent))
      BY <1>0, <1>7, <2>1 DEF DeltaInv
    <2>5. SumFunction(spent) = SpentBy(Len(spent))
      <3>1. spent \in Seq(Nat)
        BY <1>0 DEF TelemetryTypeOK
      <3>2. DOMAIN spent = 1..Len(spent)
        BY <3>1
      <3> QED
        BY <3>2 DEF SumFunction, SpentBy
    <2>6. PICK w \in Nat, o \in Nat, m \in Nat, d \in Nat :
              w = Worth(T) /\ o = Owed(T) /\ m = missing /\ d = counter - collected
      <3>1. Worth(T) \in Nat /\ Owed(T) \in Nat
        BY <1>0, SumsAre
      <3>2. missing \in Nat /\ counter \in Nat /\ collected \in Nat /\ collected <= counter
        BY <1>0 DEF TelemetryTypeOK
      <3>3. counter - collected \in Nat
        BY <3>2
      <3> QED
        BY <3>1, <3>2, <3>3
    <2>7. SumFunction(spent) = w + o + m + d
      BY <2>4, <2>5, <2>6
    <2>8. w = (w + o + m + d) - m - d - o
      BY ONLY w \in Nat, o \in Nat, m \in Nat, d \in Nat
    <2> QED
      BY <2>2, <2>3, <2>6, <2>7, <2>8
  <1>8. ASSUME asked = "cumulative", resumes = 0
        PROVE  TotalCost = Max({0} \cup {points[i].value : i \in DOMAIN points})
    <2>1. PICK V : V = {0} \cup {points[i].value : i \in 1..Len(points)}
      OBVIOUS
    <2>2. \A x \in V : x \in Nat
      BY <1>2, <2>1
    <2>5. \/ N = {} /\ SumFunctionOnSet(Increments, N) = 0
          \/ \E m \in N : /\ SumFunctionOnSet(Increments, N) = points[m].value
                          /\ \A i \in N : points[i].value <= points[m].value
      BY <1>0, <1>5, <1>8, CounterSum
    <2>6. TotalCost \in V /\ \A x \in V : x <= TotalCost
      <3>1. CASE N = {} /\ SumFunctionOnSet(Increments, N) = 0
        <4>1. V = {0}
          BY <1>3, <2>1, <3>1
        <4> QED
          BY <1>4, <3>1, <4>1
      <3>2. ASSUME NEW m \in N, SumFunctionOnSet(Increments, N) = points[m].value,
                   \A i \in N : points[i].value <= points[m].value
            PROVE  TotalCost \in V /\ \A x \in V : x <= TotalCost
        <4>1. TotalCost = points[m].value /\ points[m].value \in Nat
          BY <1>2, <1>3, <1>4, <3>2
        <4> QED
          BY <1>3, <2>1, <3>2, <4>1
      <3> QED
        BY <2>5, <3>1, <3>2
    <2>7. Max(V) \in V /\ \A x \in V : Max(V) >= x
      <3>1. \A x \in V : TotalCost >= x
        BY <2>2, <2>6
      <3> QED
        BY <2>6, <3>1 DEF Max
    <2>8. TotalCost <= Max(V) /\ Max(V) <= TotalCost /\ TotalCost \in Nat /\ Max(V) \in Nat
      BY <2>2, <2>6, <2>7
    <2>9. TotalCost = Max(V)
      BY ONLY <2>8
    <2> QED
      BY <1>2, <2>1, <2>9
  <1>9. asked \in {"delta", "cumulative"}
    BY <1>0 DEF TelemetryTypeOK
  <1> QED
    BY <1>6, <1>7, <1>8, <1>9 DEF CostAddsUp, Exact

\* What is given is spent by then, by the invariant.
LEMMA NeverEarly == ASSUME TelemetryInv  PROVE CostNeverEarly
  <1>0. TelemetryBase /\ TelemetryTypeOK /\ DeltaInv /\ CounterInv
    BY DEF TelemetryInv, TelemetryBase
  <1> SUFFICES ASSUME Exact, NEW n \in 0..Len(turns)
               PROVE  SumFunction([j \in 0..n |-> CostOf(j)]) <= SpentBy(n + 1)
    BY DEF CostNeverEarly, SpentBy
  <1>1. /\ Len(turns) \in Nat /\ Len(spent) = Len(turns) + 1 /\ clock \in Nat
        /\ missing \in Nat /\ counter \in Nat /\ collected \in Nat /\ collected <= counter
    BY <1>0 DEF TelemetryTypeOK
  <1>a. PICK T \in Nat : Ends(n, T)
    BY <1>0, UpTo
  <1>2. /\ {i \in 1..Len(points) : TurnOf(points[i].ts) <= n}
               = {i \in 1..Len(points) : points[i].ts < T}
        /\ n < Len(turns) => T = turns[n + 1]
        /\ n = Len(turns) => T = clock + 1
    BY <1>a DEF Ends
  <1>3. PICK S : S = {i \in 1..Len(points) : points[i].ts < T}
    OBVIOUS
  <1>4. SumFunction([j \in 0..n |-> CostOf(j)]) = SumFunctionOnSet(Increments, S)
    BY <1>0, <1>2, <1>3, Shared
  <1>5. n + 1 \in 0..Len(spent) /\ SpentBy(n + 1) \in Nat
    <2>1. n + 1 \in 0..Len(spent)
      BY <1>1
    <2> QED
      BY <1>0, <2>1, SumsAre
  <1>6. n < Len(turns) \/ n = Len(turns)
    BY <1>1
  <1>7. CASE asked = "delta"
    <2>1. recorded /\ ~repeated
      BY <1>7 DEF Exact
    <2>2. SumFunctionOnSet(Increments, S) = Worth(T)
      BY <1>0, <1>3, <1>7, <2>1, DeltaSum
    <2>3. Worth(T) \in Nat /\ Owed(T) \in Nat
      BY <1>0, SumsAre
    <2>4. /\ \A t \in Nat : t > clock =>
                 Worth(t) + Owed(t) + missing + (counter - collected) = SpentBy(Len(spent))
          /\ \A k \in 1..Len(turns) : Worth(turns[k]) + Owed(turns[k]) <= SpentBy(k)
      BY <1>0, <1>7, <2>1 DEF DeltaInv
    <2>5. CASE n < Len(turns)
      <3>1. n + 1 \in 1..Len(turns) /\ T = turns[n + 1]
        BY <1>1, <1>2, <2>5
      <3>2. Worth(T) + Owed(T) <= SpentBy(n + 1)
        BY <2>4, <3>1
      <3> QED
        BY <1>4, <1>5, <2>2, <2>3, <3>2
    <2>6. CASE n = Len(turns)
      <3>1. T > clock /\ n + 1 = Len(spent)
        BY <1>1, <1>2, <2>6
      <3>2. Worth(T) + Owed(T) + missing + (counter - collected) = SpentBy(n + 1)
        BY <2>4, <3>1
      <3> QED
        BY <1>1, <1>4, <1>5, <2>2, <2>3, <3>2
    <2> QED
      BY <1>6, <2>5, <2>6
  <1>8. CASE asked = "cumulative"
    <2>1. resumes = 0
      BY <1>8 DEF Exact
    <2>2. /\ counter <= SpentBy(Len(spent))
          /\ \A r \in Readings : r.value <= collected
          /\ \A r \in Readings : \A k \in 1..Len(turns) : r.ts < turns[k] => r.value <= SpentBy(k)
      BY <1>0, <1>8, <2>1 DEF CounterInv
    <2>3. \A i \in 1..Len(points) : points[i].value \in Nat
      BY <1>0, PointsAre
    <2>4. ASSUME NEW m \in S  PROVE points[m].value <= SpentBy(n + 1)
      <3>1. m \in 1..Len(points) /\ points[m].ts < T
        BY <1>3
      <3>2. /\ Reading(points[m]) \in Readings
            /\ Reading(points[m]).ts = points[m].ts /\ Reading(points[m]).value = points[m].value
        BY <3>1 DEF Readings, Reading
      <3>3. CASE n < Len(turns)
        <4>1. n + 1 \in 1..Len(turns) /\ T = turns[n + 1]
          BY <1>1, <1>2, <3>3
        <4> QED
          BY <2>2, <3>1, <3>2, <4>1
      <3>4. CASE n = Len(turns)
        <4>1. n + 1 = Len(spent)
          BY <1>1, <3>4
        <4>2. points[m].value <= collected /\ counter <= SpentBy(n + 1)
          BY <2>2, <3>2, <4>1
        <4> QED
          BY <1>1, <1>5, <2>3, <3>1, <4>2
      <3> QED
        BY <1>6, <3>3, <3>4
    <2>5. \/ S = {} /\ SumFunctionOnSet(Increments, S) = 0
          \/ \E m \in S : /\ SumFunctionOnSet(Increments, S) = points[m].value
                          /\ \A i \in S : points[i].value <= points[m].value
      BY <1>0, <1>3, <1>8, <2>1, CounterSum
    <2> QED
      BY <1>4, <1>5, <2>4, <2>5
  <1>9. asked \in {"delta", "cumulative"}
    BY <1>0 DEF TelemetryTypeOK
  <1> QED
    BY <1>7, <1>8, <1>9

\* The turns, with what is unattributed, share exactly the total, and where the exports
\* can be read exactly the total is what was spent and delivered (cost_attribution).
THEOREM CostAddsUpThm == SpecTelemetry => []CostAddsUp
  <1>1. TelemetryInv => CostAddsUp
    BY AddsUp
  <1> QED
    BY <1>1, TelemetryInvariant, PTL

\* No turn and those before it are given more than was spent by its end, however late
\* and in whatever order the exports arrive (cost_attribution, 1184-1191).
THEOREM CostNeverEarlyThm == SpecTelemetry => []CostNeverEarly
  <1>1. TelemetryInv => CostNeverEarly
    BY NeverEarly
  <1> QED
    BY <1>1, TelemetryInvariant, PTL
=============================================================================
