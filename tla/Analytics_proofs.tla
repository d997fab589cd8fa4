-------------------------- MODULE Analytics_proofs --------------------------
(***************************************************************************)
(* What holds of the measures of cia/analytics.py for every number of      *)
(* sessions, tools, events, calls, permissions and lost hooks.             *)
(***************************************************************************)
EXTENDS Analytics, Sums, FiniteSetTheorems, SequenceTheorems, TLAPS

-----------------------------------------------------------------------------
(* The loop of pair_tool_calls.                                            *)

\* The starts left unmatched of S by the event e.
After(S, e) ==
    CASE e.phase = "tool_call_start" -> (S \ Own(S, e)) \cup {e}
      [] e.phase = "tool_call_end"   -> S \ Taken(S, e)
      [] OTHER                       -> S

\* What the loop makes of the first n events, one after the other.
Loop(ev, n, f) == f = [k \in 0..n |-> IF k = 0 THEN {} ELSE After(f[k - 1], ev[k])]

\* There is a function that the loop computes, ...
LEMMA LoopExists == ASSUME NEW ev, NEW n \in Nat PROVE \E f : Loop(ev, n, f)
  <1> DEFINE T == {k \in Nat : ~ \E f : Loop(ev, k, f)}
  <1>1. ASSUME T # {}  PROVE FALSE
    <2>1. PICK m \in T : \A k \in T : m <= k
      <3>1. T \in SUBSET Nat
        OBVIOUS
      <3> HIDE DEF T
      <3> QED
        BY <1>1, <3>1, LeastNumber
    <2>2. m \in Nat /\ ~ \E f : Loop(ev, m, f)
      OBVIOUS
    <2>3. m # 0 => m - 1 \in Nat /\ \E f : Loop(ev, m - 1, f)
      <3>1. m # 0 => m - 1 \in Nat /\ m - 1 \notin T
        BY <2>1, <2>2
      <3> QED
        BY <3>1
    <2> HIDE DEF T
    <2>4. CASE m = 0
      <3> DEFINE f == [k \in 0..0 |-> {}]
      <3>1. Loop(ev, 0, f)
        BY DEF Loop
      <3> QED
        BY <2>2, <2>4, <3>1
    <2>5. CASE m # 0
      <3>1. PICK f : Loop(ev, m - 1, f)
        BY <2>3, <2>5
      <3> DEFINE g == [k \in 0..m |-> IF k = m THEN After(f[m - 1], ev[m]) ELSE f[k]]
      <3>2. \A k \in 0..(m - 1) : f[k] = IF k = 0 THEN {} ELSE After(f[k - 1], ev[k])
        BY <3>1 DEF Loop
      <3>3. \A k \in 0..m : g[k] = IF k = 0 THEN {} ELSE After(g[k - 1], ev[k])
        <4> SUFFICES ASSUME NEW k \in 0..m
                     PROVE  g[k] = IF k = 0 THEN {} ELSE After(g[k - 1], ev[k])
          OBVIOUS
        <4>1. CASE k = m
          <5>1. g[k - 1] = f[m - 1] /\ k # 0
            BY <2>2, <2>5, <4>1
          <5> QED
            BY <4>1, <5>1
        <4>2. CASE k # m
          <5>1. k \in 0..(m - 1) /\ (k # 0 => k - 1 \in 0..m /\ k - 1 # m)
            BY <2>2, <4>2
          <5>2. k # 0 => g[k - 1] = f[k - 1]
            BY <5>1
          <5> QED
            BY <3>2, <4>2, <5>1, <5>2
        <4> QED
          BY <4>1, <4>2
      <3>4. g = [k \in 0..m |-> g[k]]
        OBVIOUS
      <3> HIDE DEF g
      <3>5. Loop(ev, m, g)
        <4>1. [k \in 0..m |-> g[k]] = [k \in 0..m |-> IF k = 0 THEN {} ELSE After(g[k - 1], ev[k])]
          BY <3>3
        <4> QED
          BY <3>4, <4>1 DEF Loop
      <3> QED
        BY <2>2, <3>5
    <2> QED
      BY <2>4, <2>5
  <1>2. n \notin T
    <2> HIDE DEF T
    <2> QED
      BY <1>1
  <1> QED
    BY <1>2

\* Two lists have the first i events in common.
Agree(ev, ew, i) == \A k \in 1..i : ev[k] = ew[k]

\* ... and later events do not change what it made of the earlier ones.
LEMMA LoopSame ==
    ASSUME NEW ev, NEW n \in Nat, NEW f, Loop(ev, n, f),
           NEW ew, NEW m \in Nat, NEW g, Loop(ew, m, g),
           NEW i \in Nat, i <= n, i <= m, Agree(ev, ew, i)
    PROVE  \A k \in 0..i : f[k] = g[k]
  <1> DEFINE T == {k \in 0..i : f[k] # g[k]}
  <1>1. \A k \in 0..i : f[k] = IF k = 0 THEN {} ELSE After(f[k - 1], ev[k])
    <2>1. \A k \in 0..n : f[k] = IF k = 0 THEN {} ELSE After(f[k - 1], ev[k])
      BY ONLY Loop(ev, n, f) DEF Loop
    <2>2. 0..i \subseteq 0..n
      OBVIOUS
    <2> QED
      BY <2>1, <2>2
  <1>2. \A k \in 0..i : g[k] = IF k = 0 THEN {} ELSE After(g[k - 1], ew[k])
    <2>1. \A k \in 0..m : g[k] = IF k = 0 THEN {} ELSE After(g[k - 1], ew[k])
      BY ONLY Loop(ew, m, g) DEF Loop
    <2>2. 0..i \subseteq 0..m
      OBVIOUS
    <2> QED
      BY <2>1, <2>2
  <1>3. ASSUME T # {}  PROVE FALSE
    <2>1. PICK k \in T : \A j \in T : k <= j
      <3>1. T \in SUBSET Nat
        OBVIOUS
      <3> HIDE DEF T
      <3> QED
        BY <1>3, <3>1, LeastNumber
    <2>2. k \in 0..i /\ f[k] # g[k]
      OBVIOUS
    <2>3. k # 0
      BY <1>1, <1>2, <2>2
    <2>4. k - 1 \in 0..i /\ k \in 1..i /\ k - 1 \notin T
      BY <2>1, <2>2, <2>3
    <2>5. f[k - 1] = g[k - 1] /\ ev[k] = ew[k]
      BY <2>4 DEF Agree
    <2>6. f[k] = After(f[k - 1], ev[k]) /\ g[k] = After(g[k - 1], ew[k])
      BY <1>1, <1>2, <2>2, <2>3
    <2> QED
      BY <2>2, <2>5, <2>6
  <1> QED
    BY <1>3

\* Unmatched is what the loop computes, before a step ...
LEMMA UnmatchedLoop == ASSUME Len(events) \in Nat PROVE Loop(events, Len(events), Unmatched)
  <1>1. \E f : f = [n \in 0..Len(events) |-> IF n = 0 THEN {} ELSE After(f[n - 1], events[n])]
    BY LoopExists DEF Loop
  <1> QED
    BY <1>1 DEF Unmatched, After, Loop

\* ... and after it.
LEMMA UnmatchedLoopNext ==
    ASSUME Len(events') \in Nat PROVE Loop(events', Len(events'), Unmatched')
  <1>1. \E f : f = [n \in 0..Len(events') |-> IF n = 0 THEN {} ELSE After(f[n - 1], events'[n])]
    BY LoopExists DEF Loop
  <1> QED
    BY <1>1 DEF Unmatched, After, Loop

-----------------------------------------------------------------------------
(* What a step adds to the list.                                           *)

Phases == {"user_prompt", "permission", "idle", "turn_end", "session_end", "api_response_end",
           "otel_event", "tool_call_start", "tool_call_end"}

EventType == [ts : Nat \ {0}, phase : Phases, sid : Sessions \cup {None}, tool : Tools \cup {None},
              file : Files \cup {None}, id : Nat]

CallType == [sid : Sessions, tool : Tools, file : Files, id : Nat \ {0}, start : Nat \ {0},
             end : Nat, heard : BOOLEAN]

TypeOK ==
    /\ identified \in SUBSET Sessions
    /\ clock \in Nat /\ lost \in Nat
    /\ events \in Seq(EventType)
    /\ open \in [Sessions -> Nat]
    /\ turns \subseteq [sid : Sessions, start : Nat, end : Nat]
    /\ calls \subseteq CallType /\ IsFiniteSet(calls)
    /\ asked \subseteq [sid : Sessions, ts : Nat, until : Nat]
    /\ responses \in Seq(Sessions)

\* The list is a set of events at different times, none in the future.
Timed == /\ \A x, y \in Range(events) : x.ts = y.ts => x = y
         /\ \A x \in Range(events) : x.ts <= clock

\* A step at which e happens: it is recorded, or its hook is lost.
Happens(e) ==
    /\ e.ts = clock + 1 /\ clock' = clock + 1 /\ identified' = identified
    /\ \/ events' = Append(events, e) /\ lost' = lost
       \/ events' = events /\ lost' = lost + 1

\* The starts left unmatched so far.
R == Unmatched[Len(events)]

\* What such a step does to the list, to the starts and to the pairs.
LEMMA Recorded ==
    ASSUME events \in Seq(EventType), NEW e \in EventType, events' = Append(events, e)
    PROVE  /\ events' \in Seq(EventType)
           /\ Range(events') = Range(events) \cup {e}
           /\ events' # events
           /\ R' = After(R, e)
           /\ PairToolCalls' = PairToolCalls \cup
                  (IF e.phase = "tool_call_end" THEN {Pairing(x, e) : x \in Taken(R, e)} ELSE {})
  <1>1. /\ events' \in Seq(EventType) /\ Len(events') = Len(events) + 1 /\ Len(events) \in Nat
        /\ \A i \in 1..Len(events) : events'[i] = events[i]
        /\ events'[Len(events) + 1] = e
    OBVIOUS
  <1>2. DOMAIN events = 1..Len(events) /\ DOMAIN events' = 1..Len(events')
    BY <1>1
  <1>3. DOMAIN events' = DOMAIN events \cup {Len(events) + 1} /\ Len(events) + 1 \notin DOMAIN events
    BY <1>1, <1>2
  <1>4. Range(events') = Range(events) \cup {e}
    BY <1>1, <1>2, <1>3 DEF Range
  <1>5. Loop(events, Len(events), Unmatched) /\ Loop(events', Len(events'), Unmatched')
    BY <1>1, UnmatchedLoop, UnmatchedLoopNext
  <1>6. \A k \in 0..Len(events) : Unmatched'[k] = Unmatched[k]
    <2>1. PICK f, g, n, m, i, ev, ew :
              /\ f = Unmatched /\ g = Unmatched' /\ n = Len(events) /\ m = Len(events')
              /\ i = n /\ ev = events /\ ew = events'
      OBVIOUS
    <2>2. Loop(ev, n, f) /\ Loop(ew, m, g)
      BY <1>5, <2>1
    <2>3. n \in Nat /\ m \in Nat /\ i \in Nat /\ i <= n /\ i <= m
      BY <1>1, <2>1
    <2>4. Agree(ev, ew, i)
      BY <1>1, <2>1 DEF Agree
    <2>5. \A k \in 0..i : f[k] = g[k]
      BY ONLY <2>2, <2>3, <2>4, LoopSame
    <2> QED
      BY <2>1, <2>5
  <1>7. R' = After(R, e)
    <2>1. \A k \in 0..Len(events') :
              Unmatched'[k] = IF k = 0 THEN {} ELSE After(Unmatched'[k - 1], events'[k])
      BY <1>5 DEF Loop
    <2>2. Len(events') \in 0..Len(events') /\ Len(events') # 0 /\ Len(events') - 1 = Len(events)
      BY <1>1
    <2>3. Unmatched'[Len(events')] = After(Unmatched'[Len(events)], events'[Len(events')])
      BY <2>1, <2>2
    <2>4. Unmatched'[Len(events)] = Unmatched[Len(events)]
      BY <1>1, <1>6
    <2> QED
      BY <1>1, <2>3, <2>4 DEF R
  <1>8. PairToolCalls' = PairToolCalls \cup
            (IF e.phase = "tool_call_end" THEN {Pairing(x, e) : x \in Taken(R, e)} ELSE {})
    <2> DEFINE Pairs(n) == {Pairing(x, events[n]) : x \in Taken(Unmatched[n - 1], events[n])}
               PairsNext(n) == {Pairing(x, events'[n]) : x \in Taken(Unmatched'[n - 1], events'[n])}
               Ends == {k \in DOMAIN events : events[k].phase = "tool_call_end"}
    <2>1. \A n \in DOMAIN events : events'[n] = events[n] /\ Unmatched'[n - 1] = Unmatched[n - 1]
      BY <1>1, <1>2, <1>6
    <2>2. Unmatched'[(Len(events) + 1) - 1] = R
      BY <1>1, <1>6 DEF R
    <2>3. PairToolCalls = UNION {Pairs(n) : n \in Ends}
      BY DEF PairToolCalls
    <2>4. PairToolCalls' = UNION {PairsNext(n) : n \in Ends'}
      BY DEF PairToolCalls
    <2>5. \A n \in DOMAIN events : PairsNext(n) = Pairs(n)
      BY <2>1
    <2>6. PairsNext(Len(events) + 1) = {Pairing(x, e) : x \in Taken(R, e)}
      BY <1>1, <2>2, Zenon
    <2>7. Ends' = Ends \cup (IF e.phase = "tool_call_end" THEN {Len(events) + 1} ELSE {})
      BY <1>1, <1>2, <1>3
    <2>8. Ends \subseteq DOMAIN events
      OBVIOUS
    <2> HIDE DEF Pairs, PairsNext, Ends
    <2>9. UNION {PairsNext(n) : n \in Ends} = UNION {Pairs(n) : n \in Ends}
      BY <2>5, <2>8
    <2>10. CASE e.phase = "tool_call_end"
      <3>1. Ends' = Ends \cup {Len(events) + 1}
        BY <2>7, <2>10
      <3>2. PairToolCalls' = (UNION {PairsNext(n) : n \in Ends}) \cup PairsNext(Len(events) + 1)
        BY <2>4, <3>1
      <3> QED
        BY <2>3, <2>6, <2>9, <2>10, <3>2
    <2>11. CASE e.phase # "tool_call_end"
      <3>1. Ends' = Ends
        BY <2>7, <2>11
      <3> QED
        BY <2>3, <2>4, <2>9, <2>11, <3>1
    <2> QED
      BY <2>10, <2>11
  <1>9. events' # events
    BY <1>1
  <1> QED
    BY <1>1, <1>4, <1>7, <1>8, <1>9

\* What e is in each step of a session, of the proxy or of the telemetry.
Does(e) ==
    \/ \E s \in Sessions : Prompt(s) /\ e = Event("user_prompt", s, None, None, 0)
    \/ \E s \in Sessions : AskPermission(s) /\ e = Event("permission", s, None, None, 0)
    \/ \E s \in Sessions : SayIdle(s) /\ e = Event("idle", s, None, None, 0)
    \/ \E s \in Sessions : EndTurn(s) /\ e = Event("turn_end", s, None, None, 0)
    \/ \E s \in Sessions : EndSession(s) /\ e = Event("session_end", s, None, None, 0)
    \/ \E s \in Sessions :
           Respond(s) /\ e = Event("api_response_end", None, None, None, Len(responses) + 1)
    \/ \E flow \in DOMAIN responses :
           Account(flow) /\ e = Event("otel_event", responses[flow], None, None, flow)
    \/ \E s \in Sessions, tool \in Tools, file \in Files :
           /\ Call(s, tool, file)
           /\ e = Event("tool_call_start", s, tool, file, UseId(s, Cardinality(calls) + 1))
    \/ \E a \in asked, tool \in Tools, file \in Files :
           /\ a.until = 0 /\ Approve(a, tool, file)
           /\ e = Event("tool_call_start", a.sid, tool, file, UseId(a.sid, Cardinality(calls) + 1))
    \/ \E c \in calls :
           /\ c.end = 0 /\ Return(c)
           /\ e = Event("tool_call_end", c.sid, c.tool, c.file, UseId(c.sid, c.id))

\* The events of the list have their type.
LEMMA EventsTyped == ASSUME events \in Seq(EventType) PROVE Range(events) \subseteq EventType
  BY DEF Range

\* A hook is the event of its step.
LEMMA HookHappens ==
    ASSUME TypeOK, NEW phase \in Phases, NEW s \in Sessions, NEW tool \in Tools \cup {None},
           NEW file \in Files \cup {None}, NEW id \in Nat, Hook(phase, s, tool, file, id)
    PROVE  /\ Event(phase, s, tool, file, id) \in EventType
           /\ Happens(Event(phase, s, tool, file, id))
  BY DEF TypeOK, Hook, Tick, Record, Event, EventType, Happens

\* Every step is that of one event.
LEMMA StepHappens ==
    ASSUME TypeOK, Next
    PROVE  \E e \in EventType : Happens(e) /\ Does(e)
  <1>1. Cardinality(calls) \in Nat /\ Len(responses) \in Nat
    BY FS_CardinalityType DEF TypeOK
  <1>2. /\ \A s \in Sessions, n \in Nat : UseId(s, n) \in Nat
        /\ 0 \in Nat /\ None \in Tools \cup {None} /\ \A tool \in Tools : tool \in Tools \cup {None}
        /\ None \in Files \cup {None} /\ \A file \in Files : file \in Files \cup {None}
    BY DEF UseId
  <1>3. ASSUME NEW s \in Sessions, Prompt(s)
        PROVE  \E e \in EventType : Happens(e) /\ Does(e)
    <2> DEFINE e == Event("user_prompt", s, None, None, 0)
    <2>1. Happens(e) /\ e \in EventType
      BY <1>3, <1>2, HookHappens DEF Prompt, Phases
    <2>2. Does(e)
      BY <1>3 DEF Does
    <2> QED
      BY <2>1, <2>2
  <1>4. ASSUME NEW s \in Sessions, AskPermission(s)
        PROVE  \E e \in EventType : Happens(e) /\ Does(e)
    <2> DEFINE e == Event("permission", s, None, None, 0)
    <2>1. Happens(e) /\ e \in EventType
      BY <1>4, <1>2, HookHappens DEF AskPermission, Phases
    <2>2. Does(e)
      BY <1>4 DEF Does
    <2> QED
      BY <2>1, <2>2
  <1>5. ASSUME NEW s \in Sessions, SayIdle(s)
        PROVE  \E e \in EventType : Happens(e) /\ Does(e)
    <2> DEFINE e == Event("idle", s, None, None, 0)
    <2>1. Happens(e) /\ e \in EventType
      BY <1>5, <1>2, HookHappens DEF SayIdle, Phases
    <2>2. Does(e)
      BY <1>5 DEF Does
    <2> QED
      BY <2>1, <2>2
  <1>6. ASSUME NEW s \in Sessions, EndTurn(s)
        PROVE  \E e \in EventType : Happens(e) /\ Does(e)
    <2> DEFINE e == Event("turn_end", s, None, None, 0)
    <2>1. Happens(e) /\ e \in EventType
      BY <1>6, <1>2, HookHappens DEF EndTurn, Phases
    <2>2. Does(e)
      BY <1>6 DEF Does
    <2> QED
      BY <2>1, <2>2
  <1>7. ASSUME NEW s \in Sessions, EndSession(s)
        PROVE  \E e \in EventType : Happens(e) /\ Does(e)
    <2> DEFINE e == Event("session_end", s, None, None, 0)
    <2>1. Happens(e) /\ e \in EventType
      BY <1>7, <1>2, HookHappens DEF EndSession, Phases
    <2>2. Does(e)
      BY <1>7 DEF Does
    <2> QED
      BY <2>1, <2>2
  <1>8. ASSUME NEW s \in Sessions, Respond(s)
        PROVE  \E e \in EventType : Happens(e) /\ Does(e)
    <2> DEFINE e == Event("api_response_end", None, None, None, Len(responses) + 1)
    <2>1. Len(responses') = Len(responses) + 1
      BY <1>8 DEF Respond, TypeOK
    <2>2. Happens(e)
      BY <1>8, <2>1 DEF Respond, Tick, Record, Event, Happens
    <2>3. e \in EventType
      BY <1>1 DEF TypeOK, Event, EventType, Phases
    <2>4. Does(e)
      BY <1>8 DEF Does
    <2> QED
      BY <2>2, <2>3, <2>4
  <1>9. ASSUME NEW flow \in DOMAIN responses, Account(flow)
        PROVE  \E e \in EventType : Happens(e) /\ Does(e)
    <2> DEFINE e == Event("otel_event", responses[flow], None, None, flow)
    <2>1. Happens(e)
      BY <1>9 DEF Account, Tick, Record, Event, Happens
    <2>2. flow \in Nat /\ responses[flow] \in Sessions
      BY DEF TypeOK
    <2>3. e \in EventType
      BY <2>2 DEF TypeOK, Event, EventType, Phases
    <2>4. Does(e)
      BY <1>9 DEF Does
    <2> QED
      BY <2>1, <2>3, <2>4
  <1>10. ASSUME NEW s \in Sessions, NEW tool \in Tools, NEW file \in Files, Call(s, tool, file)
         PROVE  \E e \in EventType : Happens(e) /\ Does(e)
    <2> DEFINE e == Event("tool_call_start", s, tool, file, UseId(s, Cardinality(calls) + 1))
    <2>1. Happens(e) /\ e \in EventType
      BY <1>1, <1>2, <1>10, HookHappens DEF Call, StartCall, Phases
    <2>2. Does(e)
      BY <1>10 DEF Does
    <2> QED
      BY <2>1, <2>2
  <1>11. ASSUME NEW a \in asked, NEW tool \in Tools, NEW file \in Files, a.until = 0,
                Approve(a, tool, file)
         PROVE  \E e \in EventType : Happens(e) /\ Does(e)
    <2> DEFINE e == Event("tool_call_start", a.sid, tool, file, UseId(a.sid, Cardinality(calls) + 1))
    <2>1. a.sid \in Sessions
      BY DEF TypeOK
    <2>2. Happens(e) /\ e \in EventType
      BY <1>1, <1>2, <1>11, <2>1, HookHappens DEF Approve, StartCall, Phases
    <2>3. Does(e)
      BY <1>11 DEF Does
    <2> QED
      BY <2>2, <2>3
  <1>12. ASSUME NEW c \in calls, c.end = 0, Return(c)
         PROVE  \E e \in EventType : Happens(e) /\ Does(e)
    <2> DEFINE e == Event("tool_call_end", c.sid, c.tool, c.file, UseId(c.sid, c.id))
    <2>1. c.sid \in Sessions /\ c.tool \in Tools /\ c.file \in Files /\ c.id \in Nat
      BY DEF TypeOK, CallType
    <2>2. Happens(e) /\ e \in EventType
      BY <1>2, <1>12, <2>1, HookHappens DEF Return, Phases
    <2>3. Does(e)
      BY <1>12 DEF Does
    <2> QED
      BY <2>2, <2>3
  <1> QED
    BY <1>3, <1>4, <1>5, <1>6, <1>7, <1>8, <1>9, <1>10, <1>11, <1>12 DEF Next

\* What such an event does to the list.
LEMMA HappensKeeps ==
    ASSUME TypeOK, Timed, NEW e \in EventType, Happens(e)
    PROVE  /\ events' \in Seq(EventType) /\ clock' \in Nat /\ lost' \in Nat
           /\ Timed'
           /\ Range(events') = Range(events) \/ Range(events') = Range(events) \cup {e}
           /\ lost' = 0 => lost = 0 /\ events' = Append(events, e)
           /\ (events' # events) <=> (events' = Append(events, e))
  <1>1. CASE events' = Append(events, e)
    <2>1. events' \in Seq(EventType) /\ Range(events') = Range(events) \cup {e} /\ events' # events
      BY <1>1, Recorded DEF TypeOK
    <2>2. Timed'
      <3>1. \A x \in Range(events) : x.ts \in Nat
        BY EventsTyped DEF TypeOK, EventType
      <3> QED
        BY <2>1, <3>1 DEF TypeOK, Timed, Happens
    <2> QED
      BY <1>1, <2>1, <2>2 DEF TypeOK, Happens
  <1>2. CASE events' # Append(events, e)
    <2>1. events' = events /\ lost' = lost + 1
      BY <1>2 DEF Happens
    <2>2. Timed'
      <3>1. \A x \in Range(events) : x.ts \in Nat
        BY EventsTyped DEF TypeOK, EventType
      <3> QED
        BY <2>1, <3>1 DEF TypeOK, Timed, Happens
    <2> QED
      BY <1>2, <2>1, <2>2 DEF TypeOK, Happens
  <1> QED
    BY <1>1, <1>2

\* Every variable keeps its type.
LEMMA TypeStep ==
    ASSUME TypeOK, Timed, NEW e \in EventType, Happens(e), Does(e)
    PROVE  TypeOK'
  <1>1. identified' \in SUBSET Sessions /\ events' \in Seq(EventType) /\ clock' \in Nat /\ lost' \in Nat
    BY HappensKeeps DEF TypeOK, Happens
  <1>2. clock' \in Nat \ {0}
    BY DEF TypeOK, Happens
  <1>3. ASSUME NEW s \in Sessions, Prompt(s)  PROVE TypeOK'
    <2>1. \A a \in Pending(s) : [a EXCEPT !.until = clock'] \in [sid : Sessions, ts : Nat, until : Nat]
      BY <1>1 DEF TypeOK, Pending
    <2> QED
      BY <1>1, <1>3, <2>1 DEF TypeOK, Prompt
  <1>4. ASSUME NEW s \in Sessions, AskPermission(s)  PROVE TypeOK'
    BY <1>1, <1>4 DEF TypeOK, AskPermission, session
  <1>5. ASSUME NEW s \in Sessions, SayIdle(s)  PROVE TypeOK'
    BY <1>1, <1>5 DEF TypeOK, SayIdle, session
  <1>6. ASSUME NEW s \in Sessions, EndTurn(s)  PROVE TypeOK'
    BY <1>1, <1>6 DEF TypeOK, EndTurn
  <1>7. ASSUME NEW s \in Sessions, EndSession(s)  PROVE TypeOK'
    BY <1>1, <1>7 DEF TypeOK, EndSession, session
  <1>8. ASSUME NEW s \in Sessions, Respond(s)  PROVE TypeOK'
    BY <1>1, <1>8 DEF TypeOK, Respond, session
  <1>9. ASSUME NEW flow \in DOMAIN responses, Account(flow)  PROVE TypeOK'
    BY <1>1, <1>9 DEF TypeOK, Account, session
  <1>10. ASSUME NEW s \in Sessions, NEW tool \in Tools, NEW file \in Files, StartCall(s, tool, file)
         PROVE  calls' \subseteq CallType /\ IsFiniteSet(calls')
    <2>1. PICK c : c = [sid |-> s, tool |-> tool, file |-> file,
                        id |-> Cardinality(calls) + 1, start |-> clock', end |-> 0, heard |-> events' # events]
      OBVIOUS
    <2>2. Cardinality(calls) \in Nat
      BY FS_CardinalityType DEF TypeOK
    <2>3. (events' # events) \in BOOLEAN
      OBVIOUS
    <2>4. c \in CallType
      BY <1>2, <2>1, <2>2, <2>3 DEF CallType
    <2>5. calls' = calls \cup {c}
      BY <1>10, <2>1 DEF StartCall
    <2> QED
      BY <2>4, <2>5, FS_AddElement DEF TypeOK
  <1>11. ASSUME NEW s \in Sessions, NEW tool \in Tools, NEW file \in Files, Call(s, tool, file)
         PROVE  TypeOK'
    BY <1>1, <1>10, <1>11 DEF TypeOK, Call, session
  <1>12. ASSUME NEW a \in asked, NEW tool \in Tools, NEW file \in Files, Approve(a, tool, file)
         PROVE  TypeOK'
    <2>1. a.sid \in Sessions /\ [a EXCEPT !.until = clock'] \in [sid : Sessions, ts : Nat, until : Nat]
      BY <1>1 DEF TypeOK
    <2>2. calls' \subseteq CallType /\ IsFiniteSet(calls')
      BY <1>10, <1>12, <2>1 DEF Approve
    <2> QED
      BY <1>1, <1>12, <2>1, <2>2 DEF TypeOK, Approve, session
  <1>13. ASSUME NEW c \in calls, Return(c)  PROVE TypeOK'
    <2>1. PICK d : d = [c EXCEPT !.end = clock', !.heard = @ /\ (events' # events)]
      OBVIOUS
    <2>2. d \in CallType
      <3>1. (c.heard /\ (events' # events)) \in BOOLEAN
        OBVIOUS
      <3> QED
        BY <1>1, <2>1, <3>1 DEF TypeOK, CallType
    <2>3. calls' = (calls \ {c}) \cup {d}
      BY <1>13, <2>1 DEF Return
    <2>4. IsFiniteSet(calls \ {c})
      BY FS_RemoveElement, FS_Difference DEF TypeOK
    <2>5. IsFiniteSet(calls')
      BY <2>3, <2>4, FS_AddElement
    <2> QED
      BY <1>1, <1>13, <2>2, <2>3, <2>5 DEF TypeOK, Return, session
  <1> QED
    BY <1>3, <1>4, <1>5, <1>6, <1>7, <1>8, <1>9, <1>11, <1>12, <1>13 DEF Does

\* What the step of e does to the turns and to the permissions asked for.
Effect(e) ==
    /\ e.phase # "api_response_end" => e.sid \in Sessions
    /\ e.phase \in {"permission", "turn_end", "tool_call_start"} => open[e.sid] # 0
    /\ e.phase \in {"idle", "session_end"} => open[e.sid] = 0
    /\ e.phase = "turn_end" => Running(e.sid) = {} /\ Pending(e.sid) = {}
    /\ \A s \in Sessions :
           open'[s] = IF e.phase = "user_prompt" /\ s = e.sid /\ open[s] = 0 THEN e.ts
                      ELSE IF e.phase = "turn_end" /\ s = e.sid THEN 0 ELSE open[s]
    /\ turns' = turns \cup IF e.phase = "turn_end" THEN {Span(e.sid, open[e.sid], e.ts)} ELSE {}
    /\ \A b \in asked' :
           \/ b \in asked
           \/ e.phase = "permission" /\ b.sid = e.sid /\ b.ts = e.ts /\ b.until = 0
           \/ /\ e.phase \in {"user_prompt", "tool_call_start"} /\ b.until = e.ts
              /\ \E a \in asked : a.until = 0 /\ a.sid = e.sid /\ b.sid = a.sid /\ b.ts = a.ts
    /\ \A a \in asked : \E b \in asked' : b.sid = a.sid /\ b.ts = a.ts
    /\ e.phase = "permission" => \E b \in asked' : b.sid = e.sid /\ b.ts = e.ts
    /\ e.phase = "user_prompt" => \A b \in asked' : b.sid = e.sid => b.until # 0

\* Each action has the effect that the phase of its event says.
LEMMA EffectOfStep ==
    ASSUME TypeOK, NEW e \in EventType, Happens(e), Does(e)
    PROVE  Effect(e)
  <1>1. clock' = e.ts /\ e.ts = clock + 1 /\ e.ts \in Nat /\ e.ts # 0
    BY DEF Happens, EventType
  <1>2. ASSUME NEW s \in Sessions, Prompt(s), e = Event("user_prompt", s, None, None, 0)  PROVE Effect(e)
    <2>1. e.phase = "user_prompt" /\ e.sid = s
      BY <1>2 DEF Event
    <2>2. \A q \in Sessions : open'[q] = IF q = s /\ open[q] = 0 THEN e.ts ELSE open[q]
      BY <1>1, <1>2 DEF Prompt, TypeOK
    <2>3. asked' = (asked \ Pending(s)) \cup {[a EXCEPT !.until = e.ts] : a \in Pending(s)}
      BY <1>1, <1>2 DEF Prompt
    <2>4. \A a \in Pending(s) : LET b == [a EXCEPT !.until = e.ts] IN
              b.sid = a.sid /\ b.ts = a.ts /\ b.until = e.ts /\ a.sid = s /\ a.until = 0 /\ a \in asked
      BY DEF Pending, TypeOK
    <2>5. turns' = turns
      BY <1>2 DEF Prompt
    <2>6. \A b \in asked' : \/ b \in asked /\ b \notin Pending(s)
                            \/ \E a \in Pending(s) : b = [a EXCEPT !.until = e.ts]
      BY <2>3
    <2>7. \A b \in asked' : \/ b \in asked /\ b \notin Pending(s)
                            \/ b.until = e.ts /\ \E a \in asked :
                                   a.until = 0 /\ a.sid = s /\ b.sid = a.sid /\ b.ts = a.ts
      <3> SUFFICES ASSUME NEW b \in asked', NEW a \in Pending(s), b = [a EXCEPT !.until = e.ts]
                   PROVE  b.until = e.ts /\ \E d \in asked :
                              d.until = 0 /\ d.sid = s /\ b.sid = d.sid /\ b.ts = d.ts
        BY <2>6
      <3>1. b.sid = a.sid /\ b.ts = a.ts /\ b.until = e.ts /\ a.sid = s /\ a.until = 0 /\ a \in asked
        BY <2>4
      <3> QED
        BY <3>1
    <2>8. \A b \in asked' : b.sid = s => b.until # 0
      BY <1>1, <2>7 DEF Pending
    <2>9. \A a \in asked : \E b \in asked' : b.sid = a.sid /\ b.ts = a.ts
      <3> SUFFICES ASSUME NEW a \in asked  PROVE \E b \in asked' : b.sid = a.sid /\ b.ts = a.ts
        OBVIOUS
      <3>1. CASE a \in Pending(s)
        BY <2>3, <2>4, <3>1
      <3>2. CASE a \notin Pending(s)
        BY <2>3, <3>2
      <3> QED
        BY <3>1, <3>2
    <2> QED
      BY <2>1, <2>2, <2>5, <2>7, <2>8, <2>9 DEF Effect
  <1>3. ASSUME NEW s \in Sessions, AskPermission(s), e = Event("permission", s, None, None, 0)
        PROVE Effect(e)
    <2>1. PICK n : n = [sid |-> s, ts |-> e.ts, until |-> 0]
      OBVIOUS
    <2>2. n.sid = s /\ n.ts = e.ts /\ n.until = 0
      BY <2>1
    <2>3. asked' = asked \cup {n}
      BY <1>1, <1>3, <2>1 DEF AskPermission
    <2>4. e.phase = "permission" /\ e.sid = s /\ open[s] # 0 /\ UNCHANGED <<open, turns>>
      BY <1>3 DEF AskPermission, Event, session
    <2> QED
      BY <2>2, <2>3, <2>4 DEF Effect
  <1>4. ASSUME NEW s \in Sessions, SayIdle(s), e = Event("idle", s, None, None, 0)  PROVE Effect(e)
    BY <1>1, <1>4 DEF SayIdle, Event, Effect, session
  <1>5. ASSUME NEW s \in Sessions, EndTurn(s), e = Event("turn_end", s, None, None, 0)  PROVE Effect(e)
    BY <1>1, <1>5 DEF EndTurn, Event, Effect, Span, TypeOK
  <1>6. ASSUME NEW s \in Sessions, EndSession(s), e = Event("session_end", s, None, None, 0)
        PROVE Effect(e)
    BY <1>1, <1>6 DEF EndSession, Event, Effect, session
  <1>7. ASSUME NEW s \in Sessions, Respond(s),
               e = Event("api_response_end", None, None, None, Len(responses) + 1)
        PROVE Effect(e)
    BY <1>1, <1>7 DEF Respond, Event, Effect, session
  <1>8. ASSUME NEW flow \in DOMAIN responses, Account(flow),
               e = Event("otel_event", responses[flow], None, None, flow)
        PROVE Effect(e)
    <2>1. responses[flow] \in Sessions
      BY DEF TypeOK
    <2> QED
      BY <1>1, <1>8, <2>1 DEF Account, Event, Effect, session
  <1>9. ASSUME NEW s \in Sessions, NEW tool \in Tools, NEW file \in Files, Call(s, tool, file),
               e = Event("tool_call_start", s, tool, file, UseId(s, Cardinality(calls) + 1))
        PROVE Effect(e)
    BY <1>1, <1>9 DEF Call, StartCall, Event, Effect, session
  <1>10. ASSUME NEW a \in asked, NEW tool \in Tools, NEW file \in Files, a.until = 0,
                Approve(a, tool, file),
                e = Event("tool_call_start", a.sid, tool, file, UseId(a.sid, Cardinality(calls) + 1))
         PROVE Effect(e)
    <2>1. PICK b : b = [a EXCEPT !.until = e.ts]
      OBVIOUS
    <2>2. a.sid \in Sessions /\ b.sid = a.sid /\ b.ts = a.ts /\ b.until = e.ts
      BY <2>1 DEF TypeOK
    <2>3. asked' = (asked \ {a}) \cup {b}
      BY <1>1, <1>10, <2>1 DEF Approve
    <2>4. e.phase = "tool_call_start" /\ e.sid = a.sid /\ open[a.sid] # 0 /\ UNCHANGED <<open, turns>>
      BY <1>10 DEF Approve, StartCall, Event, session
    <2>5. \A d \in asked : \E c \in asked' : c.sid = d.sid /\ c.ts = d.ts
      BY <2>2, <2>3
    <2>6. \A c \in asked' : c \in asked \/ c = b
      BY <2>3
    <2> QED
      BY <1>1, <1>10, <2>2, <2>4, <2>5, <2>6 DEF Effect
  <1>11. ASSUME NEW c \in calls, c.end = 0, Return(c),
                e = Event("tool_call_end", c.sid, c.tool, c.file, UseId(c.sid, c.id))
         PROVE Effect(e)
    <2>1. c.sid \in Sessions
      BY DEF TypeOK, CallType
    <2> QED
      BY <1>1, <1>11, <2>1 DEF Return, Event, Effect, session
  <1> QED
    BY <1>2, <1>3, <1>4, <1>5, <1>6, <1>7, <1>8, <1>9, <1>10, <1>11 DEF Does

-----------------------------------------------------------------------------
(* The first event after another.                                          *)

\* A set of events at different times.
Timely(E) == E \subseteq EventType /\ \A x, y \in E : x.ts = y.ts => x = y

\* The first event of E of these phases after e in its session.
FirstIn(E, e, P) ==
    LET later == {f \in E : f.sid = e.sid /\ f.ts > e.ts /\ f.phase \in P}
    IN  {f \in later : \A g \in later : f.ts <= g.ts}

\* It is that of the list.
LEMMA FirstOfList == \A e, P : First(e, P) = FirstIn(Range(events), e, P)
  BY DEF First, FirstIn, Of

\* There is one if any event comes, and no other.
LEMMA FirstIs ==
    ASSUME NEW E, Timely(E), NEW e, NEW P
    PROVE  /\ \A f \in FirstIn(E, e, P) : f \in E /\ f.sid = e.sid /\ f.ts > e.ts /\ f.phase \in P
           /\ \A g \in E : g.sid = e.sid /\ g.ts > e.ts /\ g.phase \in P =>
                  /\ \E f \in FirstIn(E, e, P) : TRUE
                  /\ \A f \in FirstIn(E, e, P) : f.ts <= g.ts
           /\ \A f, g \in FirstIn(E, e, P) : f = g
  <1> DEFINE later == {f \in E : f.sid = e.sid /\ f.ts > e.ts /\ f.phase \in P}
  <1>1. \A f \in later : f.ts \in Nat
    BY DEF Timely, EventType
  <1>2. ASSUME NEW g \in later  PROVE \E f \in later : \A h \in later : f.ts <= h.ts
    <2> DEFINE T == {f.ts : f \in later}
    <2>1. T \in SUBSET Nat /\ T # {}
      BY <1>1
    <2>2. PICK m \in T : \A k \in T : m <= k
      <3> HIDE DEF T
      <3> QED
        BY <2>1, LeastNumber
    <2> QED
      BY <2>2
  <1>3. \A f, g \in later : f.ts <= g.ts /\ g.ts <= f.ts => f = g
    BY <1>1 DEF Timely
  <1>4. FirstIn(E, e, P) = {f \in later : \A g \in later : f.ts <= g.ts}
    BY DEF FirstIn
  <1>5. \A f \in later : f \in E /\ f.sid = e.sid /\ f.ts > e.ts /\ f.phase \in P
    OBVIOUS
  <1>6. \A g \in E : g.sid = e.sid /\ g.ts > e.ts /\ g.phase \in P => g \in later
    OBVIOUS
  <1> HIDE DEF later
  <1> QED
    BY <1>2, <1>3, <1>4, <1>5, <1>6

\* The event e comes after those of E.
Later(E, e) == \A x \in E : x.ts < e.ts

\* A later event changes it only where there was none.
LEMMA FirstGrows ==
    ASSUME NEW E, Timely(E), NEW e \in EventType, Later(E, e), NEW H, H = E \cup {e}, NEW g \in E, NEW P
    PROVE  /\ FirstIn(E, g, P) # {} \/ e.sid # g.sid \/ e.phase \notin P =>
                  FirstIn(H, g, P) = FirstIn(E, g, P)
           /\ FirstIn(E, g, P) = {} /\ e.sid = g.sid /\ e.phase \in P => FirstIn(H, g, P) = {e}
  <1>1. Timely(H) /\ e.ts > g.ts
    BY DEF Timely, EventType, Later
  <1>2. PICK F, G : F = FirstIn(E, g, P) /\ G = FirstIn(H, g, P)
    OBVIOUS
  <1>3. /\ \A f \in F : f \in E /\ f.sid = g.sid /\ f.ts > g.ts /\ f.phase \in P
        /\ \A h \in E : h.sid = g.sid /\ h.ts > g.ts /\ h.phase \in P =>
               (\E f \in F : TRUE) /\ \A f \in F : f.ts <= h.ts
    BY <1>2, FirstIs
  <1>4. /\ \A f \in G : f \in H /\ f.sid = g.sid /\ f.ts > g.ts /\ f.phase \in P
        /\ \A h \in H : h.sid = g.sid /\ h.ts > g.ts /\ h.phase \in P =>
               (\E f \in G : TRUE) /\ \A f \in G : f.ts <= h.ts
        /\ \A f, h \in G : f = h
    <2>1. Timely(H)
      BY <1>1
    <2> QED
      BY ONLY <1>2, <2>1, FirstIs
  <1>5. \A x, y \in H : x.ts \in Nat /\ (x.ts <= y.ts /\ y.ts <= x.ts => x = y)
    <2>1. \A x \in H : x.ts \in Nat
      BY ONLY <1>1 DEF Timely, EventType
    <2>2. \A x, y \in H : x.ts = y.ts => x = y
      BY ONLY <1>1 DEF Timely
    <2> QED
      BY ONLY <2>1, <2>2
  <1>6. \A f \in F : f \in G
    BY <1>3, <1>4, <1>5 DEF Later
  <1>7. F # {} => G = F
    BY <1>4, <1>6
  <1>8. F = {} => G \subseteq {e}
    BY <1>3, <1>4
  <1>9. e.sid = g.sid /\ e.phase \in P => G # {}
    BY <1>1, <1>4
  <1> QED
    BY <1>2, <1>4, <1>7, <1>8, <1>9

-----------------------------------------------------------------------------
(* What the permissions and the waits are while no hook was lost.          *)

Quiet == {"idle", "turn_end", "session_end"}

\* Each permission was notified, and what ended the wait for it is in the list.
AskedHeard ==
    /\ \A a \in asked :
           /\ \E e \in Range(events) : e.phase = "permission" /\ e.sid = a.sid /\ e.ts = a.ts
           /\ a.until # 0 =>
                  /\ a.ts < a.until
                  /\ \E f \in Range(events) : /\ f.sid = a.sid /\ f.ts = a.until
                                              /\ f.phase \in {"user_prompt", "tool_call_start"}
    /\ \A e \in Range(events) :
           e.phase = "permission" => \E a \in asked : a.sid = e.sid /\ a.ts = e.ts

\* No prompt comes, no turn ends and no session is idle or ends before a permission
\* is answered.
AskedFirst ==
    /\ \A a \in asked : a.until = 0 => open[a.sid] # 0
    /\ \A a \in asked, g \in Range(events) :
           g.phase \in Quiet \cup {"user_prompt"} /\ g.sid = a.sid /\ a.ts < g.ts =>
               a.until # 0 /\ a.until <= g.ts

\* After a session was idle or a turn ended nothing comes but a prompt.
QuietTillPrompt ==
    /\ \A s \in Sessions : open[s] # 0 =>
           /\ \E p \in Range(events) : p.phase = "user_prompt" /\ p.sid = s /\ p.ts = open[s]
           /\ \A i \in Range(events) : i.phase \in Quiet /\ i.sid = s => i.ts < open[s]
    /\ \A i, w \in Range(events) :
           /\ i.phase \in Quiet /\ w.phase \in {"permission", "turn_end", "tool_call_start"}
           /\ i.sid = w.sid /\ i.ts < w.ts
           => \E p \in Range(events) : /\ p.phase = "user_prompt" /\ p.sid = i.sid
                                       /\ i.ts < p.ts /\ p.ts < w.ts

\* The list grows by e.
Grows(e) == /\ Timely(Range(events)) /\ e \in EventType
            /\ Range(events') = Range(events) \cup {e}
            /\ \A x \in Range(events) : x.ts < e.ts

\* Each of these is kept by a step that is heard.
LEMMA AskedHeardStep ==
    ASSUME TypeOK, NEW e, Grows(e), Effect(e), AskedHeard
    PROVE  AskedHeard'
  <1>1. ASSUME NEW b \in asked'
        PROVE  \E x \in Range(events') : x.phase = "permission" /\ x.sid = b.sid /\ x.ts = b.ts
    <2>1. CASE \E a \in asked : b.sid = a.sid /\ b.ts = a.ts
      BY <2>1 DEF AskedHeard, Grows
    <2>2. CASE e.phase = "permission" /\ b.sid = e.sid /\ b.ts = e.ts
      BY <2>2 DEF Grows
    <2> QED
      BY <2>1, <2>2 DEF Effect
  <1>2. ASSUME NEW b \in asked', b.until # 0
        PROVE  /\ b.ts < b.until
               /\ \E f \in Range(events') : /\ f.sid = b.sid /\ f.ts = b.until
                                            /\ f.phase \in {"user_prompt", "tool_call_start"}
    <2>1. CASE b \in asked
      BY <1>2, <2>1 DEF AskedHeard, Grows
    <2>2. CASE /\ e.phase \in {"user_prompt", "tool_call_start"} /\ b.until = e.ts
               /\ \E a \in asked : a.until = 0 /\ a.sid = e.sid /\ b.sid = a.sid /\ b.ts = a.ts
      <3>1. PICK a \in asked : a.sid = e.sid /\ b.sid = a.sid /\ b.ts = a.ts
        BY <2>2
      <3>2. PICK x \in Range(events) : x.ts = a.ts
        BY DEF AskedHeard
      <3> QED
        BY <2>2, <3>1, <3>2 DEF Grows
    <2> QED
      BY <1>2, <2>1, <2>2 DEF Effect
  <1>3. ASSUME NEW x \in Range(events'), x.phase = "permission"
        PROVE  \E b \in asked' : b.sid = x.sid /\ b.ts = x.ts
    <2>1. CASE x \in Range(events)
      <3>1. PICK a \in asked : a.sid = x.sid /\ a.ts = x.ts
        BY <1>3, <2>1 DEF AskedHeard
      <3> QED
        BY <3>1 DEF Effect
    <2>2. CASE x = e
      BY <1>3, <2>2 DEF Effect
    <2> QED
      BY <2>1, <2>2 DEF Grows
  <1> QED
    BY <1>1, <1>2, <1>3 DEF AskedHeard

\* So is the order of questions and answers, ...
LEMMA AskedFirstStep ==
    ASSUME TypeOK, NEW e, Grows(e), Effect(e), AskedHeard, AskedFirst
    PROVE  AskedFirst'
  <1>1. \A a \in asked : a.ts < e.ts /\ (a.until # 0 => a.until < e.ts) /\ a.sid \in Sessions
    BY DEF AskedHeard, Grows, TypeOK
  <1>2. ASSUME NEW b \in asked', b.until = 0  PROVE open'[b.sid] # 0
    <2>1. CASE b \in asked
      <3>1. open[b.sid] # 0 /\ b.sid \in Sessions
        BY <1>1, <1>2, <2>1 DEF AskedFirst
      <3>2. ~(e.phase = "turn_end" /\ b.sid = e.sid)
        BY <1>2, <2>1 DEF Effect, Pending
      <3> QED
        BY <3>1, <3>2 DEF Effect
    <2>2. CASE e.phase = "permission" /\ b.sid = e.sid
      BY <2>2 DEF Effect
    <2>3. CASE b.until = e.ts
      BY <1>2, <2>3 DEF Grows, EventType
    <2> QED
      BY <2>1, <2>2, <2>3 DEF Effect
  <1>3. ASSUME NEW b \in asked', NEW g \in Range(events'),
               g.phase \in Quiet \cup {"user_prompt"}, g.sid = b.sid, b.ts < g.ts
        PROVE  b.until # 0 /\ b.until <= g.ts
    <2>1. CASE b \in asked /\ g \in Range(events)
      BY <1>3, <2>1 DEF AskedFirst
    <2>2. CASE b \in asked /\ g = e
      <3>1. e.phase = "user_prompt" => b.until # 0
        BY <1>3, <2>2 DEF Effect
      <3>2. e.phase = "turn_end" => b.until # 0
        BY <1>3, <2>2 DEF Effect, Pending
      <3>3. e.phase \in {"idle", "session_end"} => b.until # 0
        BY <1>3, <2>2 DEF Effect, AskedFirst
      <3>4. b.until # 0
        BY <1>3, <2>2, <3>1, <3>2, <3>3 DEF Quiet
      <3> QED
        BY <1>1, <2>2, <3>4 DEF Grows, EventType, TypeOK
    <2>3. CASE b.ts = e.ts
      BY <1>3, <2>3 DEF Grows, EventType, Timely
    <2>4. CASE /\ e.phase \in {"user_prompt", "tool_call_start"} /\ b.until = e.ts
               /\ \E a \in asked : a.until = 0 /\ a.sid = e.sid /\ b.sid = a.sid /\ b.ts = a.ts
      <3>1. PICK a \in asked : a.until = 0 /\ b.sid = a.sid /\ b.ts = a.ts
        BY <2>4
      <3>2. g \notin Range(events)
        BY <1>3, <3>1 DEF AskedFirst
      <3>3. g = e
        BY <3>2 DEF Grows
      <3> QED
        BY <2>4, <3>3 DEF Grows, EventType
    <2> QED
      BY <2>1, <2>2, <2>3, <2>4 DEF Effect, Grows
  <1> QED
    BY <1>2, <1>3 DEF AskedFirst

\* ... and that nothing but a prompt ends the quiet.
LEMMA QuietStep ==
    ASSUME TypeOK, NEW e, Grows(e), Effect(e), QuietTillPrompt
    PROVE  QuietTillPrompt'
  <1>1. ASSUME NEW s \in Sessions, open'[s] # 0
        PROVE  /\ \E p \in Range(events') : p.phase = "user_prompt" /\ p.sid = s /\ p.ts = open'[s]
               /\ \A i \in Range(events') : i.phase \in Quiet /\ i.sid = s => i.ts < open'[s]
    <2>1. CASE open[s] = 0
      <3>1. e.phase = "user_prompt" /\ e.sid = s /\ open'[s] = e.ts
        BY <1>1, <2>1 DEF Effect
      <3> QED
        BY <3>1 DEF Grows, Quiet
    <2>2. CASE open[s] # 0
      <3>1. open'[s] = open[s] /\ ~(e.phase = "turn_end" /\ e.sid = s)
        BY <1>1, <2>2 DEF Effect
      <3>2. ~(e.phase \in Quiet /\ e.sid = s)
        BY <2>2, <3>1 DEF Effect, Quiet
      <3> QED
        BY <2>2, <3>1, <3>2 DEF Grows, QuietTillPrompt
    <2> QED
      BY <2>1, <2>2
  <1>2. ASSUME NEW i \in Range(events'), NEW w \in Range(events'),
               i.phase \in Quiet, w.phase \in {"permission", "turn_end", "tool_call_start"},
               i.sid = w.sid, i.ts < w.ts
        PROVE  \E p \in Range(events') : /\ p.phase = "user_prompt" /\ p.sid = i.sid
                                         /\ i.ts < p.ts /\ p.ts < w.ts
    <2>1. i \in Range(events)
      <3>1. ~(e.ts < w.ts)
        BY DEF Grows, Timely, EventType
      <3> QED
        BY <1>2, <3>1 DEF Grows
    <2>2. CASE w \in Range(events)
      BY <1>2, <2>1, <2>2 DEF QuietTillPrompt, Grows
    <2>3. CASE w = e
      <3>1. e.sid \in Sessions /\ open[e.sid] # 0
        BY <1>2, <2>3 DEF Effect
      <3>2. i.ts < open[e.sid]
        BY <1>2, <2>1, <2>3, <3>1 DEF QuietTillPrompt
      <3>3. PICK p \in Range(events) : p.phase = "user_prompt" /\ p.sid = e.sid /\ p.ts = open[e.sid]
        BY <3>1 DEF QuietTillPrompt
      <3> QED
        BY <1>2, <2>3, <3>2, <3>3 DEF Grows
    <2> QED
      BY <2>2, <2>3 DEF Grows
  <1> QED
    BY <1>1, <1>2 DEF QuietTillPrompt

\* What the step of e does to the calls.
CallEffect(e) ==
    /\ e.phase \notin {"tool_call_start", "tool_call_end"} => calls' = calls
    /\ e.phase = "tool_call_start" =>
           /\ e.id = UseId(e.sid, Cardinality(calls) + 1)
           /\ \E c \in CallType :
                  /\ calls' = calls \cup {c}
                  /\ c.sid = e.sid /\ c.tool = e.tool /\ c.file = e.file
                  /\ c.id = Cardinality(calls) + 1 /\ c.start = e.ts /\ c.end = 0 /\ c.heard = (events' = Append(events, e))
    /\ e.phase = "tool_call_end" =>
           \E c \in calls, d \in CallType :
              /\ c.end = 0 /\ calls' = (calls \ {c}) \cup {d}
              /\ e.sid = c.sid /\ e.tool = c.tool /\ e.id = UseId(c.sid, c.id)
              /\ d.sid = c.sid /\ d.tool = c.tool /\ d.file = c.file /\ d.id = c.id
              /\ d.start = c.start /\ d.end = e.ts /\ d.heard = (c.heard /\ events' = Append(events, e))

\* Each action has the effect that the phase of its event says.
LEMMA CallEffectOfStep ==
    ASSUME TypeOK, Timed, NEW e \in EventType, Happens(e), Does(e)
    PROVE  CallEffect(e)
  <1>1. /\ clock' = e.ts /\ e.ts = clock + 1 /\ e.ts \in Nat \ {0}
        /\ (events' # events) = (events' = Append(events, e))
    BY HappensKeeps DEF Happens, EventType
  <1>2. Cardinality(calls) \in Nat
    BY FS_CardinalityType DEF TypeOK
  <1>3. ASSUME NEW s \in Sessions, NEW tool \in Tools, NEW file \in Files, StartCall(s, tool, file),
               e = Event("tool_call_start", s, tool, file, UseId(s, Cardinality(calls) + 1))
        PROVE  CallEffect(e)
    <2>1. PICK h \in BOOLEAN : h = (events' = Append(events, e))
      OBVIOUS
    <2>2. PICK c : c = [sid |-> s, tool |-> tool, file |-> file,
                        id |-> Cardinality(calls) + 1, start |-> e.ts, end |-> 0, heard |-> h]
      OBVIOUS
    <2>3. calls' = calls \cup {c}
      BY <1>1, <1>3, <2>1, <2>2 DEF StartCall
    <2>4. c \in CallType
      BY <1>1, <1>2, <2>2 DEF CallType
    <2>5. /\ e.phase = "tool_call_start" /\ e.sid = s /\ e.tool = tool /\ e.file = file
          /\ e.id = UseId(s, Cardinality(calls) + 1)
      BY <1>3 DEF Event
    <2>6. /\ c.sid = e.sid /\ c.tool = e.tool /\ c.file = e.file
          /\ c.id = Cardinality(calls) + 1 /\ c.start = e.ts /\ c.end = 0 /\ c.heard = (events' = Append(events, e))
      BY <2>1, <2>2, <2>5
    <2> QED
      BY <2>3, <2>4, <2>5, <2>6 DEF CallEffect
  <1>4. ASSUME NEW c \in calls, c.end = 0, Return(c),
               e = Event("tool_call_end", c.sid, c.tool, c.file, UseId(c.sid, c.id))
        PROVE  CallEffect(e)
    <2>1. PICK h \in BOOLEAN : h = (c.heard /\ events' = Append(events, e))
      OBVIOUS
    <2>2. PICK d : d = [c EXCEPT !.end = e.ts, !.heard = h]
      OBVIOUS
    <2>3. calls' = (calls \ {c}) \cup {d}
      BY <1>1, <1>4, <2>1, <2>2 DEF Return
    <2>4. c \in CallType
      BY DEF TypeOK
    <2>5. /\ d \in CallType
          /\ d.sid = c.sid /\ d.tool = c.tool /\ d.file = c.file /\ d.id = c.id
          /\ d.start = c.start /\ d.end = e.ts /\ d.heard = h
      BY <1>1, <2>2, <2>4 DEF CallType
    <2>6. /\ e.phase = "tool_call_end" /\ e.sid = c.sid /\ e.tool = c.tool
          /\ e.id = UseId(c.sid, c.id)
      BY <1>4 DEF Event
    <2> QED
      BY <1>4, <2>1, <2>3, <2>5, <2>6 DEF CallEffect
  <1>5. ASSUME e.phase \notin {"tool_call_start", "tool_call_end"}, UNCHANGED calls
        PROVE  CallEffect(e)
    BY <1>5 DEF CallEffect
  <1>6. ASSUME NEW s \in Sessions, Prompt(s), e = Event("user_prompt", s, None, None, 0)
        PROVE  CallEffect(e)
    BY <1>5, <1>6 DEF Prompt, Event
  <1>7. ASSUME NEW s \in Sessions, AskPermission(s), e = Event("permission", s, None, None, 0)
        PROVE  CallEffect(e)
    BY <1>5, <1>7 DEF AskPermission, Event
  <1>8. ASSUME NEW s \in Sessions, SayIdle(s), e = Event("idle", s, None, None, 0)
        PROVE  CallEffect(e)
    BY <1>5, <1>8 DEF SayIdle, Event
  <1>9. ASSUME NEW s \in Sessions, EndTurn(s), e = Event("turn_end", s, None, None, 0)
        PROVE  CallEffect(e)
    BY <1>5, <1>9 DEF EndTurn, Event
  <1>10. ASSUME NEW s \in Sessions, EndSession(s), e = Event("session_end", s, None, None, 0)
         PROVE  CallEffect(e)
    BY <1>5, <1>10 DEF EndSession, Event
  <1>11. ASSUME NEW s \in Sessions, Respond(s),
                e = Event("api_response_end", None, None, None, Len(responses) + 1)
         PROVE  CallEffect(e)
    BY <1>5, <1>11 DEF Respond, Event
  <1>12. ASSUME NEW flow \in DOMAIN responses, Account(flow),
                e = Event("otel_event", responses[flow], None, None, flow)
         PROVE  CallEffect(e)
    BY <1>5, <1>12 DEF Account, Event
  <1>13. ASSUME NEW s \in Sessions, NEW tool \in Tools, NEW file \in Files, Call(s, tool, file),
                e = Event("tool_call_start", s, tool, file, UseId(s, Cardinality(calls) + 1))
         PROVE  CallEffect(e)
    BY <1>3, <1>13 DEF Call
  <1>14. ASSUME NEW a \in asked, NEW tool \in Tools, NEW file \in Files, Approve(a, tool, file),
                e = Event("tool_call_start", a.sid, tool, file, UseId(a.sid, Cardinality(calls) + 1))
         PROVE  CallEffect(e)
    <2>1. a.sid \in Sessions
      BY DEF TypeOK
    <2> QED
      BY <1>3, <1>14, <2>1 DEF Approve
  <1> QED
    BY <1>4, <1>6, <1>7, <1>8, <1>9, <1>10, <1>11, <1>12, <1>13, <1>14 DEF Does

\* Each start in the list is that of a call.
StartsMade ==
    \A x \in Range(events) : x.phase = "tool_call_start" =>
        \E c \in calls :
            c.sid = x.sid /\ c.tool = x.tool /\ c.file = x.file /\ c.start = x.ts

\* That stays so, whatever is lost.
LEMMA StartsMadeStep ==
    ASSUME NEW e, CallEffect(e), StartsMade,
           Range(events') = Range(events) \/ Range(events') = Range(events) \cup {e}
    PROVE  StartsMade'
  <1>1. ASSUME NEW c \in calls
        PROVE  \E d \in calls' :
                  d.sid = c.sid /\ d.tool = c.tool /\ d.file = c.file /\ d.start = c.start
    BY DEF CallEffect
  <1>2. e.phase = "tool_call_start" =>
            \E d \in calls' :
                d.sid = e.sid /\ d.tool = e.tool /\ d.file = e.file /\ d.start = e.ts
    BY DEF CallEffect
  <1> QED
    BY <1>1, <1>2 DEF StartsMade

\* Waits are measured as WaitsNest says.
LEMMA WaitsNestOf ==
    ASSUME TypeOK, Timely(Range(events)),
           lost = 0 => AskedHeard /\ AskedFirst /\ QuietTillPrompt /\ StartsMade
    PROVE  WaitsNest
  <1> SUFFICES ASSUME lost = 0  PROVE WaitsNest
    BY DEF WaitsNest
  <1>1. AskedHeard /\ AskedFirst /\ QuietTillPrompt /\ StartsMade
    OBVIOUS
  <1>2. PICK E : E = Range(events)
    OBVIOUS
  <1>3. Timely(E) /\ \A x \in E : x.ts \in Nat
    BY <1>2 DEF Timely, EventType
  <1>4. \A w : w \in PermissionWaits <=>
            \E e \in E : /\ e.phase = "permission"
                         /\ \E f \in FirstIn(E, e, {"user_prompt", "tool_call_start"}) : w = Wait(e, f)
    <2>1. \A e : e.phase = "permission" =>
              Resolution(e) = FirstIn(E, e, {"user_prompt", "tool_call_start"})
      BY <1>2, FirstOfList DEF Resolution
    <2> QED
      BY <1>2, <2>1 DEF PermissionWaits, Waits, At
  <1>5. \A w : w \in InputWaits <=>
            \E e \in E : /\ e.phase = "idle"
                         /\ \E f \in FirstIn(E, e, {"user_prompt"}) : w = Wait(e, f)
    <2>1. \A e : e.phase = "idle" => Resolution(e) = FirstIn(E, e, {"user_prompt"})
      BY <1>2, FirstOfList DEF Resolution
    <2> QED
      BY <1>2, <2>1 DEF InputWaits, Waits, At
  <1>6. \A w \in ThinkTimes :
            \E e \in E : /\ e.phase = "turn_end"
                         /\ \E f \in FirstIn(E, e, {"user_prompt", "session_end"}) :
                                f.phase = "user_prompt" /\ w = Wait(e, f)
    BY <1>2, FirstOfList DEF ThinkTimes, At
  <1>7. \A e, f : Wait(e, f).sid = e.sid /\ Wait(e, f).ts = e.ts /\ Wait(e, f).until = f.ts
    BY DEF Wait
  \* the permission of a notification, and the answer that is measured
  <1>8. ASSUME NEW a \in asked, a.until # 0, NEW e \in E, e.phase = "permission",
               e.sid = a.sid, e.ts = a.ts
        PROVE  \E f \in FirstIn(E, e, {"user_prompt", "tool_call_start"}) : f.ts <= a.until
    <2>1. PICK g \in E : /\ g.sid = a.sid /\ g.ts = a.until
                         /\ g.phase \in {"user_prompt", "tool_call_start"}
      BY <1>1, <1>2, <1>8 DEF AskedHeard
    <2>2. a.ts < a.until
      BY <1>1, <1>8 DEF AskedHeard
    <2>3. g.ts > e.ts
      BY <1>3, <1>8, <2>1, <2>2
    <2> QED
      BY <1>3, <1>8, <2>1, <2>3, FirstIs
  <1>9. ASSUME NEW a \in asked, a.until # 0
        PROVE  \E w \in PermissionWaits :
                  /\ w.sid = a.sid /\ w.ts = a.ts /\ w.until <= a.until
                  /\ (\A c \in calls : c.sid = a.sid => ~(a.ts < c.start /\ c.start < a.until))
                         => w.until = a.until
    <2>1. PICK e \in E : e.phase = "permission" /\ e.sid = a.sid /\ e.ts = a.ts
      BY <1>1, <1>2 DEF AskedHeard
    <2>2. PICK f \in FirstIn(E, e, {"user_prompt", "tool_call_start"}) : f.ts <= a.until
      BY <1>8, <1>9, <2>1
    <2>3. /\ f \in E /\ f.sid = a.sid /\ f.ts > a.ts
          /\ f.phase \in {"user_prompt", "tool_call_start"}
      BY <1>3, <2>1, <2>2, FirstIs
    <2>4. f.ts \in Nat /\ a.ts \in Nat /\ a.until \in Nat
      BY <1>3, <2>3 DEF TypeOK
    <2>5. ASSUME f.ts # a.until
          PROVE  \E c \in calls : c.sid = a.sid /\ a.ts < c.start /\ c.start < a.until
      <3>1. a.ts < f.ts /\ f.ts < a.until
        BY <2>2, <2>3, <2>4, <2>5
      <3>2. f.phase # "user_prompt"
        BY <1>1, <1>2, <2>3, <2>4, <3>1 DEF AskedFirst
      <3>3. PICK c \in calls : c.sid = f.sid /\ c.start = f.ts
        BY <1>1, <1>2, <2>3, <3>2 DEF StartsMade
      <3> QED
        BY <2>3, <3>1, <3>3
    <2>6. Wait(e, f) \in PermissionWaits
      BY <1>4, <2>1, <2>2
    <2> QED
      BY <1>7, <2>1, <2>2, <2>5, <2>6
  <1>10. ASSUME NEW t \in TurnAnatomy, t.complete, NEW w \in WaitsIn(t)  PROVE w.until <= t.end
    <2>1. PICK g \in E : g.phase = "turn_end" /\ g.sid = t.sid /\ g.ts = t.end
      <3>1. PICK s \in Sessions : t \in TurnsOf(s)
        BY DEF TurnAnatomy
      <3>2. PICK p, f : f \in Closing(p) /\ t = Turn(p, f)
        BY <3>1 DEF TurnsOf
      <3>3. f \in E /\ f.sid = p.sid
        BY <1>2, <1>3, <3>2, FirstOfList, FirstIs DEF Closing, Of
      <3>4. t.sid = p.sid /\ t.end = f.ts /\ t.complete = (f.phase = "turn_end")
        BY <3>2 DEF Turn
      <3> QED
        BY <1>10, <3>3, <3>4
    <2>2. w \in PermissionWaits /\ w.sid = t.sid /\ w.ts <= t.end
      BY DEF WaitsIn, InWindow
    <2>3. PICK e, f : /\ e \in E /\ f \in FirstIn(E, e, {"user_prompt", "tool_call_start"})
                      /\ e.phase = "permission" /\ w = Wait(e, f)
      BY <1>4, <2>2
    <2>4. w.sid = e.sid /\ w.ts = e.ts /\ w.until = f.ts
      BY <1>7, <2>3
    <2>5. PICK a \in asked : a.sid = e.sid /\ a.ts = e.ts
      BY <1>1, <1>2, <2>3 DEF AskedHeard
    <2>6. e.ts < g.ts
      <3>1. e.ts # g.ts
        BY <1>3, <2>1, <2>3 DEF Timely
      <3> QED
        BY <1>3, <2>1, <2>2, <2>3, <2>4, <3>1
    <2>7. a.until # 0 /\ a.until <= g.ts
      BY <1>1, <1>2, <2>1, <2>2, <2>4, <2>5, <2>6 DEF AskedFirst, Quiet
    <2>8. PICK h \in FirstIn(E, e, {"user_prompt", "tool_call_start"}) : h.ts <= a.until
      BY <1>8, <2>3, <2>5, <2>7
    <2>9. h = f
      BY <1>3, <2>3, <2>8, FirstIs
    <2>10. f.ts \in Nat /\ a.until \in Nat
      <3>1. f \in E
        BY <1>3, <2>3, FirstIs
      <3> QED
        BY <1>3, <3>1 DEF TypeOK
    <2> QED
      BY <1>3, <2>1, <2>4, <2>7, <2>8, <2>9, <2>10
  \* what a wait of each kind spans
  <1> DEFINE Spans(v, e, f) == /\ e \in E /\ f \in E /\ e.sid = f.sid /\ e.ts < f.ts
                               /\ v.sid = e.sid /\ v.ts = e.ts /\ v.until = f.ts
             Before(e, f, phase) ==
                 \A g \in E : g.sid = e.sid /\ g.ts > e.ts /\ g.phase = phase => f.ts <= g.ts
  <1>11. ASSUME NEW v \in PermissionWaits
         PROVE  \E e, f : /\ Spans(v, e, f) /\ e.phase = "permission"
                          /\ f.phase \in {"user_prompt", "tool_call_start"}
                          /\ Before(e, f, "user_prompt") /\ Before(e, f, "tool_call_start")
    <2>1. PICK e, f : /\ e \in E /\ f \in FirstIn(E, e, {"user_prompt", "tool_call_start"})
                      /\ e.phase = "permission" /\ v = Wait(e, f)
      BY <1>4
    <2> QED
      BY <1>3, <1>7, <2>1, FirstIs
  <1>12. ASSUME NEW v \in InputWaits \cup ThinkTimes
         PROVE  \E e, f : /\ Spans(v, e, f) /\ f.phase = "user_prompt" /\ Before(e, f, "user_prompt")
                          /\ e.phase = (IF v \in InputWaits THEN "idle" ELSE "turn_end")
    <2>1. CASE v \in InputWaits
      <3>1. PICK e, f : /\ e \in E /\ f \in FirstIn(E, e, {"user_prompt"})
                      /\ e.phase = "idle" /\ v = Wait(e, f)
        BY <1>5, <2>1
      <3> QED
        BY <1>3, <1>7, <2>1, <3>1, FirstIs
    <2>2. CASE v \notin InputWaits
      <3>1. PICK e, f : /\ e \in E /\ f \in FirstIn(E, e, {"user_prompt", "session_end"})
                      /\ e.phase = "turn_end" /\ f.phase = "user_prompt" /\ v = Wait(e, f)
        BY <1>6, <1>12, <2>2
      <3> QED
        BY <1>3, <1>7, <2>2, <3>1, FirstIs
    <2> QED
      BY <2>1, <2>2
  <1>13. ASSUME NEW v \in PermissionWaits \cup InputWaits \cup ThinkTimes,
                NEW w \in PermissionWaits \cup InputWaits \cup ThinkTimes,
                v.sid = w.sid, v.ts < w.ts, w.ts < v.until
         PROVE  v.until = w.until
    <2>1. PICK e, f : /\ Spans(v, e, f)
                      /\ \/ /\ v \in PermissionWaits /\ e.phase = "permission"
                            /\ f.phase \in {"user_prompt", "tool_call_start"}
                            /\ Before(e, f, "user_prompt") /\ Before(e, f, "tool_call_start")
                         \/ /\ f.phase = "user_prompt" /\ Before(e, f, "user_prompt")
                            /\ e.phase \in {"idle", "turn_end"}
      BY <1>11, <1>12
    <2>2. PICK d, g : /\ Spans(w, d, g)
                      /\ \/ /\ d.phase = "permission"
                            /\ g.phase \in {"user_prompt", "tool_call_start"}
                            /\ Before(d, g, "user_prompt") /\ Before(d, g, "tool_call_start")
                         \/ /\ g.phase = "user_prompt" /\ Before(d, g, "user_prompt")
                            /\ d.phase \in {"idle", "turn_end"}
      BY <1>11, <1>12
    <2>3. /\ d.sid = e.sid /\ e.ts < d.ts /\ d.ts < f.ts /\ f.ts \in Nat /\ g.ts \in Nat
          /\ d.ts \in Nat /\ e.ts \in Nat
      BY <1>3, <1>13, <2>1, <2>2
    <2>a. f.ts <= g.ts /\ g.ts <= f.ts => v.until = w.until
      BY <2>1, <2>2, <2>3
    <2>b. g \in E /\ f \in E /\ g.sid = e.sid /\ f.sid = d.sid /\ g.ts > e.ts /\ f.ts > d.ts
      BY <2>1, <2>2, <2>3
    <2>4. CASE d.phase = "permission" /\ e.phase = "permission"
      <3>1. Before(e, f, "user_prompt") /\ Before(e, f, "tool_call_start")
        BY <2>1, <2>4
      <3>2. Before(d, g, "user_prompt") /\ Before(d, g, "tool_call_start")
        BY <2>2, <2>4
      <3>3. {f.phase, g.phase} \subseteq {"user_prompt", "tool_call_start"}
        BY <2>1, <2>2, <2>4
      <3>4. f.ts <= g.ts
        BY <2>b, <3>1, <3>3
      <3>5. g.ts <= f.ts
        BY <2>b, <3>2, <3>3
      <3> QED
        BY <2>a, <3>4, <3>5
    <2>5. CASE d.phase # "permission" /\ e.phase = "permission"
      <3>1. d.phase \in Quiet
        BY <2>2, <2>5 DEF Quiet
      <3>2. PICK a \in asked : a.sid = e.sid /\ a.ts = e.ts
        BY <1>1, <1>2, <2>1, <2>5 DEF AskedHeard
      <3>3. a.until # 0 /\ a.until <= d.ts
        BY <1>1, <1>2, <2>2, <2>3, <3>1, <3>2 DEF AskedFirst
      <3>4. PICK h \in E : /\ h.sid = a.sid /\ h.ts = a.until
                           /\ h.phase \in {"user_prompt", "tool_call_start"}
        BY <1>1, <1>2, <3>2, <3>3 DEF AskedHeard
      <3>5. h.ts > e.ts
        <4>1. a.ts < a.until
          BY <1>1, <3>3 DEF AskedHeard
        <4> QED
          BY <1>3, <2>3, <3>2, <3>4, <4>1
      <3>6. f.ts <= h.ts
        BY <2>1, <2>5, <3>2, <3>4, <3>5
      <3> QED
        BY <1>3, <2>3, <3>3, <3>4, <3>6
    <2>6. CASE d.phase \in {"permission", "turn_end"} /\ e.phase \in {"idle", "turn_end"}
      <3>1. PICK p \in E : /\ p.phase = "user_prompt" /\ p.sid = e.sid
                           /\ e.ts < p.ts /\ p.ts < d.ts
        BY <1>1, <1>2, <2>1, <2>2, <2>3, <2>6 DEF QuietTillPrompt, Quiet
      <3>2. f.ts <= p.ts
        BY <1>3, <2>1, <2>3, <3>1
      <3> QED
        BY <1>3, <2>3, <3>1, <3>2
    <2>7. CASE d.phase = "idle" /\ e.phase \in {"idle", "turn_end"}
      <3>1. f.phase = "user_prompt" /\ g.phase = "user_prompt"
        BY <2>1, <2>2, <2>7
      <3>2. Before(e, f, "user_prompt") /\ Before(d, g, "user_prompt")
        BY <2>1, <2>2, <2>7
      <3>3. f.ts <= g.ts
        BY <2>b, <3>1, <3>2
      <3>4. g.ts <= f.ts
        BY <2>b, <3>1, <3>2
      <3> QED
        BY <2>a, <3>3, <3>4
    <2> QED
      BY <2>1, <2>2, <2>4, <2>5, <2>6, <2>7
  <1> QED
    BY <1>9, <1>10, <1>13 DEF WaitsNest

-----------------------------------------------------------------------------
(* The turns.                                                              *)

\* A prompt opens a turn in the events E.
OpensIn(E, e) ==
    \A g \in E : g.phase = "user_prompt" /\ g.sid = e.sid /\ g.ts < e.ts =>
        \E f \in FirstIn(E, g, {"turn_end"}) : f.ts < e.ts

\* The turn that e opens is closed by f.
Cuts(E, e, f) ==
    /\ e \in E /\ f \in E /\ e.phase = "user_prompt" /\ OpensIn(E, e)
    /\ f.sid = e.sid /\ e.ts < f.ts
    /\ \/ f \in FirstIn(E, e, {"turn_end"})
       \/ FirstIn(E, e, {"turn_end"}) = {} /\ \A g \in E : g.sid = e.sid => g.ts <= f.ts

\* The turns of a list are those that are cut so.
LEMMA TurnsCut ==
    ASSUME Timely(Range(events))
    PROVE  \A s \in Sessions : \A t :
               t \in TurnsOf(s) <=> \E e, f : /\ Cuts(Range(events), e, f)
                                              /\ e.sid = s /\ t = Turn(e, f)
  <1>1. PICK E : E = Range(events)
    OBVIOUS
  <1>2. \A e : Opens(e) <=> OpensIn(E, e)
    BY <1>1, FirstOfList DEF Opens, OpensIn, At
  <1>3. \A e, f : f \in Closing(e) <=>
            \/ f \in FirstIn(E, e, {"turn_end"})
            \/ /\ FirstIn(E, e, {"turn_end"}) = {} /\ f \in E /\ f.sid = e.sid /\ e.ts < f.ts
               /\ \A g \in E : g.sid = e.sid => g.ts <= f.ts
    <2> SUFFICES ASSUME NEW e, NEW f
                 PROVE  f \in Closing(e) <=>
            \/ f \in FirstIn(E, e, {"turn_end"})
            \/ /\ FirstIn(E, e, {"turn_end"}) = {} /\ f \in E /\ f.sid = e.sid /\ e.ts < f.ts
               /\ \A g \in E : g.sid = e.sid => g.ts <= f.ts
      OBVIOUS
    <2>1. Closing(e) = IF FirstIn(E, e, {"turn_end"}) # {} THEN FirstIn(E, e, {"turn_end"})
              ELSE {h \in Of(e.sid) : h.ts > e.ts /\ \A g \in Of(e.sid) : g.ts <= h.ts}
      BY <1>1, FirstOfList DEF Closing
    <2>2. \A h : h \in Of(e.sid) <=> h \in E /\ h.sid = e.sid
      BY <1>1 DEF Of
    <2>3. \A h \in E : h.ts > e.ts <=> e.ts < h.ts
      OBVIOUS
    <2> QED
      BY <2>1, <2>2, <2>3
  <1>4. \A e \in E : \A f \in FirstIn(E, e, {"turn_end"}) : f \in E /\ f.sid = e.sid /\ e.ts < f.ts
    BY <1>1, FirstIs
  <1>5. \A s, e, f : Cuts(E, e, f) /\ e.sid = s <=>
            e \in Of(s) /\ e \in At("user_prompt") /\ Opens(e) /\ f \in Closing(e)
    BY <1>1, <1>2, <1>3, <1>4 DEF Cuts, Of, At
  <1>6. \A s, t : t \in TurnsOf(s) <=>
            \E e, f : /\ e \in Of(s) /\ e \in At("user_prompt") /\ Opens(e) /\ f \in Closing(e)
                      /\ t = Turn(e, f)
    BY DEF TurnsOf
  <1> QED
    BY <1>1, <1>5, <1>6

\* The turns of one session are apart.
LEMMA TurnsApart ==
    ASSUME Timely(Range(events)), NEW t \in TurnAnatomy, NEW u \in TurnAnatomy,
           t # u, t.sid = u.sid
    PROVE  t.end < u.start \/ u.end < t.start
  <1>1. PICK E : E = Range(events)
    OBVIOUS
  <1>2. PICK e, f : Cuts(E, e, f) /\ t = Turn(e, f)
    BY <1>1, TurnsCut DEF TurnAnatomy
  <1>3. PICK g, h : Cuts(E, g, h) /\ u = Turn(g, h)
    BY <1>1, TurnsCut DEF TurnAnatomy
  <1>4. /\ t.sid = e.sid /\ t.start = e.ts /\ t.end = f.ts
        /\ u.sid = g.sid /\ u.start = g.ts /\ u.end = h.ts
    BY <1>2, <1>3 DEF Turn
  <1>5. Timely(E) /\ \A x \in E : x.ts \in Nat
    BY <1>1 DEF Timely, EventType
  <1>6. ASSUME NEW a, NEW b, NEW c, NEW d, Cuts(E, a, b), Cuts(E, c, d), a.sid = c.sid,
               a.ts < c.ts
        PROVE  b.ts < c.ts
    <2>1. PICK k \in FirstIn(E, a, {"turn_end"}) : k.ts < c.ts
      BY <1>6 DEF Cuts, OpensIn
    <2>2. b \in FirstIn(E, a, {"turn_end"})
      BY <1>6, <2>1 DEF Cuts
    <2>3. b = k
      BY <1>5, <2>1, <2>2, FirstIs
    <2> QED
      BY <2>1, <2>3
  <1>7. ASSUME e = g  PROVE FALSE
    <2>1. f = h
      <3>1. CASE FirstIn(E, e, {"turn_end"}) # {}
        BY <1>2, <1>3, <1>5, <1>7, <3>1, FirstIs DEF Cuts
      <3>2. CASE FirstIn(E, e, {"turn_end"}) = {}
        <4>1. f.ts <= h.ts /\ h.ts <= f.ts /\ f \in E /\ h \in E
          BY <1>2, <1>3, <1>7, <3>2 DEF Cuts
        <4> QED
          BY <1>5, <4>1 DEF Timely
      <3> QED
        BY <3>1, <3>2
    <2> QED
      BY <1>2, <1>3, <1>7, <2>1
  <1>8. e.ts # g.ts /\ e.ts \in Nat /\ g.ts \in Nat
    BY <1>2, <1>3, <1>5, <1>7 DEF Cuts, Timely
  <1> QED
    BY <1>2, <1>3, <1>4, <1>6, <1>8

\* The turns that ended, ended, and the open one, begun, are those that E tells.
Tells(E, ended, begun) ==
    /\ \A t \in ended : \E e \in E :
           /\ e.phase = "user_prompt" /\ e.sid = t.sid /\ e.ts = t.start
           /\ \E f \in FirstIn(E, e, {"turn_end"}) : f.ts = t.end
    /\ \A s \in Sessions : begun[s] # 0 => \E e \in E :
           /\ e.phase = "user_prompt" /\ e.sid = s /\ e.ts = begun[s]
           /\ FirstIn(E, e, {"turn_end"}) = {}
    /\ \A e \in E : e.phase = "user_prompt" /\ FirstIn(E, e, {"turn_end"}) = {} => begun[e.sid] # 0
    /\ \A e \in E : e.phase = "user_prompt" =>
           (OpensIn(E, e) <=> \/ e.ts = begun[e.sid]
                              \/ \E t \in ended : t.sid = e.sid /\ t.start = e.ts)

TurnsTold == Tells(Range(events), turns, open)

\* No event but an answer of the proxy is without a session.
SessionsKnown == \A e \in Range(events) : e.phase # "api_response_end" => e.sid \in Sessions

\* They stay so.
LEMMA TurnsToldStep ==
    ASSUME TypeOK, NEW e, Grows(e), Effect(e), SessionsKnown, TurnsTold
    PROVE  TurnsTold'
  <1>1. PICK E, F : E = Range(events) /\ F = E \cup {e}
    OBVIOUS
  <1>2. /\ Timely(E) /\ e \in EventType /\ Range(events') = F
        /\ \A x \in E : x.ts < e.ts /\ x.ts \in Nat /\ x.ts # 0
        /\ e.ts \in Nat /\ e.ts # 0
    BY <1>1 DEF Grows, Timely, EventType
  <1>3. Timely(F)
    BY <1>1, <1>2 DEF Timely
  <1>4. PICK T : T = {"turn_end"}
    OBVIOUS
  <1>5. \A g \in E :
            /\ FirstIn(E, g, T) # {} \/ e.sid # g.sid \/ e.phase # "turn_end" =>
                   FirstIn(F, g, T) = FirstIn(E, g, T)
            /\ FirstIn(E, g, T) = {} /\ e.sid = g.sid /\ e.phase = "turn_end" =>
                   FirstIn(F, g, T) = {e}
    <2>1. Timely(E) /\ e \in EventType /\ Later(E, e)
      BY <1>2 DEF Later
    <2> QED
      BY ONLY <1>1, <1>4, <2>1, FirstGrows
  <1>6. FirstIn(F, e, T) = {}
    <2>1. \A f \in F : ~(f.ts > e.ts)
      BY <1>1, <1>2
    <2> QED
      BY <1>3, <2>1, FirstIs
  <1>7. ASSUME NEW g \in E  PROVE OpensIn(F, g) <=> OpensIn(E, g)
    <2>1. \A h \in F : h.ts < g.ts => h \in E
      BY <1>1, <1>2
    <2>2. \A h \in E : (\E f \in FirstIn(F, h, T) : f.ts < g.ts) <=>
                       (\E f \in FirstIn(E, h, T) : f.ts < g.ts)
      BY <1>2, <1>5
    <2> QED
      BY <1>1, <1>4, <2>1, <2>2 DEF OpensIn
  <1>8. ASSUME e.phase = "user_prompt"  PROVE OpensIn(F, e) <=> open[e.sid] = 0
    <2>1. \A h \in E : FirstIn(F, h, T) = FirstIn(E, h, T)
      BY <1>5, <1>8
    <2>2. \A h \in E : \A f \in FirstIn(E, h, T) : f.ts < e.ts
      BY <1>2, FirstIs
    <2>3. ASSUME open[e.sid] = 0, NEW h \in E, h.phase = "user_prompt", h.sid = e.sid
          PROVE  \E f \in FirstIn(F, h, T) : f.ts < e.ts
      <3>1. FirstIn(E, h, T) # {}
        BY <1>1, <1>4, <2>3 DEF TurnsTold, Tells
      <3> QED
        BY <2>1, <2>2, <3>1
    <2>4. ASSUME open[e.sid] # 0  PROVE ~OpensIn(F, e)
      <3>1. e.sid \in Sessions
        BY <1>8 DEF Effect
      <3>2. PICK h \in E : h.phase = "user_prompt" /\ h.sid = e.sid /\ FirstIn(E, h, T) = {}
        BY <1>1, <1>4, <2>4, <3>1 DEF TurnsTold, Tells
      <3>3. h \in F /\ h.ts < e.ts /\ FirstIn(F, h, T) = {}
        BY <1>1, <1>2, <2>1, <3>2
      <3> QED
        BY <1>4, <3>2, <3>3 DEF OpensIn
    <2>5. open[e.sid] = 0 => OpensIn(F, e)
      <3>1. \A h \in F : h.ts < e.ts => h \in E
        BY <1>1, <1>2
      <3> QED
        BY <1>4, <2>3, <3>1 DEF OpensIn
    <2> QED
      BY <2>4, <2>5
  <1>9. ASSUME NEW t \in turns'
        PROVE  \E x \in F : /\ x.phase = "user_prompt" /\ x.sid = t.sid /\ x.ts = t.start
                            /\ \E f \in FirstIn(F, x, T) : f.ts = t.end
    <2>1. CASE t \in turns
      <3>1. PICK x \in E : /\ x.phase = "user_prompt" /\ x.sid = t.sid /\ x.ts = t.start
                           /\ \E f \in FirstIn(E, x, T) : f.ts = t.end
        BY <1>1, <1>4, <2>1 DEF TurnsTold, Tells
      <3> QED
        BY <1>1, <1>5, <3>1
    <2>2. CASE t \notin turns
      <3>1. e.phase = "turn_end" /\ t = Span(e.sid, open[e.sid], e.ts) /\ e.sid \in Sessions
            /\ open[e.sid] # 0
        BY <2>2 DEF Effect
      <3>2. t.sid = e.sid /\ t.start = open[e.sid] /\ t.end = e.ts
        BY <3>1 DEF Span
      <3>3. PICK x \in E : /\ x.phase = "user_prompt" /\ x.sid = e.sid /\ x.ts = open[e.sid]
                           /\ FirstIn(E, x, T) = {}
        BY <1>1, <1>4, <3>1 DEF TurnsTold, Tells
      <3>4. FirstIn(F, x, T) = {e}
        BY <1>5, <3>1, <3>3
      <3> QED
        BY <1>1, <3>2, <3>3, <3>4
    <2> QED
      BY <2>1, <2>2
  <1>10. ASSUME NEW s \in Sessions, open'[s] # 0
         PROVE  \E x \in F : /\ x.phase = "user_prompt" /\ x.sid = s /\ x.ts = open'[s]
                             /\ FirstIn(F, x, T) = {}
    <2>1. CASE open[s] = 0
      <3>1. e.phase = "user_prompt" /\ e.sid = s /\ open'[s] = e.ts
        BY <1>10, <2>1 DEF Effect
      <3> QED
        BY <1>1, <1>6, <3>1
    <2>2. CASE open[s] # 0
      <3>1. open'[s] = open[s] /\ ~(e.phase = "turn_end" /\ e.sid = s)
        BY <1>10, <2>2 DEF Effect
      <3>2. PICK x \in E : /\ x.phase = "user_prompt" /\ x.sid = s /\ x.ts = open[s]
                           /\ FirstIn(E, x, T) = {}
        BY <1>1, <1>4, <2>2 DEF TurnsTold, Tells
      <3> QED
        BY <1>1, <1>5, <3>1, <3>2
    <2> QED
      BY <2>1, <2>2
  <1>11. ASSUME NEW x \in F, x.phase = "user_prompt", FirstIn(F, x, T) = {}
         PROVE  open'[x.sid] # 0
    <2>1. CASE x = e
      BY <1>2, <1>11, <2>1 DEF Effect
    <2>2. CASE x \in E
      <3>1. FirstIn(E, x, T) = {} /\ ~(e.sid = x.sid /\ e.phase = "turn_end")
        BY <1>5, <1>11, <2>2
      <3>2. open[x.sid] # 0 /\ x.sid \in Sessions
        BY <1>1, <1>4, <1>11, <2>2, <3>1 DEF TurnsTold, Tells, SessionsKnown
      <3> QED
        BY <3>1, <3>2 DEF Effect
    <2> QED
      BY <1>1, <2>1, <2>2
  <1>12. ASSUME NEW x \in F, x.phase = "user_prompt"
         PROVE  OpensIn(F, x) <=> \/ x.ts = open'[x.sid]
                                  \/ \E t \in turns' : t.sid = x.sid /\ t.start = x.ts
    <2>1. CASE x \in E
      <3>1. OpensIn(F, x) <=> \/ x.ts = open[x.sid]
                              \/ \E t \in turns : t.sid = x.sid /\ t.start = x.ts
        BY <1>1, <1>7, <1>12, <2>1 DEF TurnsTold, Tells
      <3>2. x.sid \in Sessions /\ x.ts < e.ts /\ x.ts \in Nat /\ x.ts # 0
        BY <1>1, <1>2, <1>12, <2>1 DEF SessionsKnown
      <3>3. CASE e.phase = "turn_end"
        <4>1. PICK n : n = Span(e.sid, open[e.sid], e.ts)
          OBVIOUS
        <4>2. n.sid = e.sid /\ n.start = open[e.sid] /\ turns' = turns \cup {n}
          BY <3>3, <4>1 DEF Span, Effect
        <4>3. open'[x.sid] = IF x.sid = e.sid THEN 0 ELSE open[x.sid]
          BY <3>2, <3>3 DEF Effect
        <4> QED
          BY <3>1, <3>2, <4>2, <4>3
      <3>4. CASE e.phase # "turn_end"
        <4>1. turns' = turns
          BY <3>4 DEF Effect
        <4>2. x.ts = open'[x.sid] <=> x.ts = open[x.sid]
          BY <1>2, <3>2, <3>4 DEF Effect
        <4> QED
          BY <3>1, <4>1, <4>2
      <3> QED
        BY <3>3, <3>4
    <2>2. CASE x = e
      <3>1. e.sid \in Sessions /\ turns' = turns
        BY <1>12, <2>2 DEF Effect
      <3>2. open[e.sid] # 0 => open'[e.sid] = open[e.sid] /\ open[e.sid] < e.ts
        BY <1>1, <1>2, <1>12, <2>2, <3>1 DEF Effect, TurnsTold, Tells
      <3>3. open[e.sid] = 0 => open'[e.sid] = e.ts
        BY <1>12, <2>2, <3>1 DEF Effect
      <3>4. \A t \in turns : t.start # e.ts
        BY <1>1, <1>2 DEF TurnsTold, Tells
      <3>5. open[e.sid] \in Nat
        BY <3>1 DEF TypeOK
      <3> QED
        BY <1>2, <1>8, <1>12, <2>2, <3>1, <3>2, <3>3, <3>4, <3>5
    <2> QED
      BY <1>1, <2>1, <2>2
  <1>13. \A t \in turns' : \E x \in Range(events') :
             /\ x.phase = "user_prompt" /\ x.sid = t.sid /\ x.ts = t.start
             /\ \E f \in FirstIn(Range(events'), x, {"turn_end"}) : f.ts = t.end
    BY <1>2, <1>4, <1>9
  <1>14. \A s \in Sessions : open'[s] # 0 => \E x \in Range(events') :
             /\ x.phase = "user_prompt" /\ x.sid = s /\ x.ts = open'[s]
             /\ FirstIn(Range(events'), x, {"turn_end"}) = {}
    BY <1>2, <1>4, <1>10
  <1>15. \A x \in Range(events') :
             x.phase = "user_prompt" /\ FirstIn(Range(events'), x, {"turn_end"}) = {} => open'[x.sid] # 0
    BY <1>2, <1>4, <1>11
  <1>16. \A x \in Range(events') : x.phase = "user_prompt" =>
             (OpensIn(Range(events'), x) <=>
                 x.ts = open'[x.sid] \/ \E t \in turns' : t.sid = x.sid /\ t.start = x.ts)
    BY <1>2, <1>12
  <1> QED
    BY <1>13, <1>14, <1>15, <1>16 DEF TurnsTold, Tells

-----------------------------------------------------------------------------
(* What holds always.                                                      *)

\* The list and the calls, whatever was lost.
Base == TypeOK /\ Timed /\ SessionsKnown /\ StartsMade

\* What the list tells of the sessions while no hook was lost.
Told == lost = 0 => AskedHeard /\ AskedFirst /\ QuietTillPrompt /\ TurnsTold

\* An event that is recorded is the last one.
LEMMA GrowsOf ==
    ASSUME TypeOK, Timed, NEW e \in EventType, Happens(e), events' = Append(events, e)
    PROVE  Grows(e)
  <1>1. Range(events) \subseteq EventType /\ Range(events') = Range(events) \cup {e}
    BY EventsTyped, Recorded DEF TypeOK
  <1>2. \A x \in Range(events) : x.ts \in Nat /\ x.ts <= clock
    BY <1>1 DEF Timed, EventType
  <1> QED
    BY <1>1, <1>2 DEF Grows, Timely, Timed, Happens, TypeOK

\* Nothing happened yet.
LEMMA InitBase == Init => Base /\ Told
  <1> SUFFICES ASSUME Init  PROVE Base /\ Told
    OBVIOUS
  <1>1. Range(events) = {} /\ events \in Seq(EventType)
    BY DEF Init, Range
  <1>2. TypeOK
    BY <1>1, FS_EmptySet DEF Init, TypeOK
  <1>3. Timed /\ SessionsKnown /\ StartsMade
    BY <1>1 DEF Timed, SessionsKnown, StartsMade
  <1>4. AskedHeard /\ AskedFirst /\ QuietTillPrompt
    BY <1>1 DEF Init, AskedHeard, AskedFirst, QuietTillPrompt
  <1>5. TurnsTold
    BY <1>1 DEF Init, TurnsTold, Tells
  <1> QED
    BY <1>2, <1>3, <1>4, <1>5 DEF Base, Told

\* Each event keeps it.
LEMMA StepBase ==
    ASSUME Base, Told, NEW e \in EventType, Happens(e), Does(e)
    PROVE  Base' /\ Told'
  <1>1. Effect(e) /\ CallEffect(e) /\ TypeOK' /\ Timed'
    BY EffectOfStep, CallEffectOfStep, TypeStep, HappensKeeps DEF Base
  <1>2. Range(events') = Range(events) \/ Range(events') = Range(events) \cup {e}
    BY HappensKeeps DEF Base
  <1>3. SessionsKnown'
    BY <1>1, <1>2 DEF Base, SessionsKnown, Effect
  <1>4. StartsMade'
    BY <1>1, <1>2, StartsMadeStep DEF Base
  <1>5. Told'
    <2> SUFFICES ASSUME lost' = 0
                 PROVE  AskedHeard' /\ AskedFirst' /\ QuietTillPrompt' /\ TurnsTold'
      BY DEF Told
    <2>1. lost = 0 /\ events' = Append(events, e)
      BY HappensKeeps DEF Base
    <2>2. Grows(e)
      BY <2>1, GrowsOf DEF Base
    <2> QED
      BY <1>1, <2>1, <2>2, AskedHeardStep, AskedFirstStep, QuietStep, TurnsToldStep DEF Base, Told
  <1> QED
    BY <1>1, <1>3, <1>4, <1>5 DEF Base

\* They hold in every state: each event of the list is one of a hook, of the proxy
\* or of the telemetry, and the list tells the turns and the permissions.
THEOREM BaseThm == Spec => [](Base /\ Told)
  <1>1. Base /\ Told /\ [Next]_vars => (Base /\ Told)'
    <2> SUFFICES ASSUME Base, Told, [Next]_vars  PROVE (Base /\ Told)'
      OBVIOUS
    <2>1. CASE Next
      BY <2>1, StepHappens, StepBase DEF Base
    <2>2. CASE UNCHANGED vars
      <3>1. TypeOK' /\ Timed' /\ SessionsKnown' /\ StartsMade'
        BY <2>2 DEF Base, TypeOK, Timed, SessionsKnown, StartsMade, vars, session
      <3>2. Told'
        <4>1. /\ events' = events /\ lost' = lost /\ open' = open
              /\ turns' = turns /\ asked' = asked
          BY <2>2 DEF vars, session
        <4>2. AskedHeard' <=> AskedHeard
          BY <4>1 DEF AskedHeard
        <4>3. AskedFirst' <=> AskedFirst
          BY <4>1 DEF AskedFirst
        <4>4. QuietTillPrompt' <=> QuietTillPrompt
          BY <4>1 DEF QuietTillPrompt
        <4>5. TurnsTold' <=> TurnsTold
          BY <4>1 DEF TurnsTold
        <4> QED
          BY <4>1, <4>2, <4>3, <4>4, <4>5 DEF Told
      <3> QED
        BY <3>1, <3>2 DEF Base
    <2> QED
      BY <2>1, <2>2
  <1> QED
    BY <1>1, InitBase, PTL DEF Spec

\* The list is made of events in the order of time.
LEMMA TimelyOf == ASSUME Base  PROVE Timely(Range(events))
  BY EventsTyped DEF Base, TypeOK, Timed, Timely

\* Waits are never measured too long, end in their turn and nest, in every state.
THEOREM WaitsNestThm == Spec => []WaitsNest
  <1>1. Base /\ Told => WaitsNest
    BY TimelyOf, WaitsNestOf DEF Base, Told
  <1> QED
    BY <1>1, BaseThm, PTL

-----------------------------------------------------------------------------
(* The starts left unmatched, the pairs and the calls.                     *)

\* Calls have ids and times of their own.
CallsApart ==
    /\ \A c, d \in calls : c.id = d.id \/ c.start = d.start => c = d
    /\ \A c \in calls : /\ c.id <= Cardinality(calls) /\ c.start <= clock
                        /\ c.end # 0 => c.start < c.end /\ c.end <= clock

\* What is left unmatched are starts of the list; those with an id are starts of
\* calls that run, or whose end was lost, and no call that runs and was heard lacks
\* its own.
StartsLeft ==
    /\ \A x \in R : /\ x \in Range(events) /\ x.phase = "tool_call_start"
                    /\ x.id # 0 <=> x.sid \in identified
                    /\ x.id # 0 => \E c \in calls : /\ SameKey(c, x) /\ c.id = x.id /\ c.start = x.ts
                                                    /\ c.heard <=> c.end = 0
    /\ \A c \in calls : c.end = 0 /\ c.heard /\ c.sid \in identified => \E x \in R : x.id = c.id

\* A pair is of a start of the list that is not left, and of an end of its own.
PairsApart ==
    /\ \A p \in PairToolCalls :
           /\ p.start \in Nat /\ p.end \in Nat /\ p.start < p.end /\ p.end <= clock
           /\ \E x \in Range(events) : /\ x.phase = "tool_call_start" /\ SameKey(x, p)
                                       /\ x.file = p.file /\ x.ts = p.start
           /\ \A x \in R : x.ts # p.start
    /\ \A p, q \in PairToolCalls : p.start = q.start \/ p.end = q.end => p = q

\* A hook that is lost leaves the starts and the pairs as they were.
LEMMA Unheard ==
    ASSUME Len(events) \in Nat, events' = events
    PROVE  R' = R /\ PairToolCalls' = PairToolCalls
  <1>1. Loop(events, Len(events), Unmatched) /\ Loop(events', Len(events'), Unmatched')
    BY UnmatchedLoop, UnmatchedLoopNext
  <1>2. \A k \in 0..Len(events) : Unmatched[k] = Unmatched'[k]
    <2>1. PICK f, g, n, ev : f = Unmatched /\ g = Unmatched' /\ n = Len(events) /\ ev = events
      OBVIOUS
    <2>2. Loop(ev, n, f) /\ Loop(ev, n, g) /\ n \in Nat /\ n <= n
      BY <1>1, <2>1
    <2>3. Agree(ev, ev, n)
      BY DEF Agree
    <2>4. \A k \in 0..n : f[k] = g[k]
      BY ONLY <2>2, <2>3, LoopSame
    <2> QED
      BY <2>1, <2>4
  <1>3. R' = R
    BY <1>2 DEF R
  <1>4. PairToolCalls' = PairToolCalls
    <2> DEFINE Pairs(n) == {Pairing(x, events[n]) : x \in Taken(Unmatched[n - 1], events[n])}
               PairsNext(n) == {Pairing(x, events'[n]) : x \in Taken(Unmatched'[n - 1], events'[n])}
               Ends == {k \in DOMAIN events : events[k].phase = "tool_call_end"}
    <2>1. PairToolCalls = UNION {Pairs(n) : n \in Ends}
      BY DEF PairToolCalls
    <2>2. PairToolCalls' = UNION {PairsNext(n) : n \in Ends'}
      BY DEF PairToolCalls
    <2>3. \A n \in 1..Len(events) : Unmatched'[n - 1] = Unmatched[n - 1]
      BY <1>2
    <2>4. Ends' = Ends /\ \A n \in Ends : n \in DOMAIN events
      OBVIOUS
    <2>5. \A n \in DOMAIN events : Unmatched'[n - 1] = Unmatched[n - 1] => PairsNext(n) = Pairs(n)
      OBVIOUS
    <2> HIDE DEF Pairs, PairsNext, Ends
    <2> QED
      BY <1>1, <2>1, <2>2, <2>3, <2>4, <2>5
  <1> QED
    BY <1>3, <1>4

\* Calls stay apart.
LEMMA CallsApartStep ==
    ASSUME TypeOK, NEW e \in EventType, Happens(e), CallEffect(e), CallsApart
    PROVE  CallsApart'
  <1>1. clock \in Nat /\ e.ts = clock + 1 /\ clock' = e.ts /\ Cardinality(calls) \in Nat
    BY FS_CardinalityType DEF TypeOK, Happens
  <1>2. \A c \in calls : c.id \in Nat /\ c.start \in Nat /\ c.end \in Nat
    BY DEF TypeOK, CallType
  <1>3. CASE e.phase \notin {"tool_call_start", "tool_call_end"}
    <2>1. calls' = calls
      BY <1>3 DEF CallEffect
    <2> QED
      BY <1>1, <1>2, <2>1 DEF CallsApart
  <1>4. CASE e.phase = "tool_call_start"
    <2>1. PICK c \in CallType : /\ calls' = calls \cup {c}
                                /\ c.id = Cardinality(calls) + 1 /\ c.start = e.ts /\ c.end = 0
      BY <1>4 DEF CallEffect
    <2>2. c \notin calls
      BY <1>1, <2>1 DEF CallsApart
    <2>3. Cardinality(calls') = Cardinality(calls) + 1
      BY <2>1, <2>2, FS_AddElement DEF TypeOK
    <2> QED
      BY <1>1, <1>2, <2>1, <2>3 DEF CallsApart
  <1>5. CASE e.phase = "tool_call_end"
    <2>1. PICK c \in calls, d \in CallType :
              /\ c.end = 0 /\ calls' = (calls \ {c}) \cup {d}
              /\ d.id = c.id /\ d.start = c.start /\ d.end = e.ts
      BY <1>5 DEF CallEffect
    <2>2. d \notin calls \ {c}
      BY <2>1 DEF CallsApart
    <2>3. IsFiniteSet(calls \ {c}) /\ Cardinality(calls \ {c}) = Cardinality(calls) - 1
      BY FS_RemoveElement DEF TypeOK
    <2>4. Cardinality(calls') = Cardinality(calls)
      <3>1. PICK S : S = calls \ {c}
        OBVIOUS
      <3>2. IsFiniteSet(S) /\ d \notin S /\ Cardinality(S) = Cardinality(calls) - 1
        BY <2>2, <2>3, <3>1
      <3>3. Cardinality(S \cup {d}) = Cardinality(S) + 1
        BY ONLY <3>2, FS_AddElement
      <3> QED
        BY <1>1, <2>1, <3>1, <3>2, <3>3
    <2> QED
      BY <1>1, <1>2, <2>1, <2>4 DEF CallsApart
  <1> QED
    BY <1>3, <1>4, <1>5

\* What the end of a call takes is one start at most, of its session and tool; where
\* there are ids, its own.
LEMMA TakenIs ==
    ASSUME TypeOK, Timed, CallsApart, StartsLeft, NEW c \in calls,
           NEW e, e.sid = c.sid, e.tool = c.tool, e.id = UseId(c.sid, c.id)
    PROVE  /\ \A x \in Taken(R, e) : x \in R /\ SameKey(x, c)
           /\ \A x, y \in Taken(R, e) : x = y
           /\ c.sid \in identified =>
                  /\ Taken(R, e) = {x \in R : x.id = c.id}
                  /\ \A x \in Taken(R, e) : x.ts = c.start
           /\ c.sid \notin identified =>
                  Taken(R, e) = {x \in R : SameKey(x, c) /\ \A y \in R : SameKey(y, c) => y.ts <= x.ts}
  <1>1. /\ c.id \in Nat /\ c.id # 0
        /\ \A x \in R : x \in Range(events) /\ x.ts \in Nat
        /\ \A x, y \in R : x.ts = y.ts => x = y
    BY EventsTyped DEF TypeOK, CallType, StartsLeft, Timed, EventType
  <1>2. CASE c.sid \in identified
    <2>1. e.id = c.id
      BY <1>2 DEF UseId
    <2>2. Own(R, e) = {x \in R : x.id = c.id}
      BY <1>1, <2>1 DEF Own
    <2>3. \A x \in Own(R, e) : x.ts = c.start /\ SameKey(x, c)
      BY <1>1, <2>2 DEF StartsLeft, CallsApart, SameKey
    <2>4. Stack(R, e) = {}
      BY <1>2 DEF Stack, StartsLeft
    <2>5. Taken(R, e) = Own(R, e)
      BY <2>4 DEF Taken
    <2> QED
      BY <1>1, <1>2, <2>2, <2>3, <2>5
  <1>3. CASE c.sid \notin identified
    <2>1. e.id = 0
      BY <1>3 DEF UseId
    <2>2. Own(R, e) = {}
      BY <2>1 DEF Own
    <2>3. Stack(R, e) = {x \in R : SameKey(x, c)}
      BY <1>3 DEF Stack, StartsLeft, SameKey
    <2>4. Taken(R, e) = {x \in Stack(R, e) : \A y \in Stack(R, e) : y.ts <= x.ts}
      BY <2>2 DEF Taken
    <2>5. Taken(R, e) = {x \in R : SameKey(x, c) /\ \A y \in R : SameKey(y, c) => y.ts <= x.ts}
      BY <2>3, <2>4
    <2> QED
      BY <1>1, <1>3, <2>5
  <1> QED
    BY <1>2, <1>3

\* What a step does to the starts that are left and to the pairs.
LEMMA LeftIs ==
    ASSUME TypeOK, Timed, NEW e \in EventType, Happens(e), CallEffect(e), CallsApart, StartsLeft
    PROVE  /\ events' # Append(events, e) \/ e.phase \notin {"tool_call_start", "tool_call_end"} =>
                  R' = R /\ PairToolCalls' = PairToolCalls
           /\ events' = Append(events, e) /\ e.phase = "tool_call_start" =>
                  R' = R \cup {e} /\ PairToolCalls' = PairToolCalls
           /\ events' = Append(events, e) /\ e.phase = "tool_call_end" =>
                  /\ R' = R \ Taken(R, e)
                  /\ PairToolCalls' = PairToolCalls \cup {Pairing(x, e) : x \in Taken(R, e)}
  <1>1. CASE events' # Append(events, e)
    <2>1. events' = events /\ Len(events) \in Nat
      BY <1>1 DEF Happens, TypeOK
    <2> QED
      BY <1>1, <2>1, Unheard
  <1>2. CASE events' = Append(events, e)
    <2>1. /\ R' = After(R, e)
          /\ PairToolCalls' = PairToolCalls \cup
                 (IF e.phase = "tool_call_end" THEN {Pairing(x, e) : x \in Taken(R, e)} ELSE {})
      BY <1>2, Recorded DEF TypeOK
    <2>2. CASE e.phase \notin {"tool_call_start", "tool_call_end"}
      <3>1. After(R, e) = R
        BY <2>2 DEF After
      <3> QED
        BY <1>2, <2>1, <2>2, <3>1
    <2>3. CASE e.phase = "tool_call_start"
      <3>1. e.id # 0 => e.id = Cardinality(calls) + 1
        BY <2>3 DEF CallEffect, UseId
      <3>2. Own(R, e) = {}
        <4>1. Cardinality(calls) \in Nat /\ \A c \in calls : c.id \in Nat
          BY FS_CardinalityType DEF TypeOK, CallType
        <4> QED
          BY <3>1, <4>1 DEF Own, StartsLeft, CallsApart
      <3>3. After(R, e) = R \cup {e}
        BY <2>3, <3>2 DEF After
      <3> QED
        BY <1>2, <2>1, <2>3, <3>3
    <2>4. CASE e.phase = "tool_call_end"
      <3>1. After(R, e) = R \ Taken(R, e)
        BY <2>4 DEF After
      <3> QED
        BY <1>2, <2>1, <2>4, <3>1
    <2> QED
      BY <2>2, <2>3, <2>4
  <1> QED
    BY <1>1, <1>2

\* Starts are left as StartsLeft says.
LEMMA StartsLeftStep ==
    ASSUME TypeOK, Timed, NEW e \in EventType, Happens(e), CallEffect(e), CallsApart, StartsLeft
    PROVE  StartsLeft'
  <1>1. Range(events) \subseteq Range(events') /\ identified' = identified
    BY HappensKeeps DEF Happens
  <1>2. events' = Append(events, e) => e \in Range(events')
    BY Recorded DEF TypeOK
  <1>3. /\ Cardinality(calls) \in Nat /\ e.ts # 0
        /\ \A c \in calls : c.id \in Nat /\ c.id # 0 /\ c.sid \in Sessions
    BY FS_CardinalityType DEF TypeOK, CallType, EventType
  <1>4. CASE e.phase \notin {"tool_call_start", "tool_call_end"}
    <2>1. calls' = calls /\ R' = R
      BY <1>4, LeftIs DEF CallEffect
    <2> QED
      BY <1>1, <2>1 DEF StartsLeft
  <1>5. CASE e.phase = "tool_call_start"
    <2>1. PICK c \in CallType :
              /\ calls' = calls \cup {c} /\ e.id = UseId(e.sid, Cardinality(calls) + 1)
              /\ c.sid = e.sid /\ c.tool = e.tool /\ c.id = Cardinality(calls) + 1
              /\ c.start = e.ts /\ c.end = 0 /\ c.heard = (events' = Append(events, e))
      BY <1>5 DEF CallEffect
    <2>2. CASE events' = Append(events, e)
      <3>1. R' = R \cup {e}
        BY <1>5, <2>2, LeftIs
      <3>2. /\ e.id # 0 <=> e.sid \in identified
            /\ e.sid \in identified => e.id = c.id
        BY <1>3, <2>1 DEF UseId
      <3>3. SameKey(c, e) /\ c.heard
        BY <2>1, <2>2 DEF SameKey
      <3> QED
        BY <1>1, <1>2, <1>3, <1>5, <2>1, <2>2, <3>1, <3>2, <3>3 DEF StartsLeft
    <2>3. CASE events' # Append(events, e)
      <3>1. R' = R /\ ~c.heard
        BY <2>1, <2>3, LeftIs
      <3> QED
        BY <1>1, <2>1, <3>1 DEF StartsLeft
    <2> QED
      BY <2>2, <2>3
  <1>6. CASE e.phase = "tool_call_end"
    <2>1. PICK c \in calls, d \in CallType :
              /\ c.end = 0 /\ calls' = (calls \ {c}) \cup {d}
              /\ e.sid = c.sid /\ e.tool = c.tool /\ e.id = UseId(c.sid, c.id)
              /\ d.sid = c.sid /\ d.tool = c.tool /\ d.id = c.id /\ d.start = c.start
              /\ d.end = e.ts /\ d.heard = (c.heard /\ events' = Append(events, e))
      BY <1>6 DEF CallEffect
    <2>2. CASE events' = Append(events, e)
      <3>1. R' = R \ Taken(R, e)
        BY <1>6, <2>2, LeftIs
      <3>2. /\ \A x \in Taken(R, e) : x \in R /\ SameKey(x, c)
            /\ c.sid \in identified => Taken(R, e) = {x \in R : x.id = c.id}
        BY <2>1, TakenIs
      <3>3. ASSUME NEW x \in R'
            PROVE  /\ x \in R
                   /\ x.id # 0 => \E g \in calls' : /\ SameKey(g, x) /\ g.id = x.id /\ g.start = x.ts
                                                    /\ g.heard <=> g.end = 0
        <4>1. x \in R /\ x \notin Taken(R, e)
          BY <3>1
        <4>2. ASSUME x.id # 0
              PROVE  \E g \in calls' : /\ SameKey(g, x) /\ g.id = x.id /\ g.start = x.ts
                                       /\ g.heard <=> g.end = 0
          <5>1. PICK g \in calls : /\ SameKey(g, x) /\ g.id = x.id /\ g.start = x.ts
                                   /\ g.heard <=> g.end = 0
            BY <4>1, <4>2 DEF StartsLeft
          <5>2. g # c
            BY <3>2, <4>1, <4>2, <5>1 DEF StartsLeft, SameKey
          <5> QED
            BY <2>1, <5>1, <5>2
        <4> QED
          BY <4>1, <4>2
      <3>4. ASSUME NEW g \in calls', g.end = 0, g.heard, g.sid \in identified
            PROVE  \E x \in R' : x.id = g.id
        <4>1. g \in calls /\ g # c
          BY <1>3, <2>1, <3>4
        <4>2. PICK x \in R : x.id = g.id
          BY <3>4, <4>1 DEF StartsLeft
        <4>3. x \notin Taken(R, e)
          BY <1>3, <3>2, <4>1, <4>2 DEF StartsLeft, CallsApart, SameKey
        <4> QED
          BY <3>1, <4>2, <4>3
      <3> QED
        BY <1>1, <3>3, <3>4 DEF StartsLeft
    <2>3. CASE events' # Append(events, e)
      <3>1. R' = R /\ ~d.heard
        BY <2>1, <2>3, LeftIs
      <3>2. SameKey(d, c) /\ d.end # 0
        BY <1>3, <2>1 DEF SameKey
      <3>3. ASSUME NEW x \in R', x.id # 0
            PROVE  \E g \in calls' : /\ SameKey(g, x) /\ g.id = x.id /\ g.start = x.ts
                                     /\ g.heard <=> g.end = 0
        <4>1. PICK g \in calls : /\ SameKey(g, x) /\ g.id = x.id /\ g.start = x.ts
                                 /\ g.heard <=> g.end = 0
          BY <3>1, <3>3 DEF StartsLeft
        <4>2. CASE g = c
          BY <2>1, <3>1, <3>2, <4>1, <4>2 DEF SameKey
        <4>3. CASE g # c
          BY <2>1, <4>1, <4>3
        <4> QED
          BY <4>2, <4>3
      <3>4. ASSUME NEW g \in calls', g.end = 0, g.heard, g.sid \in identified
            PROVE  \E x \in R' : x.id = g.id
        BY <2>1, <3>1, <3>2, <3>4 DEF StartsLeft
      <3> QED
        BY <1>1, <3>1, <3>3, <3>4 DEF StartsLeft
    <2> QED
      BY <2>2, <2>3
  <1> QED
    BY <1>4, <1>5, <1>6

\* Pairs stay apart.
LEMMA PairsApartStep ==
    ASSUME TypeOK, Timed, NEW e \in EventType, Happens(e), CallEffect(e), CallsApart, StartsLeft,
           PairsApart
    PROVE  PairsApart'
  <1>1. Range(events) \subseteq Range(events')
    BY HappensKeeps
  <1>2. clock \in Nat /\ e.ts = clock + 1 /\ clock' = e.ts
    BY DEF TypeOK, Happens
  <1>3. /\ \A x \in R : x \in Range(events) /\ x.ts \in Nat /\ x.ts <= clock
        /\ \A x, y \in R : x.ts = y.ts => x = y
    BY EventsTyped DEF TypeOK, StartsLeft, Timed, EventType
  <1>4. CASE R' \subseteq R \cup {e} /\ PairToolCalls' = PairToolCalls
    <2>1. \A p \in PairToolCalls : p.start # e.ts /\ p.end <= clock'
      BY <1>2 DEF PairsApart
    <2> QED
      BY <1>1, <1>4, <2>1 DEF PairsApart
  <1>5. CASE events' = Append(events, e) /\ e.phase = "tool_call_end"
    <2>1. PICK T : T = Taken(R, e)
      OBVIOUS
    <2>2. R' = R \ T /\ PairToolCalls' = PairToolCalls \cup {Pairing(x, e) : x \in T}
      BY <1>5, <2>1, LeftIs
    <2>3. (\A x \in T : x \in R /\ SameKey(x, e)) /\ \A x, y \in T : x = y
      <3>1. PICK c \in calls : e.sid = c.sid /\ e.tool = c.tool /\ e.id = UseId(c.sid, c.id)
        BY <1>5 DEF CallEffect
      <3> QED
        BY <2>1, <3>1, TakenIs DEF SameKey
    <2>4. \A x : LET p == Pairing(x, e) IN
              /\ p.sid = e.sid /\ p.tool = e.tool /\ p.file = x.file
              /\ p.start = x.ts /\ p.end = e.ts
      BY DEF Pairing
    <2>5. \A x \in T : \A p : p = Pairing(x, e) =>
              /\ p.start \in Nat /\ p.end \in Nat /\ p.start < p.end /\ p.end <= clock'
              /\ \E y \in Range(events') : /\ y.phase = "tool_call_start" /\ SameKey(y, p)
                                       /\ y.file = p.file /\ y.ts = p.start
              /\ \A y \in R' : y.ts # p.start
              /\ \A q \in PairToolCalls : p.start # q.start /\ p.end # q.end
      <3> SUFFICES ASSUME NEW x \in T, NEW p, p = Pairing(x, e)
                   PROVE
              /\ p.start \in Nat /\ p.end \in Nat /\ p.start < p.end /\ p.end <= clock'
              /\ \E y \in Range(events') : /\ y.phase = "tool_call_start" /\ SameKey(y, p)
                                       /\ y.file = p.file /\ y.ts = p.start
              /\ \A y \in R' : y.ts # p.start
              /\ \A q \in PairToolCalls : p.start # q.start /\ p.end # q.end
        OBVIOUS
      <3>1. /\ p.sid = e.sid /\ p.tool = e.tool /\ p.file = x.file
            /\ p.start = x.ts /\ p.end = e.ts
        BY <2>4
      <3>2. x \in R /\ x.sid = e.sid /\ x.tool = e.tool
        BY <2>3 DEF SameKey
      <3>3. p.start \in Nat /\ p.end \in Nat /\ p.start < p.end /\ p.end <= clock'
        BY <1>2, <1>3, <3>1, <3>2
      <3>4. x \in Range(events') /\ x.phase = "tool_call_start" /\ SameKey(x, p)
        BY <1>1, <3>1, <3>2 DEF StartsLeft, SameKey
      <3>5. \A y \in R' : y.ts # p.start
        BY <1>3, <2>2, <3>1, <3>2
      <3>6. \A q \in PairToolCalls : p.start # q.start /\ p.end # q.end
        BY <1>2, <3>1, <3>2 DEF PairsApart
      <3> QED
        BY <3>1, <3>3, <3>4, <3>5, <3>6
    <2>6. \A p \in PairToolCalls' : p \in PairToolCalls \/ \E x \in T : p = Pairing(x, e)
      BY <2>2
    <2>7. \A p \in PairToolCalls :
              /\ p.start \in Nat /\ p.end \in Nat /\ p.start < p.end /\ p.end <= clock'
              /\ \E y \in Range(events') : /\ y.phase = "tool_call_start" /\ SameKey(y, p)
                                       /\ y.file = p.file /\ y.ts = p.start
              /\ \A y \in R' : y.ts # p.start
      BY <1>1, <1>2, <2>2 DEF PairsApart
    <2>8. ASSUME NEW p \in PairToolCalls', NEW q \in PairToolCalls', p.start = q.start \/ p.end = q.end
          PROVE  p = q
      <3>1. CASE p \in PairToolCalls /\ q \in PairToolCalls
        BY <2>8, <3>1 DEF PairsApart
      <3>2. CASE p \notin PairToolCalls /\ q \notin PairToolCalls
        BY <2>3, <2>6, <3>2
      <3>3. CASE p \in PairToolCalls /\ q \notin PairToolCalls
        BY <2>5, <2>6, <2>8, <3>3
      <3>4. CASE p \notin PairToolCalls /\ q \in PairToolCalls
        BY <2>5, <2>6, <2>8, <3>4
      <3> QED
        BY <3>1, <3>2, <3>3, <3>4
    <2> QED
      BY <2>5, <2>6, <2>7, <2>8 DEF PairsApart
  <1> QED
    BY <1>4, <1>5, LeftIs

\* Where there are ids the pairs are the calls that were heard twice.
IdsMeasured ==
    {p \in PairToolCalls : p.sid \in identified} =
        {Exact(c) : c \in {d \in Ended : d.heard /\ d.sid \in identified}}

\* That stays so.
LEMMA IdsMeasuredStep ==
    ASSUME TypeOK, Timed, NEW e \in EventType, Happens(e), CallEffect(e), CallsApart, StartsLeft,
           StartsMade, IdsMeasured
    PROVE  IdsMeasured'
  <1>1. identified' = identified
    BY DEF Happens
  <1>2. \A c : LET p == Exact(c) IN
            p.sid = c.sid /\ p.tool = c.tool /\ p.start = c.start /\ p.end = c.end
    BY DEF Exact
  <1>3. e.ts # 0 /\ \A c \in calls : c.id \in Nat /\ c.id # 0
    BY DEF TypeOK, CallType, EventType
  <1>4. CASE e.phase \notin {"tool_call_start", "tool_call_end"}
    <2>1. calls' = calls /\ PairToolCalls' = PairToolCalls
      BY <1>4, LeftIs DEF CallEffect
    <2> QED
      BY <1>1, <2>1 DEF IdsMeasured, Ended
  <1>5. CASE e.phase = "tool_call_start"
    <2>1. PICK c : calls' = calls \cup {c} /\ c.end = 0
      BY <1>5 DEF CallEffect
    <2>2. Ended' = Ended
      BY <2>1 DEF Ended
    <2>3. PairToolCalls' = PairToolCalls
      BY <1>5, LeftIs
    <2> QED
      BY <1>1, <2>2, <2>3 DEF IdsMeasured
  <1>6. CASE e.phase = "tool_call_end"
    <2>1. PICK c \in calls, d \in CallType :
              /\ c.end = 0 /\ calls' = (calls \ {c}) \cup {d}
              /\ e.sid = c.sid /\ e.tool = c.tool /\ e.id = UseId(c.sid, c.id)
              /\ d.sid = c.sid /\ d.tool = c.tool /\ d.file = c.file /\ d.id = c.id
              /\ d.start = c.start /\ d.end = e.ts /\ d.heard = (c.heard /\ events' = Append(events, e))
      BY <1>6 DEF CallEffect
    <2>2. Ended' = Ended \cup {d}
      BY <1>3, <2>1 DEF Ended
    <2>3. PICK T : T = IF events' = Append(events, e) THEN Taken(R, e) ELSE {}
      OBVIOUS
    <2>4. PairToolCalls' = PairToolCalls \cup {Pairing(x, e) : x \in T}
      BY <1>6, <2>3, LeftIs
    <2>5. \A x \in T : Pairing(x, e).sid = c.sid
      BY <2>1 DEF Pairing
    <2>6. CASE c.sid \notin identified
      <3>1. {p \in PairToolCalls' : p.sid \in identified} = {p \in PairToolCalls : p.sid \in identified}
        BY <2>4, <2>5, <2>6
      <3>2. {g \in Ended' : g.heard /\ g.sid \in identified} = {g \in Ended : g.heard /\ g.sid \in identified}
        BY <2>1, <2>2, <2>6
      <3> QED
        BY <1>1, <3>1, <3>2 DEF IdsMeasured
    <2>7. CASE c.sid \in identified /\ d.heard
      <3>1. PICK x \in R : x.id = c.id
        BY <2>1, <2>7 DEF StartsLeft
      <3>2. T = {x} /\ x.ts = c.start
        <4>1. events' = Append(events, e) /\ T = Taken(R, e)
          BY <2>1, <2>3, <2>7
        <4>2. /\ \A y, z \in T : y = z
              /\ T = {y \in R : y.id = c.id}
              /\ \A y \in T : y.ts = c.start
          BY <2>1, <2>7, <4>1, TakenIs
        <4> QED
          BY <3>1, <4>2
      <3>3. Pairing(x, e) = Exact(d)
        <4>1. x.file = c.file
          BY <2>1, <3>2 DEF StartsLeft, StartsMade, CallsApart
        <4> QED
          BY <2>1, <3>2, <4>1 DEF Pairing, Exact
      <3>4. PairToolCalls' = PairToolCalls \cup {Exact(d)}
        BY <2>4, <3>2, <3>3
      <3>5. {p \in PairToolCalls' : p.sid \in identified} =
                {p \in PairToolCalls : p.sid \in identified} \cup {Exact(d)}
        BY <1>2, <2>1, <2>7, <3>4
      <3>6. {g \in Ended' : g.heard /\ g.sid \in identified} =
                {g \in Ended : g.heard /\ g.sid \in identified} \cup {d}
        BY <2>1, <2>2, <2>7
      <3> QED
        BY <1>1, <3>5, <3>6 DEF IdsMeasured
    <2>8. CASE c.sid \in identified /\ ~d.heard
      <3>1. T = {}
        <4>1. CASE events' = Append(events, e)
          <5>1. T = {x \in R : x.id = c.id} /\ ~c.heard
            BY <2>1, <2>3, <2>8, <4>1, TakenIs
          <5> QED
            BY <1>3, <2>1, <5>1 DEF StartsLeft, CallsApart
        <4> QED
          BY <2>3, <4>1
      <3>2. PairToolCalls' = PairToolCalls
        BY <2>4, <3>1
      <3>3. {g \in Ended' : g.heard /\ g.sid \in identified} = {g \in Ended : g.heard /\ g.sid \in identified}
        BY <2>2, <2>8
      <3> QED
        BY <1>1, <3>2, <3>3 DEF IdsMeasured
    <2> QED
      BY <2>6, <2>7, <2>8
  <1> QED
    BY <1>4, <1>5, <1>6

\* A call that runs, and ran with no other of its key, has its start left ...
AloneLeft ==
    \A c \in calls : c.end = 0 /\ c.heard /\ (\A d \in calls : ~Overlap(c, d)) =>
        \E x \in R : SameKey(x, c) /\ x.ts = c.start

\* ... and its pair when it is back.
AloneMeasured ==
    \A c \in Ended : c.heard /\ (\A d \in calls : ~Overlap(c, d)) => Exact(c) \in PairToolCalls

\* Calls that overlap still do later.
LEMMA OverlapStays ==
    ASSUME TypeOK, NEW e \in EventType, Happens(e), CallEffect(e), CallsApart,
           NEW c \in calls, c \in calls', \A d \in calls' : ~Overlap(c, d)
    PROVE  \A d \in calls : ~Overlap(c, d)
  <1> SUFFICES ASSUME NEW d \in calls, Overlap(c, d)  PROVE FALSE
    OBVIOUS
  <1>1. d \notin calls'
    OBVIOUS
  <1>2. PICK g \in calls, h \in CallType :
            /\ g.end = 0 /\ calls' = (calls \ {g}) \cup {h}
            /\ h.sid = g.sid /\ h.tool = g.tool /\ h.id = g.id /\ h.start = g.start /\ h.end = e.ts
    BY <1>1 DEF CallEffect
  <1>3. d = g /\ h \in calls'
    BY <1>1, <1>2
  <1>4. c.start <= clock /\ e.ts = clock + 1 /\ clock \in Nat /\ c.start \in Nat
    BY DEF CallsApart, Happens, TypeOK, CallType
  <1>5. Overlap(c, h)
    <2>1. c # h
      BY <1>2, <1>3 DEF CallsApart, Overlap
    <2> QED
      BY <1>2, <1>3, <1>4, <2>1 DEF Overlap, SameKey
  <1> QED
    BY <1>3, <1>5

\* Every step keeps the start of a call that runs alone, ...
LEMMA AloneLeftStep ==
    ASSUME TypeOK, Timed, NEW e \in EventType, Happens(e), CallEffect(e), CallsApart, StartsLeft,
           AloneLeft
    PROVE  AloneLeft'
  <1> SUFFICES ASSUME NEW c \in calls', c.end = 0, c.heard, \A d \in calls' : ~Overlap(c, d)
               PROVE  \E x \in R' : SameKey(x, c) /\ x.ts = c.start
    BY DEF AloneLeft
  <1>1. e.ts # 0
    BY DEF EventType
  <1>2. CASE c \notin calls
    <2>1. e.phase = "tool_call_start"
      <3>1. e.phase # "tool_call_end"
        <4>1. e.phase = "tool_call_end" => \E d : d.end # 0 /\ calls' \subseteq calls \cup {d}
          BY <1>1 DEF CallEffect
        <4> QED
          BY <1>2, <4>1
      <3> QED
        BY <1>2, <3>1 DEF CallEffect
    <2>2. /\ c.sid = e.sid /\ c.tool = e.tool /\ c.start = e.ts
          /\ c.heard = (events' = Append(events, e))
      BY <1>2, <2>1 DEF CallEffect
    <2>3. R' = R \cup {e}
      BY <2>1, <2>2, LeftIs
    <2> QED
      BY <2>2, <2>3 DEF SameKey
  <1>3. CASE c \in calls
    <2>1. PICK x \in R : SameKey(x, c) /\ x.ts = c.start
      <3>1. \A d \in calls : ~Overlap(c, d)
        BY <1>3, OverlapStays
      <3> QED
        BY <1>3, <3>1 DEF AloneLeft
    <2>2. CASE events' = Append(events, e) /\ e.phase = "tool_call_end"
      <3>1. PICK g \in calls, h \in CallType :
                /\ g.end = 0 /\ calls' = (calls \ {g}) \cup {h}
                /\ e.sid = g.sid /\ e.tool = g.tool /\ e.id = UseId(g.sid, g.id)
                /\ h.sid = g.sid /\ h.tool = g.tool /\ h.id = g.id /\ h.start = g.start
                /\ h.end = e.ts
        BY <2>2 DEF CallEffect
      <3>2. c # g
        <4>1. c = g => c = h
          BY <3>1
        <4> QED
          BY <1>1, <3>1, <4>1
      <3>3. R' = R \ Taken(R, e)
        BY <2>2, LeftIs
      <3>4. \A y \in Taken(R, e) : SameKey(y, g)
        BY <3>1, TakenIs
      <3>5. ~SameKey(c, g)
        <4>1. ~Overlap(c, h) /\ c # h
          BY <1>1, <3>1
        <4>2. c.start < e.ts
          BY <1>3 DEF CallsApart, Happens, TypeOK, CallType
        <4> QED
          BY <3>1, <4>1, <4>2 DEF Overlap, SameKey
      <3>6. x \notin Taken(R, e)
        BY <2>1, <3>4, <3>5 DEF SameKey
      <3> QED
        BY <2>1, <3>3, <3>6
    <2>3. CASE ~(events' = Append(events, e) /\ e.phase = "tool_call_end")
      <3>1. R \subseteq R'
        BY <2>3, LeftIs
      <3> QED
        BY <2>1, <3>1
    <2> QED
      BY <2>2, <2>3
  <1> QED
    BY <1>2, <1>3

\* ... and its end takes it.
LEMMA AloneMeasuredStep ==
    ASSUME TypeOK, Timed, NEW e \in EventType, Happens(e), CallEffect(e), CallsApart, StartsLeft,
           StartsMade, AloneLeft, AloneMeasured
    PROVE  AloneMeasured'
  <1> SUFFICES ASSUME NEW c \in calls', c.end # 0, c.heard, \A d \in calls' : ~Overlap(c, d)
               PROVE  Exact(c) \in PairToolCalls'
    BY DEF AloneMeasured, Ended
  <1>1. PairToolCalls \subseteq PairToolCalls'
    BY LeftIs
  <1>2. CASE c \in calls
    <2>1. \A d \in calls : ~Overlap(c, d)
      BY <1>2, OverlapStays
    <2> QED
      BY <1>1, <1>2, <2>1 DEF AloneMeasured, Ended
  <1>3. CASE c \notin calls
    <2>1. e.phase = "tool_call_end"
      <3>1. e.phase # "tool_call_start"
        BY <1>3 DEF CallEffect
      <3> QED
        BY <1>3, <3>1 DEF CallEffect
    <2>2. PICK g \in calls, h \in CallType :
              /\ g.end = 0 /\ calls' = (calls \ {g}) \cup {h}
              /\ e.sid = g.sid /\ e.tool = g.tool /\ e.id = UseId(g.sid, g.id)
              /\ h.sid = g.sid /\ h.tool = g.tool /\ h.file = g.file /\ h.id = g.id
              /\ h.start = g.start /\ h.end = e.ts /\ h.heard = (g.heard /\ events' = Append(events, e))
      BY <2>1 DEF CallEffect
    <2>3. c = h /\ g.heard /\ events' = Append(events, e)
      BY <1>3, <2>2
    <2>4. PICK T : T = Taken(R, e)
      OBVIOUS
    <2>5. PairToolCalls' = PairToolCalls \cup {Pairing(x, e) : x \in T}
      BY <2>1, <2>3, <2>4, LeftIs
    <2>6. e.ts = clock + 1 /\ clock \in Nat /\ \A d \in calls : d.start \in Nat /\ d.start <= clock
      BY DEF Happens, TypeOK, CallType, CallsApart
    <2>7. \A d \in calls : d # g /\ SameKey(d, g) => d.end # 0 /\ d.end <= g.start
      <3> SUFFICES ASSUME NEW d \in calls, d # g, SameKey(d, g)  PROVE d.end # 0 /\ d.end <= g.start
        OBVIOUS
      <3>0. SameKey(d, g)
        OBVIOUS
      <3>1. d \in calls' /\ ~Overlap(c, d) /\ d # h
        BY <2>2, <2>3, <1>3
      <3>2. d.end \in Nat /\ g.start \in Nat /\ d.start < e.ts
        BY <2>6 DEF TypeOK, CallType
      <3>3. ~Overlap(h, d) /\ SameKey(h, d)
        BY <2>2, <2>3, <3>0, <3>1 DEF SameKey
      <3>4. ~(d.end = 0 \/ g.start < d.end)
        BY <2>2, <3>1, <3>2, <3>3 DEF Overlap
      <3> QED
        BY <3>2, <3>4
    <2>8. PICK x \in R : SameKey(x, g) /\ x.ts = g.start
      <3>1. \A d \in calls : ~Overlap(g, d)
        BY <2>2, <2>6, <2>7 DEF Overlap, SameKey, CallsApart, TypeOK, CallType
      <3> QED
        BY <2>2, <2>3, <3>1 DEF AloneLeft
    <2>9. ASSUME g.sid \notin identified  PROVE x \in T
      <3>1. T = {z \in R : SameKey(z, g) /\ \A y \in R : SameKey(y, g) => y.ts <= z.ts}
        BY <2>2, <2>4, <2>9, TakenIs
      <3>2. ASSUME NEW y \in R, SameKey(y, g)  PROVE y.ts <= x.ts
        <4>1. PICK d \in calls : d.sid = y.sid /\ d.tool = y.tool /\ d.start = y.ts
          BY DEF StartsLeft, StartsMade
        <4>2. SameKey(d, g) /\ d.start \in Nat /\ g.start \in Nat /\ d.end \in Nat
          BY <3>2, <4>1 DEF SameKey, TypeOK, CallType
        <4>3. d # g => d.start < g.start
          BY <2>7, <4>2 DEF CallsApart
        <4> QED
          BY <2>8, <4>1, <4>2, <4>3
      <3> QED
        BY <2>8, <3>1, <3>2
    <2>10. ASSUME g.sid \in identified  PROVE \E z \in T : z.ts = g.start
      <3>1. (T = {z \in R : z.id = g.id}) /\ \A z \in T : z.ts = g.start
        BY <2>2, <2>4, <2>10, TakenIs
      <3>2. \E z \in R : z.id = g.id
        BY <2>2, <2>3, <2>10 DEF StartsLeft
      <3> QED
        BY <3>1, <3>2
    <2>11. PICK z \in T : z.ts = g.start
      BY <2>8, <2>9, <2>10
    <2>12. Pairing(z, e) = Exact(c)
      <3>1. z \in R
        BY <2>2, <2>4, TakenIs
      <3>2. z.file = g.file
        BY <2>11, <3>1 DEF StartsLeft, StartsMade, CallsApart
      <3> QED
        BY <2>2, <2>3, <2>11, <3>2 DEF Pairing, Exact
    <2> QED
      BY <2>5, <2>11, <2>12
  <1> QED
    BY <1>2, <1>3

-----------------------------------------------------------------------------
(* The number of calls and the time they took.                             *)

\* Things with a start and an end.
Spans(S) == \A p \in S : p.start \in Int /\ p.end \in Int

\* What one more adds to a duration, ...
LEMMA DurationAdd ==
    ASSUME NEW S, IsFiniteSet(S), NEW a, a \notin S, Spans(S), a.start \in Int, a.end \in Int
    PROVE  /\ Duration(S \cup {a}) = Duration(S) + (a.end - a.start)
           /\ Duration(S) \in Int
  <1>1. PICK f, g : f = [p \in S |-> p.end - p.start] /\ g = [p \in S \cup {a} |-> p.end - p.start]
    OBVIOUS
  <1>2. /\ \A p \in S : f[p] = g[p]
        /\ \A p \in S \cup {a} : g[p] \in Int
        /\ \A p \in S : f[p] \in Int
        /\ g[a] = a.end - a.start
    BY <1>1 DEF Spans
  <1>3. SumFunctionOnSet(g, S \cup {a}) = SumFunctionOnSet(g, S) + g[a]
    BY ONLY IsFiniteSet(S), a \notin S, <1>2, SumAdd
  <1>4. SumFunctionOnSet(f, S) = SumFunctionOnSet(g, S)
    BY ONLY IsFiniteSet(S), <1>2, SumSame
  <1>5. SumFunctionOnSet(f, S) \in Int
    BY ONLY IsFiniteSet(S), <1>2, SumInt
  <1>6. SumFunction(f) = SumFunctionOnSet(f, S) /\ SumFunction(g) = SumFunctionOnSet(g, S \cup {a})
    BY <1>1 DEF SumFunction
  <1>7. Duration(S) = SumFunction(f) /\ Duration(S \cup {a}) = SumFunction(g)
    BY <1>1 DEF Duration
  <1> QED
    BY <1>2, <1>3, <1>4, <1>5, <1>6, <1>7

\* ... and one that takes the place of another with the same start.
LEMMA DurationSwap ==
    ASSUME NEW S, IsFiniteSet(S), NEW a \in S, NEW b, b \notin S, Spans(S), b.start = a.start, b.end \in Int
    PROVE  /\ Duration((S \ {a}) \cup {b}) = Duration(S) + (b.end - a.end)
           /\ Cardinality((S \ {a}) \cup {b}) = Cardinality(S)
           /\ Duration(S) \in Int
  <1>1. PICK T : T = S \ {a}
    OBVIOUS
  <1>2. IsFiniteSet(T) /\ Cardinality(T) = Cardinality(S) - 1 /\ Cardinality(S) \in Nat
    BY <1>1, FS_RemoveElement, FS_CardinalityType
  <1>3. a \notin T /\ b \notin T /\ Spans(T) /\ T \cup {a} = S
    BY <1>1 DEF Spans
  <1>4. a.start \in Int /\ a.end \in Int /\ b.start \in Int
    BY DEF Spans
  <1>5. /\ Duration(T \cup {a}) = Duration(T) + (a.end - a.start)
        /\ Duration(T) \in Int
    BY <1>2, <1>3, <1>4, DurationAdd
  <1>6. Duration(T \cup {b}) = Duration(T) + (b.end - b.start)
    BY <1>2, <1>3, <1>4, DurationAdd
  <1>7. Cardinality(T \cup {b}) = Cardinality(T) + 1
    BY <1>2, <1>3, FS_AddElement
  <1>8. PICK k, m, n, x, y, z :
            /\ k = Duration(T) /\ m = Duration(S) /\ n = Duration(T \cup {b})
            /\ x = a.end /\ y = b.end /\ z = a.start
    OBVIOUS
  <1>9. m = k + (x - z) /\ n = k + (y - z) /\ k \in Int /\ x \in Int /\ y \in Int /\ z \in Int
    BY <1>3, <1>4, <1>5, <1>6, <1>8
  <1>10. n = m + (y - x) /\ m \in Int
    BY ONLY <1>9
  <1> QED
    BY <1>1, <1>2, <1>7, <1>8, <1>10

\* Events with times up to n have a latest one.
LEMMA LatestOf ==
    ASSUME NEW S, S # {}, NEW n \in Nat, \A x \in S : x.ts \in Nat /\ x.ts <= n
    PROVE  \E x \in S : \A y \in S : y.ts <= x.ts
  <1> DEFINE T == {n - x.ts : x \in S}
  <1>1. T \in SUBSET Nat /\ T # {}
    OBVIOUS
  <1>2. PICK m \in T : \A k \in T : m <= k
    <2> HIDE DEF T
    <2> QED
      BY <1>1, LeastNumber
  <1>3. PICK x \in S : m = n - x.ts
    BY <1>2
  <1>4. \A y \in S : m <= n - y.ts
    BY <1>2
  <1> QED
    BY <1>3, <1>4

\* Those of S with these sessions and tools.
Within(S, K) == {x \in S : <<x.sid, x.tool>> \in K}

\* A start that is left, as the pair of a call that runs.
Waiting(x) == [sid |-> x.sid, tool |-> x.tool, start |-> x.ts, end |-> 0]

PairsAndStarts == PairToolCalls \cup {Waiting(x) : x \in R}

\* There are as many starts left, S, as calls run, and as many pairs and starts, B, as
\* calls, of the same duration.
Even(S, B, C, K) ==
    /\ Cardinality(Within(S, K)) = Cardinality({c \in Within(C, K) : c.end = 0})
    /\ Cardinality(Within(B, K)) = Cardinality(Within(C, K))
    /\ Duration(Within(B, K)) = Duration(Within(C, K))

\* So it is while no hook was lost, whatever sessions and tools are taken together.
Balanced ==
    lost = 0 =>
        /\ \A c \in calls : c.heard
        /\ \A K \in SUBSET (Sessions \X Tools) : Even(R, PairsAndStarts, calls, K)

PairsFinite == IsFiniteSet(R) /\ IsFiniteSet(PairsAndStarts)

\* What a step does to the pairs and the starts together.
LEMMA BothIs ==
    ASSUME TypeOK, Timed, NEW e \in EventType, Happens(e), CallEffect(e), CallsApart, StartsLeft,
           PairsApart
    PROVE  /\ events' # Append(events, e) \/ e.phase \notin {"tool_call_start", "tool_call_end"} =>
                  PairsAndStarts' = PairsAndStarts
           /\ events' = Append(events, e) /\ e.phase = "tool_call_start" =>
                  /\ PairsAndStarts' = PairsAndStarts \cup {Waiting(e)}
                  /\ Waiting(e) \notin PairsAndStarts
           /\ \A x : events' = Append(events, e) /\ e.phase = "tool_call_end" /\ Taken(R, e) = {x} =>
                  /\ PairsAndStarts' = (PairsAndStarts \ {Waiting(x)}) \cup {Pairing(x, e)}
                  /\ Waiting(x) \in PairsAndStarts /\ Pairing(x, e) \notin PairsAndStarts
           /\ events' = Append(events, e) /\ e.phase = "tool_call_end" /\ Taken(R, e) = {} =>
                  PairsAndStarts' = PairsAndStarts
  <1>1. \A x : LET p == Waiting(x) IN
            p.sid = x.sid /\ p.tool = x.tool /\ p.start = x.ts /\ p.end = 0
    BY DEF Waiting
  <1>2. \A x : LET p == Pairing(x, e) IN
            p.sid = e.sid /\ p.tool = e.tool /\ p.start = x.ts /\ p.end = e.ts
    BY DEF Pairing
  <1>3. clock \in Nat /\ e.ts = clock + 1
    BY DEF TypeOK, Happens
  <1>4. \A p \in PairToolCalls : p.end # 0 /\ p.end # e.ts /\ p.start # e.ts
    BY <1>3 DEF PairsApart
  <1>5. /\ \A x \in R : x.ts \in Nat /\ x.ts <= clock
        /\ \A x, y \in R : x.ts = y.ts => x = y
    BY EventsTyped DEF TypeOK, StartsLeft, Timed, EventType
  <1>6. PairsAndStarts = PairToolCalls \cup {Waiting(x) : x \in R}
    BY DEF PairsAndStarts
  <1>7. PairsAndStarts' = PairToolCalls' \cup {Waiting(x) : x \in R'}
    BY DEF PairsAndStarts, Waiting
  <1>8. ASSUME events' = Append(events, e), e.phase = "tool_call_start"
        PROVE  /\ PairsAndStarts' = PairsAndStarts \cup {Waiting(e)}
               /\ Waiting(e) \notin PairsAndStarts
    <2>1. R' = R \cup {e} /\ PairToolCalls' = PairToolCalls
      BY <1>8, LeftIs
    <2>2. \A p \in PairsAndStarts : p.start # e.ts
      BY <1>1, <1>3, <1>4, <1>5, <1>6
    <2> QED
      BY <1>1, <1>6, <1>7, <2>1, <2>2
  <1>9. ASSUME NEW x, events' = Append(events, e), e.phase = "tool_call_end", Taken(R, e) = {x}
        PROVE  /\ PairsAndStarts' = (PairsAndStarts \ {Waiting(x)}) \cup {Pairing(x, e)}
               /\ Waiting(x) \in PairsAndStarts /\ Pairing(x, e) \notin PairsAndStarts
    <2>1. R' = R \ {x} /\ PairToolCalls' = PairToolCalls \cup {Pairing(x, e)}
      BY <1>9, LeftIs
    <2>2. x \in R
      BY <1>9 DEF Taken, Own, Stack
    <2>3. PICK w, p : w = Waiting(x) /\ p = Pairing(x, e)
      OBVIOUS
    <2>4. \A y \in R : y # x => Waiting(y) # w
      BY <1>1, <1>5, <2>2, <2>3
    <2>5. \A q \in PairToolCalls : q # w /\ q # p
      BY <1>1, <1>2, <1>4, <2>3
    <2>6. w # p /\ \A y \in R : Waiting(y) # p
      <3>1. p.end = e.ts /\ p.end # 0
        BY <1>2, <1>3, <2>3
      <3>2. \A y, q : q = Waiting(y) => q.end = 0
        BY <1>1
      <3> QED
        BY <2>3, <3>1, <3>2
    <2>7. {Waiting(y) : y \in R \ {x}} = {Waiting(y) : y \in R} \ {w}
      BY <2>2, <2>3, <2>4
    <2> QED
      BY <1>6, <1>7, <2>1, <2>2, <2>3, <2>5, <2>6, <2>7
  <1>10. ASSUME \/ events' # Append(events, e)
                \/ e.phase \notin {"tool_call_start", "tool_call_end"}
                \/ e.phase = "tool_call_end" /\ Taken(R, e) = {}
         PROVE  PairsAndStarts' = PairsAndStarts
    <2>1. R' = R /\ PairToolCalls' = PairToolCalls
      BY <1>10, LeftIs
    <2> QED
      BY <1>6, <1>7, <2>1
  <1> QED
    BY <1>8, <1>9, <1>10

\* They stay finite.
LEMMA PairsFiniteStep ==
    ASSUME TypeOK, Timed, NEW e \in EventType, Happens(e), CallEffect(e), CallsApart, StartsLeft,
           PairsApart, PairsFinite
    PROVE  PairsFinite'
  <1>1. \A x : IsFiniteSet(R \cup {x}) /\ IsFiniteSet(R \ x)
    BY FS_AddElement, FS_Difference DEF PairsFinite
  <1>2. \A x, y : IsFiniteSet(PairsAndStarts \cup {x}) /\ IsFiniteSet((PairsAndStarts \ {y}) \cup {x})
    BY FS_AddElement, FS_RemoveElement DEF PairsFinite
  <1>3. e.phase = "tool_call_end" => Taken(R, e) = {} \/ \E x : Taken(R, e) = {x}
    <2>1. PICK T : T = Taken(R, e)
      OBVIOUS
    <2>2. e.phase = "tool_call_end" => \A x, y \in T : x = y
      BY <2>1, TakenIs DEF CallEffect
    <2> QED
      BY <2>1, <2>2
  <1>4. IsFiniteSet(R')
    <2>1. R' = R \/ (\E x : R' = R \cup {x}) \/ (\E x : R' = R \ x)
      BY LeftIs
    <2> QED
      BY <1>1, <2>1 DEF PairsFinite
  <1>5. IsFiniteSet(PairsAndStarts')
    <2>1. CASE events' # Append(events, e) \/ e.phase \notin {"tool_call_start", "tool_call_end"}
      BY <2>1, BothIs DEF PairsFinite
    <2>2. CASE events' = Append(events, e) /\ e.phase = "tool_call_start"
      <3>1. PairsAndStarts' = PairsAndStarts \cup {Waiting(e)}
        BY <2>2, BothIs
      <3> QED
        BY <1>2, <3>1
    <2>3. CASE events' = Append(events, e) /\ e.phase = "tool_call_end" /\ Taken(R, e) = {}
      <3>1. PairsAndStarts' = PairsAndStarts
        BY <2>3, BothIs
      <3> QED
        BY <3>1 DEF PairsFinite
    <2>4. ASSUME NEW x, events' = Append(events, e), e.phase = "tool_call_end", Taken(R, e) = {x}
          PROVE  IsFiniteSet(PairsAndStarts')
      <3>1. PairsAndStarts' = (PairsAndStarts \ {Waiting(x)}) \cup {Pairing(x, e)}
        BY <2>4, BothIs
      <3> QED
        BY <1>2, <3>1
    <2> QED
      BY <1>3, <2>1, <2>2, <2>3, <2>4
  <1> QED
    BY <1>4, <1>5 DEF PairsFinite

\* The end of a call takes a start of its session and tool while no hook was lost.
LEMMA TakesOne ==
    ASSUME TypeOK, Timed, CallsApart, StartsLeft, PairsFinite, Balanced, lost = 0,
           NEW c \in calls, c.end = 0,
           NEW e, e.sid = c.sid, e.tool = c.tool, e.id = UseId(c.sid, c.id)
    PROVE  \E x : Taken(R, e) = {x} /\ x \in R /\ SameKey(x, c)
  <1>1. /\ \A x \in Taken(R, e) : x \in R /\ SameKey(x, c)
        /\ \A x, y \in Taken(R, e) : x = y
    BY TakenIs
  <1>2. CASE c.sid \in identified
    <2>1. \E x \in R : x.id = c.id
      BY <1>2 DEF Balanced, StartsLeft
    <2>2. Taken(R, e) # {}
      <3>1. Taken(R, e) = {x \in R : x.id = c.id}
        BY <1>2, TakenIs
      <3> QED
        BY <2>1, <3>1
    <2> QED
      BY <1>1, <2>2
  <1>3. CASE c.sid \notin identified
    <2>1. PICK K : K = {<<c.sid, c.tool>>}
      OBVIOUS
    <2>2. K \in SUBSET (Sessions \X Tools)
      BY <2>1 DEF TypeOK, CallType
    <2>3. PICK N, S : N = {d \in Within(calls, K) : d.end = 0} /\ S = Within(R, K)
      OBVIOUS
    <2>4. c \in N /\ IsFiniteSet(N)
      <3>1. c \in N /\ N \subseteq calls
        BY <2>1, <2>3 DEF Within
      <3> QED
        BY <3>1, FS_Subset DEF TypeOK
    <2>5. Cardinality(N) # 0
      BY <2>4, FS_EmptySet
    <2>6. S # {}
      BY <2>2, <2>3, <2>5, FS_EmptySet DEF Balanced, Even
    <2>7. S = {x \in R : SameKey(x, c)}
      BY <2>1, <2>3 DEF Within, SameKey
    <2>8. PICK x \in S : \A y \in S : y.ts <= x.ts
      <3>1. clock \in Nat /\ \A y \in S : y.ts \in Nat /\ y.ts <= clock
        BY <2>7, EventsTyped DEF TypeOK, StartsLeft, Timed, EventType
      <3> QED
        BY <2>6, <3>1, LatestOf
    <2>9. x \in Taken(R, e)
      <3>1. Taken(R, e) = {z \in R : SameKey(z, c) /\ \A y \in R : SameKey(y, c) => y.ts <= z.ts}
        BY <1>3, TakenIs
      <3> QED
        BY <2>7, <2>8, <3>1
    <2> QED
      BY <1>1, <2>9
  <1> QED
    BY <1>2, <1>3

SameClass(x, y) == <<x.sid, x.tool>> = <<y.sid, y.tool>>

\* A call that starts keeps that, ...
LEMMA EvenStarts ==
    ASSUME NEW S, NEW B, NEW C, IsFiniteSet(S), IsFiniteSet(B), IsFiniteSet(C), Spans(B), Spans(C),
           NEW K, Even(S, B, C, K),
           NEW x, x \notin S, NEW w, w \notin B, NEW c, c \notin C, SameClass(x, c), SameClass(w, c),
           w.start = c.start, w.end = 0, c.end = 0, c.start \in Int
    PROVE  Even(S \cup {x}, B \cup {w}, C \cup {c}, K)
  <1>1. CASE <<c.sid, c.tool>> \notin K
    <2>1. /\ Within(S \cup {x}, K) = Within(S, K)
          /\ Within(B \cup {w}, K) = Within(B, K)
          /\ Within(C \cup {c}, K) = Within(C, K)
      BY <1>1 DEF Within, SameClass
    <2> QED
      BY <2>1 DEF Even
  <1>2. CASE <<c.sid, c.tool>> \in K
    <2>1. PICK s, b, n, r : /\ s = Within(S, K) /\ b = Within(B, K) /\ n = Within(C, K)
                            /\ r = {d \in n : d.end = 0}
      OBVIOUS
    <2>2. /\ IsFiniteSet(s) /\ IsFiniteSet(b) /\ IsFiniteSet(n) /\ IsFiniteSet(r)
      <3>1. s \subseteq S /\ b \subseteq B /\ n \subseteq C /\ r \subseteq C
        BY <2>1 DEF Within
      <3> QED
        BY <3>1, FS_Subset
    <2>3. x \notin s /\ w \notin b /\ c \notin n /\ c \notin r /\ Spans(b) /\ Spans(n)
      BY <2>1 DEF Within, Spans
    <2>4. /\ Within(S \cup {x}, K) = s \cup {x}
          /\ Within(B \cup {w}, K) = b \cup {w}
          /\ Within(C \cup {c}, K) = n \cup {c}
      BY <1>2, <2>1 DEF Within, SameClass
    <2>5. {d \in n \cup {c} : d.end = 0} = r \cup {c}
      BY <2>1
    <2>6. /\ Cardinality(s \cup {x}) = Cardinality(s) + 1
          /\ Cardinality(b \cup {w}) = Cardinality(b) + 1
          /\ Cardinality(n \cup {c}) = Cardinality(n) + 1
          /\ Cardinality(r \cup {c}) = Cardinality(r) + 1
      BY ONLY <2>2, <2>3, FS_AddElement
    <2>7. Duration(b \cup {w}) = Duration(b) + (w.end - w.start)
      <3>1. w.start \in Int /\ w.end \in Int
        OBVIOUS
      <3> QED
        BY ONLY <2>2, <2>3, <3>1, DurationAdd
    <2>8. Duration(n \cup {c}) = Duration(n) + (c.end - c.start)
      <3>1. c.start \in Int /\ c.end \in Int
        OBVIOUS
      <3> QED
        BY ONLY <2>2, <2>3, <3>1, DurationAdd
    <2>9. /\ Cardinality(s) = Cardinality(r) /\ Cardinality(b) = Cardinality(n)
          /\ Duration(b) = Duration(n)
      BY <2>1 DEF Even
    <2>10. Cardinality(s \cup {x}) = Cardinality(r \cup {c})
      BY <2>6, <2>9
    <2>11. Cardinality(b \cup {w}) = Cardinality(n \cup {c})
      BY <2>6, <2>9
    <2>12. Duration(b \cup {w}) = Duration(n \cup {c})
      BY <2>7, <2>8, <2>9
    <2> QED
      BY <2>4, <2>5, <2>10, <2>11, <2>12 DEF Even
  <1> QED
    BY <1>1, <1>2

\* ... and so does one that ends.
LEMMA EvenEnds ==
    ASSUME NEW S, NEW B, NEW C, IsFiniteSet(S), IsFiniteSet(B), IsFiniteSet(C), Spans(B), Spans(C),
           NEW K, Even(S, B, C, K),
           NEW x \in S, NEW w \in B, NEW p, p \notin B, NEW c \in C, NEW d, d \notin C,
           SameClass(x, c), SameClass(w, c), SameClass(p, c), SameClass(d, c),
           p.start = w.start, d.start = c.start, w.end = 0, c.end = 0, p.end = d.end,
           d.end \in Int, d.end # 0
    PROVE  Even(S \ {x}, (B \ {w}) \cup {p}, (C \ {c}) \cup {d}, K)
  <1>1. CASE <<c.sid, c.tool>> \notin K
    <2>1. /\ Within(S \ {x}, K) = Within(S, K)
          /\ Within((B \ {w}) \cup {p}, K) = Within(B, K)
          /\ Within((C \ {c}) \cup {d}, K) = Within(C, K)
      BY <1>1 DEF Within, SameClass
    <2> QED
      BY <2>1 DEF Even
  <1>2. CASE <<c.sid, c.tool>> \in K
    <2>1. PICK s, b, n, r : /\ s = Within(S, K) /\ b = Within(B, K) /\ n = Within(C, K)
                            /\ r = {g \in n : g.end = 0}
      OBVIOUS
    <2>2. /\ IsFiniteSet(s) /\ IsFiniteSet(b) /\ IsFiniteSet(n) /\ IsFiniteSet(r)
      <3>1. s \subseteq S /\ b \subseteq B /\ n \subseteq C /\ r \subseteq C
        BY <2>1 DEF Within
      <3> QED
        BY <3>1, FS_Subset
    <2>3. x \in s /\ w \in b /\ c \in n /\ c \in r
      BY <1>2, <2>1 DEF Within, SameClass
    <2>4. p \notin b /\ d \notin n /\ Spans(b) /\ Spans(n)
      BY <2>1 DEF Within, Spans
    <2>5. /\ Within(S \ {x}, K) = s \ {x}
          /\ Within((B \ {w}) \cup {p}, K) = (b \ {w}) \cup {p}
          /\ Within((C \ {c}) \cup {d}, K) = (n \ {c}) \cup {d}
      BY <1>2, <2>1 DEF Within, SameClass
    <2>6. {g \in (n \ {c}) \cup {d} : g.end = 0} = r \ {c}
      BY <2>1
    <2>7. Cardinality(s \ {x}) = Cardinality(s) - 1 /\ Cardinality(r \ {c}) = Cardinality(r) - 1
      BY ONLY <2>2, <2>3, FS_RemoveElement
    <2>8. /\ Duration((b \ {w}) \cup {p}) = Duration(b) + (p.end - w.end)
          /\ Cardinality((b \ {w}) \cup {p}) = Cardinality(b)
      <3>1. p.start = w.start /\ p.end \in Int
        OBVIOUS
      <3> QED
        BY ONLY <2>2, <2>3, <2>4, <3>1, DurationSwap
    <2>9. /\ Duration((n \ {c}) \cup {d}) = Duration(n) + (d.end - c.end)
          /\ Cardinality((n \ {c}) \cup {d}) = Cardinality(n)
      <3>1. d.start = c.start /\ d.end \in Int
        OBVIOUS
      <3> QED
        BY ONLY <2>2, <2>3, <2>4, <3>1, DurationSwap
    <2>10. /\ Cardinality(s) = Cardinality(r) /\ Cardinality(b) = Cardinality(n)
           /\ Duration(b) = Duration(n)
      BY <2>1 DEF Even
    <2>11. Cardinality(s \ {x}) = Cardinality(r \ {c})
      BY <2>7, <2>10
    <2>12. /\ Cardinality((b \ {w}) \cup {p}) = Cardinality((n \ {c}) \cup {d})
           /\ Duration((b \ {w}) \cup {p}) = Duration((n \ {c}) \cup {d})
      BY <2>8, <2>9, <2>10
    <2> QED
      BY <2>5, <2>6, <2>11, <2>12 DEF Even
  <1> QED
    BY <1>1, <1>2

\* Every step keeps the calls and the pairs even.
LEMMA BalancedStep ==
    ASSUME TypeOK, Timed, NEW e \in EventType, Happens(e), CallEffect(e), CallsApart, StartsLeft,
           PairsApart, PairsFinite, Balanced
    PROVE  Balanced'
  <1> SUFFICES ASSUME lost' = 0
               PROVE  /\ \A c \in calls' : c.heard
                      /\ \A K \in SUBSET (Sessions \X Tools) : Even(R', PairsAndStarts', calls', K)
    BY DEF Balanced, Even, Within, Duration
  <1>1. lost = 0 /\ events' = Append(events, e)
    BY HappensKeeps
  <1>2. \A c \in calls' : c.heard
    BY <1>1 DEF CallEffect, Balanced
  <1>3. PICK S, B, C : S = R /\ B = PairsAndStarts /\ C = calls
    OBVIOUS
  <1>4. IsFiniteSet(S) /\ IsFiniteSet(B) /\ IsFiniteSet(C)
    BY <1>3 DEF PairsFinite, TypeOK
  <1>5. clock \in Nat /\ e.ts = clock + 1 /\ e.ts \in Int /\ e.ts # 0
    BY DEF TypeOK, Happens
  <1>6. /\ \A x \in R : x.ts \in Nat /\ x.ts <= clock
        /\ \A c \in C : c.start \in Nat /\ c.end \in Nat /\ c.start <= clock
    BY <1>3, EventsTyped DEF TypeOK, CallType, StartsLeft, Timed, EventType, CallsApart
  <1>7. Spans(B) /\ Spans(C)
    <2>1. \A x, p : p = Waiting(x) => p.start = x.ts /\ p.end = 0
      BY DEF Waiting
    <2>2. \A p \in B : p.start \in Int /\ p.end \in Int
      BY <1>3, <1>6, <2>1 DEF PairsAndStarts, PairsApart
    <2> QED
      BY <1>6, <2>2 DEF Spans
  <1>8. \A K \in SUBSET (Sessions \X Tools) : Even(S, B, C, K)
    BY <1>1, <1>3 DEF Balanced
  <1>9. CASE e.phase \notin {"tool_call_start", "tool_call_end"}
    <2>1. R' = S /\ PairsAndStarts' = B /\ calls' = C
      BY <1>3, <1>9, LeftIs, BothIs DEF CallEffect
    <2> QED
      BY <1>2, <1>8, <2>1
  <1>10. CASE e.phase = "tool_call_start"
    <2>1. PICK w : w = Waiting(e)
      OBVIOUS
    <2>2. R' = S \cup {e}
      BY <1>1, <1>3, <1>10, LeftIs
    <2>3. PairsAndStarts' = B \cup {w} /\ w \notin B
      BY <1>1, <1>3, <1>10, <2>1, BothIs
    <2>4. PICK c : calls' = C \cup {c} /\ c.sid = e.sid /\ c.tool = e.tool /\ c.start = e.ts /\ c.end = 0
      BY <1>3, <1>10 DEF CallEffect
    <2>5. e \notin S /\ c \notin C
      BY <1>3, <1>5, <1>6, <2>4
    <2>6. /\ SameClass(e, c) /\ SameClass(w, c) /\ w.start = c.start /\ w.end = 0
          /\ c.end = 0 /\ c.start \in Int
      BY <1>5, <2>1, <2>4 DEF SameClass, Waiting
    <2>7. \A K \in SUBSET (Sessions \X Tools) : Even(S \cup {e}, B \cup {w}, C \cup {c}, K)
      BY ONLY <1>4, <1>7, <1>8, <2>3, <2>5, <2>6, EvenStarts
    <2> QED
      BY <1>2, <2>2, <2>3, <2>4, <2>7
  <1>11. CASE e.phase = "tool_call_end"
    <2>1. PICK c \in calls, d \in CallType :
              /\ c.end = 0 /\ calls' = (calls \ {c}) \cup {d}
              /\ e.sid = c.sid /\ e.tool = c.tool /\ e.id = UseId(c.sid, c.id)
              /\ d.sid = c.sid /\ d.tool = c.tool /\ d.id = c.id /\ d.start = c.start
              /\ d.end = e.ts
      BY <1>11 DEF CallEffect
    <2>2. PICK x : Taken(R, e) = {x} /\ x \in R /\ SameKey(x, c)
      BY <1>1, <2>1, TakesOne
    <2>3. PICK w, p : w = Waiting(x) /\ p = Pairing(x, e)
      OBVIOUS
    <2>4. R' = S \ {x}
      BY <1>1, <1>3, <1>11, <2>2, LeftIs
    <2>5. PairsAndStarts' = (B \ {w}) \cup {p} /\ w \in B /\ p \notin B
      BY <1>1, <1>3, <1>11, <2>2, <2>3, BothIs
    <2>6. d \notin C /\ c \in C /\ x \in S /\ calls' = (C \ {c}) \cup {d}
      BY <1>3, <1>5, <2>1, <2>2 DEF CallsApart
    <2>7. /\ SameClass(x, c) /\ SameClass(w, c) /\ SameClass(p, c) /\ SameClass(d, c)
          /\ p.start = w.start /\ d.start = c.start /\ w.end = 0 /\ c.end = 0
          /\ p.end = d.end /\ d.end \in Int /\ d.end # 0
      BY <1>5, <2>1, <2>2, <2>3 DEF SameClass, SameKey, Waiting, Pairing
    <2>8. \A K \in SUBSET (Sessions \X Tools) : Even(S \ {x}, (B \ {w}) \cup {p}, (C \ {c}) \cup {d}, K)
      BY ONLY <1>4, <1>7, <1>8, <2>5, <2>6, <2>7, EvenEnds
    <2> QED
      BY <1>2, <2>4, <2>5, <2>6, <2>8
  <1> QED
    BY <1>9, <1>10, <1>11

\* A start of the list is left or in a pair; ...
StartsKept ==
    \A x \in Range(events) : x.phase = "tool_call_start" =>
        x \in R \/ \E p \in PairToolCalls : p.start = x.ts

\* ... and every call has one while no hook was lost.
StartOf(x, c) == /\ x.phase = "tool_call_start" /\ x.sid = c.sid /\ x.tool = c.tool
                 /\ x.file = c.file /\ x.ts = c.start
CallsListed == lost = 0 => \A c \in calls : \E x \in Range(events) : StartOf(x, c)

\* The first stays so, whatever is lost, ...
LEMMA StartsKeptStep ==
    ASSUME TypeOK, Timed, NEW e \in EventType, Happens(e), CallEffect(e), CallsApart, StartsLeft,
           StartsKept
    PROVE  StartsKept'
  <1> SUFFICES ASSUME NEW x \in Range(events'), x.phase = "tool_call_start"
               PROVE  x \in R' \/ \E p \in PairToolCalls' : p.start = x.ts
    BY DEF StartsKept
  <1>1. \A y : Pairing(y, e).start = y.ts
    BY DEF Pairing
  <1>2. CASE x \in Range(events)
    BY <1>1, <1>2, LeftIs DEF StartsKept
  <1>3. CASE x \notin Range(events)
    <2>1. events' = Append(events, e) /\ x = e
      <3>1. Range(events') = Range(events) \cup {e}
        BY <1>3, HappensKeeps
      <3>2. events' # events
        BY <1>3
      <3> QED
        BY <1>3, <3>1, <3>2, HappensKeeps
    <2> QED
      BY <2>1, LeftIs
  <1> QED
    BY <1>2, <1>3

\* ... and the second.
LEMMA CallsListedStep ==
    ASSUME TypeOK, Timed, NEW e \in EventType, Happens(e), CallEffect(e), CallsListed
    PROVE  CallsListed'
  <1> SUFFICES ASSUME lost' = 0, NEW d \in calls'  PROVE \E x \in Range(events') : StartOf(x, d)
    BY DEF CallsListed, StartOf
  <1>1. lost = 0 /\ events' = Append(events, e)
    BY HappensKeeps
  <1>2. Range(events') = Range(events) \cup {e}
    BY <1>1, Recorded DEF TypeOK
  <1>3. \/ \E c \in calls : /\ d.sid = c.sid /\ d.tool = c.tool /\ d.file = c.file
                            /\ d.start = c.start
        \/ /\ e.phase = "tool_call_start" /\ d.sid = e.sid /\ d.tool = e.tool /\ d.file = e.file
           /\ d.start = e.ts
    BY DEF CallEffect
  <1> QED
    BY <1>1, <1>2, <1>3 DEF CallsListed, StartOf

\* All that holds of the starts, the pairs and the calls.
CallsInv == /\ CallsApart /\ StartsLeft /\ PairsApart /\ PairsFinite
            /\ IdsMeasured /\ AloneLeft /\ AloneMeasured /\ Balanced
            /\ StartsKept /\ CallsListed

\* It holds when nothing happened yet ...
LEMMA InitCalls == Init => CallsInv
  <1> SUFFICES ASSUME Init  PROVE CallsInv
    OBVIOUS
  <1>1. events = <<>> /\ calls = {} /\ Len(events) = 0
    BY DEF Init
  <1>2. R = {}
    <2>1. PICK f, n : f = Unmatched /\ n = Len(events)
      OBVIOUS
    <2>2. Loop(events, n, f) /\ n = 0
      BY <1>1, <2>1, UnmatchedLoop
    <2>3. f[0] = {}
      BY <2>2 DEF Loop
    <2> QED
      BY <2>1, <2>2, <2>3 DEF R
  <1>3. PairToolCalls = {}
    BY <1>1 DEF PairToolCalls
  <1>4. PairsAndStarts = {}
    BY <1>2, <1>3 DEF PairsAndStarts
  <1>5. CallsApart /\ StartsLeft /\ PairsApart /\ AloneLeft /\ AloneMeasured
    BY <1>1, <1>2, <1>3 DEF CallsApart, StartsLeft, PairsApart, AloneLeft, AloneMeasured, Ended
  <1>6. IdsMeasured
    BY <1>1, <1>3 DEF IdsMeasured, Ended
  <1>7. PairsFinite
    BY <1>2, <1>4, FS_EmptySet DEF PairsFinite
  <1>8. StartsKept /\ CallsListed
    BY <1>1 DEF StartsKept, CallsListed, Range
  <1>9. Balanced
    <2>1. \A K : Within({}, K) = {}
      BY DEF Within
    <2>2. \A K : {c \in Within({}, K) : c.end = 0} = {}
      BY <2>1
    <2>3. \A K : Even({}, {}, {}, K)
      BY <2>1, <2>2 DEF Even
    <2> QED
      BY <1>1, <1>2, <1>4, <2>3 DEF Balanced
  <1> QED
    BY <1>5, <1>6, <1>7, <1>8, <1>9 DEF CallsInv

\* ... and is kept by each event ...
LEMMA StepCalls ==
    ASSUME Base, CallsInv, NEW e \in EventType, Happens(e), Does(e)
    PROVE  CallsInv'
  <1>1. CallEffect(e)
    BY CallEffectOfStep DEF Base
  <1>2. CallsApart' /\ StartsLeft' /\ PairsApart'
    BY <1>1, CallsApartStep, StartsLeftStep, PairsApartStep DEF Base, CallsInv
  <1>3. PairsFinite' /\ Balanced'
    BY <1>1, PairsFiniteStep, BalancedStep DEF Base, CallsInv
  <1>4. IdsMeasured' /\ AloneLeft' /\ AloneMeasured'
    BY <1>1, IdsMeasuredStep, AloneLeftStep, AloneMeasuredStep DEF Base, CallsInv
  <1>5. StartsKept' /\ CallsListed'
    BY <1>1, StartsKeptStep, CallsListedStep DEF Base, CallsInv
  <1> QED
    BY <1>2, <1>3, <1>4, <1>5 DEF CallsInv

\* ... and by nothing.
LEMMA StutterCalls == ASSUME Base, CallsInv, UNCHANGED vars PROVE CallsInv'
  <1>1. /\ events' = events /\ identified' = identified /\ clock' = clock /\ lost' = lost
        /\ calls' = calls /\ Len(events) \in Nat
    BY DEF vars, session, Base, TypeOK
  <1>2. R' = R /\ PairToolCalls' = PairToolCalls
    BY <1>1, Unheard
  <1>3. PairsAndStarts' = PairsAndStarts /\ Ended' = Ended
    BY <1>1, <1>2 DEF PairsAndStarts, Ended, Waiting
  <1>4. CallsApart' /\ StartsLeft' /\ PairsApart' /\ PairsFinite'
    BY <1>1, <1>2, <1>3 DEF CallsInv, CallsApart, StartsLeft, PairsApart, PairsFinite
  <1>5. IdsMeasured' <=> IdsMeasured
    BY <1>1, <1>2, <1>3 DEF IdsMeasured
  <1>6. AloneLeft' /\ AloneMeasured'
    BY <1>1, <1>2, <1>3 DEF CallsInv, AloneLeft, AloneMeasured
  <1>7. Balanced' <=> Balanced
    BY <1>1, <1>2, <1>3 DEF Balanced
  <1>8. StartsKept' /\ CallsListed'
    BY <1>1, <1>2 DEF CallsInv, StartsKept, CallsListed, StartOf
  <1> QED
    BY <1>4, <1>5, <1>6, <1>7, <1>8 DEF CallsInv

\* So it holds in every state.
THEOREM CallsInvariant == Spec => []CallsInv
  <1>1. Base /\ CallsInv /\ [Next]_vars => CallsInv'
    <2> SUFFICES ASSUME Base, CallsInv, [Next]_vars  PROVE CallsInv'
      OBVIOUS
    <2>1. CASE Next
      BY <2>1, StepHappens, StepCalls DEF Base
    <2>2. CASE UNCHANGED vars
      BY <2>2, StutterCalls
    <2> QED
      BY <2>1, <2>2
  <1> QED
    BY <1>1, InitCalls, BaseThm, PTL DEF Spec

\* The session and the tool of a pair are known.
LEMMA PairsKnown ==
    ASSUME Base, PairsApart, NEW p \in PairToolCalls
    PROVE  p.sid \in Sessions /\ p.tool \in Tools
  <1>1. PICK x \in Range(events) : x.phase = "tool_call_start" /\ SameKey(x, p)
    BY DEF PairsApart
  <1>2. PICK c \in calls : c.sid = x.sid /\ c.tool = x.tool
    BY <1>1 DEF Base, StartsMade
  <1> QED
    BY <1>1, <1>2 DEF Base, TypeOK, CallType, SameKey

\* Where every call is back, the pairs have the number and duration of the calls.
LEMMA ProfileOf ==
    ASSUME Base, CallsInv, lost = 0, NEW K \in SUBSET (Sessions \X Tools),
           \A c \in Within(calls, K) : c.end # 0
    PROVE  Profile(Within(PairToolCalls, K)) = Profile(Within(calls, K))
  <1>1. Even(R, PairsAndStarts, calls, K)
    BY DEF CallsInv, Balanced
  <1>2. {c \in Within(calls, K) : c.end = 0} = {}
    OBVIOUS
  <1>3. Within(R, K) = {}
    <2>1. Within(R, K) \subseteq R
      BY DEF Within
    <2>2. IsFiniteSet(Within(R, K))
      BY <2>1, FS_Subset DEF CallsInv, PairsFinite
    <2> QED
      BY <1>1, <1>2, <2>2, FS_EmptySet DEF Even
  <1>4. Within(PairsAndStarts, K) = Within(PairToolCalls, K)
    <2>1. \A x, p : p = Waiting(x) => p.sid = x.sid /\ p.tool = x.tool
      BY DEF Waiting
    <2> QED
      BY <1>3, <2>1 DEF Within, PairsAndStarts
  <1> QED
    BY <1>1, <1>4 DEF Even, Profile

\* Calls are measured as CallsMeasured says.
LEMMA CallsMeasuredOf == ASSUME Base, CallsInv PROVE CallsMeasured
  <1>1. \A p, q \in PairToolCalls : p # q => p.start # q.start /\ p.end # q.end
    BY DEF CallsInv, PairsApart
  <1>2. \A p \in PairToolCalls : p.sid \in Sessions /\ p.tool \in Tools
    BY PairsKnown DEF CallsInv
  <1>3. \A c \in calls : c.sid \in Sessions /\ c.tool \in Tools
    BY DEF Base, TypeOK, CallType
  <1>4. ASSUME lost = 0, NEW tool \in Tools, {c \in calls : c.tool = tool} \subseteq Ended
        PROVE  ToolProfile(tool) = Profile({c \in calls : c.tool = tool})
    <2>1. PICK K : K = Sessions \X {tool}
      OBVIOUS
    <2>2. Within(calls, K) = {c \in calls : c.tool = tool}
      BY <1>3, <2>1 DEF Within
    <2>3. Within(PairToolCalls, K) = {p \in PairToolCalls : p.tool = tool}
      BY <1>2, <2>1 DEF Within
    <2>4. K \in SUBSET (Sessions \X Tools) /\ \A c \in Within(calls, K) : c.end # 0
      BY <1>4, <2>1, <2>2 DEF Ended
    <2> QED
      BY <1>4, <2>2, <2>3, <2>4, ProfileOf DEF ToolProfile
  <1>5. ASSUME lost = 0, NEW s \in Sessions, Running(s) = {}
        PROVE  Story(s).tools = Profile({c \in calls : c.sid = s})
    <2>1. PICK K : K = {s} \X Tools
      OBVIOUS
    <2>2. Within(calls, K) = {c \in calls : c.sid = s}
      BY <1>3, <2>1 DEF Within
    <2>3. Within(PairToolCalls, K) = {p \in PairToolCalls : p.sid = s}
      BY <1>2, <2>1 DEF Within
    <2>4. K \in SUBSET (Sessions \X Tools) /\ \A c \in Within(calls, K) : c.end # 0
      BY <1>5, <2>1, <2>2 DEF Running
    <2>5. Story(s).tools = Profile({p \in PairToolCalls : p.sid = s})
      BY DEF Story
    <2> QED
      BY <1>5, <2>2, <2>3, <2>4, <2>5, ProfileOf
  <1> QED
    BY <1>1, <1>4, <1>5 DEF CallsMeasured, CallsInv, IdsMeasured, AloneMeasured

\* Calls are measured as CallsMeasured says in every state, whatever hooks are lost.
THEOREM CallsMeasuredThm == Spec => []CallsMeasured
  <1>1. Base /\ CallsInv => CallsMeasured
    BY CallsMeasuredOf
  <1> QED
    BY <1>1, BaseThm, CallsInvariant, PTL

-----------------------------------------------------------------------------
(* The turns and the calls in them.                                        *)

\* Sets that have nothing in common have as many elements as all of them together.
LEMMA SumCards ==
    ASSUME NEW T, IsFiniteSet(T), NEW P, IsFiniteSet(P), NEW f, \A t \in T : f[t] \subseteq P,
           \A t, u \in T : t # u => f[t] \cap f[u] = {},
           NEW h, \A t \in T : h[t] = Cardinality(f[t])
    PROVE  SumFunctionOnSet(h, T) = Cardinality(UNION {f[t] : t \in T})
  <1> DEFINE All(S) == UNION {f[t] : t \in S}
             Adds(S) == SumFunctionOnSet(h, S) = Cardinality(All(S))
             B == {S \in SUBSET T : ~Adds(S)}
  <1>1. \A t \in T : IsFiniteSet(f[t]) /\ h[t] \in Nat
    BY FS_Subset, FS_CardinalityType
  <1>2. ASSUME B # {}  PROVE FALSE
    <2>1. PICK S \in B : \A t \in S : S \ {t} \notin B
      <3>1. B \in SUBSET SUBSET T
        OBVIOUS
      <3> HIDE DEF B
      <3> QED
        BY <1>2, <3>1, LeastSet
    <2>2. S \in SUBSET T /\ ~Adds(S)
      OBVIOUS
    <2>3. \A t \in S : Adds(S \ {t})
      BY <2>1, <2>2
    <2> HIDE DEF B
    <2>4. CASE S = {}
      <3>1. All(S) = {}
        BY <2>4
      <3> HIDE DEF All
      <3>2. SumFunctionOnSet(h, S) = 0 /\ Cardinality(All(S)) = 0
        BY <2>4, <3>1, SumEmpty, FS_EmptySet
      <3> QED
        BY <2>2, <3>2
    <2>5. ASSUME NEW t \in S  PROVE FALSE
      <3>1. PICK U : U = S \ {t}
        OBVIOUS
      <3>2. IsFiniteSet(U) /\ t \notin U /\ U \cup {t} = S /\ U \subseteq T
        BY <2>2, <3>1, FS_Subset
      <3>3. PICK A : A = All(U)
        OBVIOUS
      <3>4. A \subseteq P /\ All(S) = A \cup f[t]
        BY <3>2, <3>3
      <3>5. A \cap f[t] = {}
        BY <2>2, <3>2, <3>3
      <3>6. SumFunctionOnSet(h, U) = Cardinality(A)
        BY <2>3, <3>1, <3>3
      <3>7. SumFunctionOnSet(h, S) = SumFunctionOnSet(h, U) + h[t]
        <4>1. \A x \in U \cup {t} : h[x] \in Int
          BY <1>1, <2>2, <3>2
        <4>2. SumFunctionOnSet(h, U \cup {t}) = SumFunctionOnSet(h, U) + h[t]
          BY ONLY <3>2, <4>1, SumAdd
        <4> QED
          BY <3>2, <4>2
      <3>8. Cardinality(A \cup f[t]) = Cardinality(A) + Cardinality(f[t])
        <4>1. PICK D : D = f[t]
          OBVIOUS
        <4>2. IsFiniteSet(A) /\ IsFiniteSet(D) /\ A \cap D = {}
          BY <1>1, <2>2, <3>4, <3>5, <4>1, FS_Subset
        <4>3. Cardinality(A \cup D) = Cardinality(A) + Cardinality(D) - Cardinality(A \cap D)
          BY ONLY <4>2, FS_Union
        <4>4. Cardinality(A) \in Nat /\ Cardinality(D) \in Nat /\ Cardinality(A \cap D) = 0
          BY <4>2, FS_EmptySet, FS_CardinalityType
        <4> QED
          BY <4>1, <4>3, <4>4
      <3>9. h[t] = Cardinality(f[t])
        BY <2>2
      <3> HIDE DEF All
      <3> QED
        BY <2>2, <3>4, <3>6, <3>7, <3>8, <3>9
    <2> QED
      BY <2>4, <2>5
  <1>3. T \notin B
    <2> HIDE DEF B
    <2> QED
      BY <1>2
  <1> QED
    BY <1>3

\* Calls run in the open turn of their session, which began after the others ended.
OpenLate ==
    /\ \A s \in Sessions : open[s] <= clock
    /\ \A c \in calls : c.end = 0 => open[c.sid] # 0 /\ open[c.sid] < c.start
    /\ \A t \in turns : /\ t.start < t.end /\ t.end <= clock
                        /\ open[t.sid] # 0 => t.end < open[t.sid]

\* While no hook was lost, the starts that are left are of the open turns, and those
\* in the list of a turn.
StartsInTurn ==
    lost = 0 =>
        /\ \A x \in R : open[x.sid] # 0 /\ open[x.sid] < x.ts
        /\ \A x \in Range(events) : x.phase = "tool_call_start" =>
               \/ open[x.sid] # 0 /\ open[x.sid] < x.ts
               \/ \E t \in turns : t.sid = x.sid /\ t.start < x.ts /\ x.ts < t.end

\* Calls stay in the open turn.
LEMMA OpenLateStep ==
    ASSUME TypeOK, NEW e \in EventType, Happens(e), Effect(e), CallEffect(e), OpenLate
    PROVE  OpenLate'
  <1>1. clock \in Nat /\ e.ts = clock + 1 /\ clock' = e.ts /\ e.ts # 0
    BY DEF TypeOK, Happens
  <1>2. ASSUME NEW s \in Sessions
        PROVE  /\ open'[s] = IF e.phase = "user_prompt" /\ s = e.sid /\ open[s] = 0 THEN e.ts
                             ELSE IF e.phase = "turn_end" /\ s = e.sid THEN 0 ELSE open[s]
               /\ open[s] \in Nat /\ open[s] < e.ts /\ open'[s] <= clock'
    <2>1. open'[s] = IF e.phase = "user_prompt" /\ s = e.sid /\ open[s] = 0 THEN e.ts
                     ELSE IF e.phase = "turn_end" /\ s = e.sid THEN 0 ELSE open[s]
      BY DEF Effect
    <2>2. open[s] \in Nat /\ open[s] <= clock
      BY DEF TypeOK, OpenLate
    <2> QED
      BY <1>1, <2>1, <2>2
  <1>3. ASSUME NEW c \in calls', c.end = 0  PROVE open'[c.sid] # 0 /\ open'[c.sid] < c.start
    <2>1. CASE c \in calls
      <3>1. c.sid \in Sessions /\ open[c.sid] # 0 /\ open[c.sid] < c.start
        BY <1>3, <2>1 DEF OpenLate, TypeOK, CallType
      <3>2. ~(e.phase = "turn_end" /\ c.sid = e.sid)
        BY <1>3, <2>1 DEF Effect, Running
      <3> QED
        BY <1>2, <3>1, <3>2
    <2>2. CASE c \notin calls
      <3>1. e.phase = "tool_call_start" /\ c.sid = e.sid /\ c.start = e.ts
        BY <1>1, <1>3, <2>2 DEF CallEffect
      <3>2. e.sid \in Sessions /\ open[e.sid] # 0
        BY <3>1 DEF Effect
      <3> QED
        BY <1>2, <3>1, <3>2
    <2> QED
      BY <2>1, <2>2
  <1>4. ASSUME NEW t \in turns'
        PROVE  /\ t.start < t.end /\ t.end <= clock'
               /\ open'[t.sid] # 0 => t.end < open'[t.sid]
    <2>1. CASE t \in turns
      <3>1. /\ t.sid \in Sessions /\ t.start < t.end /\ t.end <= clock /\ t.end \in Nat
            /\ open[t.sid] # 0 => t.end < open[t.sid]
        BY <2>1 DEF OpenLate, TypeOK
      <3> QED
        BY <1>1, <1>2, <3>1
    <2>2. CASE t \notin turns
      <3>1. e.phase = "turn_end" /\ t = Span(e.sid, open[e.sid], e.ts)
        BY <2>2 DEF Effect
      <3>2. e.sid \in Sessions /\ t.sid = e.sid /\ t.start = open[e.sid] /\ t.end = e.ts
        BY <3>1 DEF Effect, Span
      <3> QED
        BY <1>1, <1>2, <3>1, <3>2
    <2> QED
      BY <2>1, <2>2
  <1> QED
    BY <1>2, <1>3, <1>4 DEF OpenLate

\* Starts stay in a turn.
LEMMA StartsInTurnStep ==
    ASSUME Base, CallsInv, NEW e \in EventType, Happens(e), Effect(e), CallEffect(e), OpenLate,
           StartsInTurn
    PROVE  StartsInTurn'
  <1> SUFFICES ASSUME lost' = 0
               PROVE  /\ \A x \in R' : open'[x.sid] # 0 /\ open'[x.sid] < x.ts
                      /\ \A x \in Range(events') : x.phase = "tool_call_start" =>
                             \/ open'[x.sid] # 0 /\ open'[x.sid] < x.ts
                             \/ \E t \in turns' : t.sid = x.sid /\ t.start < x.ts /\ x.ts < t.end
    BY DEF StartsInTurn
  <1>1. lost = 0 /\ events' = Append(events, e)
    BY HappensKeeps DEF Base
  <1>2. Range(events') = Range(events) \cup {e} /\ Grows(e)
    BY <1>1, GrowsOf DEF Base, Grows
  <1>3. \A s \in Sessions :
            /\ open'[s] = IF e.phase = "user_prompt" /\ s = e.sid /\ open[s] = 0 THEN e.ts
                          ELSE IF e.phase = "turn_end" /\ s = e.sid THEN 0 ELSE open[s]
            /\ open[s] \in Nat /\ open[s] < e.ts
    BY DEF Effect, OpenLate, Base, TypeOK, Happens
  <1>4. \A x \in R' : x \in R \/ (x = e /\ e.phase = "tool_call_start")
    <2>1. \/ R' = R
          \/ R' = R \cup {e} /\ e.phase = "tool_call_start"
          \/ R' = R \ Taken(R, e)
      <3>1. TypeOK /\ Timed /\ CallsApart /\ StartsLeft
        BY DEF Base, CallsInv
      <3> QED
        BY <1>1, <3>1, LeftIs
    <2> QED
      BY <2>1
  <1>5. ASSUME NEW x \in R  PROVE x.sid \in Sessions /\ ~(e.phase = "turn_end" /\ x.sid = e.sid)
    <2>1. x.sid \in Sessions /\ x.tool \in Tools
      <3>1. PICK c \in calls : c.sid = x.sid /\ c.tool = x.tool
        BY DEF CallsInv, StartsLeft, Base, StartsMade
      <3> QED
        BY <3>1 DEF Base, TypeOK, CallType
    <2>2. ASSUME Running(x.sid) = {}  PROVE FALSE
      <3>1. PICK K : K = {x.sid} \X Tools
        OBVIOUS
      <3>2. K \in SUBSET (Sessions \X Tools) /\ x \in Within(R, K)
        BY <2>1, <3>1 DEF Within
      <3>3. {c \in Within(calls, K) : c.end = 0} = {}
        BY <2>2, <3>1 DEF Within, Running
      <3>4. Cardinality(Within(R, K)) = 0
        BY <1>1, <3>2, <3>3, FS_EmptySet DEF CallsInv, Balanced, Even
      <3>5. IsFiniteSet(Within(R, K))
        <4>1. Within(R, K) \subseteq R
          BY DEF Within
        <4> QED
          BY <4>1, FS_Subset DEF CallsInv, PairsFinite
      <3> QED
        BY <3>2, <3>4, <3>5, FS_EmptySet
    <2> QED
      BY <2>1, <2>2 DEF Effect
  <1>6. e.phase = "tool_call_start" =>
            e.sid \in Sessions /\ open'[e.sid] # 0 /\ open'[e.sid] < e.ts
    BY <1>3 DEF Effect
  <1>7. ASSUME NEW x \in R'  PROVE open'[x.sid] # 0 /\ open'[x.sid] < x.ts
    <2>1. CASE x \in R
      <3>1. open[x.sid] # 0 /\ open[x.sid] < x.ts
        BY <1>1, <2>1 DEF StartsInTurn
      <3> QED
        BY <1>3, <1>5, <2>1, <3>1
    <2> QED
      BY <1>4, <1>6, <2>1
  <1>8. ASSUME NEW x \in Range(events'), x.phase = "tool_call_start"
        PROVE  \/ open'[x.sid] # 0 /\ open'[x.sid] < x.ts
               \/ \E t \in turns' : t.sid = x.sid /\ t.start < x.ts /\ x.ts < t.end
    <2>1. CASE x = e
      BY <1>6, <1>8, <2>1
    <2>2. CASE x \in Range(events) /\ \E t \in turns : t.sid = x.sid /\ t.start < x.ts /\ x.ts < t.end
      BY <2>2 DEF Effect
    <2>3. CASE x \in Range(events) /\ open[x.sid] # 0 /\ open[x.sid] < x.ts
      <3>1. x.sid \in Sessions /\ x.ts < e.ts
        BY <1>2, <1>8, <2>3 DEF Base, SessionsKnown, Grows
      <3>2. CASE e.phase = "turn_end" /\ x.sid = e.sid
        <4>1. PICK t : t = Span(e.sid, open[e.sid], e.ts)
          OBVIOUS
        <4>2. t \in turns' /\ t.sid = e.sid /\ t.start = open[e.sid] /\ t.end = e.ts
          BY <3>2, <4>1 DEF Effect, Span
        <4> QED
          BY <2>3, <3>1, <3>2, <4>2
      <3>3. CASE ~(e.phase = "turn_end" /\ x.sid = e.sid)
        BY <1>3, <2>3, <3>1, <3>3
      <3> QED
        BY <3>2, <3>3
    <2> QED
      BY <1>1, <1>2, <1>8, <2>1, <2>2, <2>3 DEF StartsInTurn
  <1> QED
    BY <1>7, <1>8

\* The pairs of these tools that started in the turn t.
PairsOf(t, tools) ==
    {p \in PairToolCalls : p.sid = t.sid /\ p.tool \in tools /\ InWindow(t, p.start)}

\* They are as many as the calls back while no hook was lost.
PerTurn ==
    lost = 0 => \A t \in Made, tools \in SUBSET Tools :
                    Cardinality(PairsOf(t, tools)) = Cardinality(Back(t, tools))

\* The turn u is t a step later, or begins in the step.
Continues(t, u) == /\ u.sid = t.sid /\ u.start = t.start
                   /\ t.end = u.end \/ (t.end = clock /\ u.end = clock')

\* Each turn made so far was one before a step or begins in it.
LEMMA MadeLater ==
    ASSUME TypeOK, NEW e \in EventType, Happens(e), Effect(e), OpenLate, NEW u \in Made'
    PROVE  \/ \E t \in Made : Continues(t, u)
           \/ e.phase = "user_prompt" /\ u.start = e.ts
  <1>1. clock \in Nat /\ clock' = e.ts
    BY DEF TypeOK, Happens
  <1>2. \A s \in Sessions :
            open'[s] = IF e.phase = "user_prompt" /\ s = e.sid /\ open[s] = 0 THEN e.ts
                       ELSE IF e.phase = "turn_end" /\ s = e.sid THEN 0 ELSE open[s]
    BY DEF Effect
  <1>3. \A s, n, m : Span(s, n, m).sid = s /\ Span(s, n, m).start = n /\ Span(s, n, m).end = m
    BY DEF Span
  <1>4. \A s \in Sessions : open[s] # 0 => Span(s, open[s], clock) \in Made
    BY DEF Made
  <1>5. CASE u \in turns
    BY <1>5 DEF Made, Continues
  <1>6. CASE u \in turns' /\ u \notin turns
    <2>1. e.phase = "turn_end" /\ u = Span(e.sid, open[e.sid], e.ts) /\ e.sid \in Sessions
          /\ open[e.sid] # 0
      BY <1>6 DEF Effect
    <2>2. PICK t \in Made : t = Span(e.sid, open[e.sid], clock)
      BY <1>4, <2>1
    <2>3. Continues(t, u)
      BY <1>1, <1>3, <2>1, <2>2 DEF Continues
    <2> QED
      BY <2>3
  <1>7. CASE u \notin turns'
    <2>1. PICK s \in Sessions : open'[s] # 0 /\ u = Span(s, open'[s], clock')
      BY <1>7 DEF Made, Span
    <2>2. CASE open'[s] = open[s]
      <3>1. PICK t \in Made : t = Span(s, open[s], clock)
        BY <1>4, <2>1, <2>2
      <3>2. Continues(t, u)
        BY <1>1, <1>3, <2>1, <2>2, <3>1 DEF Continues
      <3> QED
        BY <3>2
    <2>3. CASE open'[s] # open[s]
      <3>1. open'[s] = e.ts /\ e.phase = "user_prompt"
        BY <1>2, <2>1, <2>3
      <3> QED
        BY <1>3, <2>1, <3>1
    <2> QED
      BY <2>2, <2>3
  <1> QED
    BY <1>5, <1>6, <1>7

\* The turns made so far have sessions and times.
LEMMA MadeTyped ==
    ASSUME TypeOK, OpenLate, NEW t \in Made
    PROVE  /\ t.sid \in Sessions /\ t.start \in Nat /\ t.end \in Nat /\ t.start <= t.end /\ t.end <= clock
           /\ t \in turns \/ (open[t.sid] # 0 /\ t = Span(t.sid, open[t.sid], clock)
                              /\ t.start = open[t.sid] /\ t.end = clock)
  <1>1. CASE t \in turns
    BY <1>1 DEF TypeOK, OpenLate
  <1>2. CASE t \notin turns
    <2>1. PICK s \in Sessions : open[s] # 0 /\ t = Span(s, open[s], clock)
      BY <1>2 DEF Made
    <2>2. t.sid = s /\ t.start = open[s] /\ t.end = clock
      BY <2>1 DEF Span
    <2> QED
      BY <2>1, <2>2 DEF TypeOK, OpenLate
  <1> QED
    BY <1>1, <1>2

\* Every step keeps them as many.
LEMMA PerTurnStep ==
    ASSUME Base, CallsInv, NEW e \in EventType, Happens(e), Effect(e), CallEffect(e), OpenLate,
           StartsInTurn, PerTurn
    PROVE  PerTurn'
  <1> SUFFICES ASSUME lost' = 0, NEW u \in Made', NEW tools \in SUBSET Tools
               PROVE  Cardinality(PairsOf(u, tools)') = Cardinality(Back(u, tools)')
    BY DEF PerTurn, PairsOf, Back, InWindow
  <1>1. /\ lost = 0 /\ events' = Append(events, e) /\ clock \in Nat /\ clock' = clock + 1
        /\ e.ts = clock + 1
    BY HappensKeeps DEF Base, TypeOK, Happens
  <1>2. PICK P, Q : P = PairToolCalls /\ Q = Ended
    OBVIOUS
  <1>3. PICK A, B : /\ A = {p \in PairToolCalls' : p.sid = u.sid /\ p.tool \in tools /\ InWindow(u, p.start)}
                    /\ B = {c \in Ended' : c.tool \in tools /\ c.sid = u.sid /\ InWindow(u, c.start)}
    OBVIOUS
  <1>4. PairsOf(u, tools)' = A /\ Back(u, tools)' = B
    BY <1>3 DEF PairsOf, Back, InWindow
  <1>5. /\ \A p \in P : p.start \in Nat /\ p.start <= clock
        /\ \A c \in Q : c.start \in Nat /\ c.start <= clock
    <2>1. \A p \in P : p.start \in Nat /\ p.start <= clock
      BY <1>1, <1>2 DEF CallsInv, PairsApart
    <2>2. CallsApart /\ Q \subseteq calls /\ calls \subseteq CallType
      BY <1>2 DEF CallsInv, Base, TypeOK, Ended
    <2>3. \A c \in Q : c.start \in Nat /\ c.start <= clock
      BY <1>1, <2>2 DEF CallsApart, CallType
    <2> QED
      BY <2>1, <2>3
  <1>6. IsFiniteSet(P) /\ IsFiniteSet(Q)
    <2>1. P \subseteq PairsAndStarts /\ Q \subseteq calls
      BY <1>2 DEF PairsAndStarts, Ended
    <2> QED
      BY <2>1, FS_Subset DEF CallsInv, PairsFinite, Base, TypeOK
  <1>7. e.phase # "tool_call_end" => PairToolCalls' = P /\ Ended' = Q
    <2>1. e.phase # "tool_call_end" => PairToolCalls' = P
      <3>1. TypeOK /\ Timed /\ CallsApart /\ StartsLeft
        BY DEF Base, CallsInv
      <3> QED
        BY <1>1, <1>2, <3>1, LeftIs
    <2>2. e.phase # "tool_call_end" => Ended' = Q
      BY <1>2 DEF CallEffect, Ended
    <2> QED
      BY <2>1, <2>2
  <1>8. CASE e.phase = "user_prompt" /\ u.start = e.ts
    <2>1. A = {} /\ B = {}
      BY <1>1, <1>3, <1>5, <1>7, <1>8 DEF InWindow
    <2> QED
      BY <1>4, <2>1
  <1>9. ASSUME NEW t \in Made, Continues(t, u)  PROVE Cardinality(A) = Cardinality(B)
    <2>1. PICK X, Y : /\ X = {p \in P : p.sid = t.sid /\ p.tool \in tools /\ InWindow(t, p.start)}
                      /\ Y = {c \in Q : c.tool \in tools /\ c.sid = t.sid /\ InWindow(t, c.start)}
      OBVIOUS
    <2>2. Cardinality(X) = Cardinality(Y)
      BY <1>1, <1>2, <2>1 DEF PerTurn, PairsOf, Back
    <2>3. /\ t.sid \in Sessions /\ t.start \in Nat /\ t.end \in Nat
          /\ t \in turns \/ (open[t.sid] # 0 /\ t.start = open[t.sid] /\ t.end = clock)
      BY MadeTyped DEF Base
    <2>4. u.sid = t.sid /\ u.start = t.start /\ (t.end = u.end \/ (t.end = clock /\ u.end = clock + 1))
      BY <1>1, <1>9 DEF Continues
    <2>5. \A n \in Nat : n <= clock => (InWindow(u, n) <=> InWindow(t, n))
      BY <1>1, <2>3, <2>4 DEF InWindow
    <2>6. /\ X = {p \in P : p.sid = u.sid /\ p.tool \in tools /\ InWindow(u, p.start)}
          /\ Y = {c \in Q : c.tool \in tools /\ c.sid = u.sid /\ InWindow(u, c.start)}
      BY <1>5, <2>1, <2>4, <2>5
    <2>7. CASE e.phase # "tool_call_end"
      BY <1>3, <1>7, <2>2, <2>6, <2>7
    <2>8. CASE e.phase = "tool_call_end"
      <3>1. PICK c \in calls, d \in CallType :
                /\ c.end = 0 /\ calls' = (calls \ {c}) \cup {d}
                /\ e.sid = c.sid /\ e.tool = c.tool /\ e.id = UseId(c.sid, c.id)
                /\ d.sid = c.sid /\ d.tool = c.tool /\ d.id = c.id /\ d.start = c.start
                /\ d.end = e.ts
        BY <2>8 DEF CallEffect
      <3>2. PICK x : Taken(R, e) = {x} /\ x \in R /\ SameKey(x, c)
        <4>1. TypeOK /\ Timed /\ CallsApart /\ StartsLeft /\ PairsFinite /\ Balanced
          BY DEF Base, CallsInv
        <4> QED
          BY <1>1, <3>1, <4>1, TakesOne
      <3>3. PICK p : p = Pairing(x, e)
        OBVIOUS
      <3>4. PairToolCalls' = P \cup {p}
        <4>1. TypeOK /\ Timed /\ CallsApart /\ StartsLeft
          BY DEF Base, CallsInv
        <4>2. PairToolCalls' = PairToolCalls \cup {Pairing(y, e) : y \in Taken(R, e)}
          BY <1>1, <2>8, <4>1, LeftIs
        <4> QED
          BY <1>2, <3>2, <3>3, <4>2
      <3>5. Ended' = Q \cup {d} /\ d \notin Q
        BY <1>1, <1>2, <3>1 DEF Ended, CallsInv, CallsApart
      <3>6. p.sid = c.sid /\ p.tool = c.tool /\ p.start = x.ts /\ p.end = e.ts
        BY <3>1, <3>3 DEF Pairing
      <3>7. p \notin P
        BY <1>1, <1>2, <3>6 DEF CallsInv, PairsApart
      <3>8. /\ open[c.sid] # 0 /\ open[c.sid] < x.ts /\ open[c.sid] < c.start
            /\ open[c.sid] \in Nat /\ open[c.sid] <= clock
            /\ x.ts \in Nat /\ x.ts <= clock /\ c.start \in Nat /\ c.start <= clock
        <4>1. x \in Range(events) /\ x.ts \in Nat /\ x.ts <= clock /\ x.sid = c.sid
          BY <3>2, EventsTyped DEF CallsInv, StartsLeft, Base, TypeOK, Timed, EventType, SameKey
        <4>2. open[c.sid] # 0 /\ open[c.sid] < x.ts
          BY <1>1, <3>2, <4>1 DEF StartsInTurn
        <4>3. c.sid \in Sessions /\ open[c.sid] < c.start /\ c.start \in Nat /\ c.start <= clock
          BY <3>1 DEF OpenLate, Base, TypeOK, CallType, CallsInv, CallsApart
        <4> QED
          BY <4>1, <4>2, <4>3 DEF OpenLate, Base, TypeOK
      <3>9. u.sid = c.sid => (InWindow(u, x.ts) <=> InWindow(u, c.start))
        <4>1. CASE t \in turns
          <5>1. u.sid = c.sid => t.end < open[c.sid]
            BY <2>4, <3>8, <4>1 DEF OpenLate
          <5>2. u.sid = c.sid => u.end < open[c.sid]
            BY <1>1, <2>3, <2>4, <3>8, <5>1
          <5>3. u.end \in Nat
            BY <1>1, <2>3, <2>4
          <5> QED
            BY <3>8, <5>2, <5>3 DEF InWindow
        <4>2. CASE t \notin turns
          <5>1. u.sid = c.sid => u.start = open[c.sid] /\ (u.end = clock \/ u.end = clock + 1)
            BY <2>3, <2>4, <4>2
          <5> QED
            BY <1>1, <3>8, <5>1 DEF InWindow
        <4> QED
          BY <4>1, <4>2
      <3>10. CASE u.sid = c.sid /\ c.tool \in tools /\ InWindow(u, x.ts)
        <4>1. A = X \cup {p}
          BY <1>3, <2>6, <3>4, <3>6, <3>10
        <4>2. B = Y \cup {d}
          BY <1>3, <2>6, <3>1, <3>5, <3>9, <3>10
        <4>3. IsFiniteSet(X) /\ IsFiniteSet(Y) /\ p \notin X /\ d \notin Y
          <5>1. X \subseteq P /\ Y \subseteq Q
            BY <2>1
          <5> QED
            BY <1>6, <3>5, <3>7, <5>1, FS_Subset
        <4>4. /\ Cardinality(X \cup {p}) = Cardinality(X) + 1
              /\ Cardinality(Y \cup {d}) = Cardinality(Y) + 1
          BY ONLY <4>3, FS_AddElement
        <4> QED
          BY <2>2, <4>1, <4>2, <4>4
      <3>11. CASE ~(u.sid = c.sid /\ c.tool \in tools /\ InWindow(u, x.ts))
        <4>1. A = X
          BY <1>3, <2>6, <3>4, <3>6, <3>11
        <4>2. B = Y
          BY <1>3, <2>6, <3>1, <3>5, <3>9, <3>11
        <4> QED
          BY <2>2, <4>1, <4>2
      <3> QED
        BY <3>10, <3>11
    <2> QED
      BY <2>7, <2>8
  <1> QED
    <2>1. (\E t \in Made : Continues(t, u)) \/ (e.phase = "user_prompt" /\ u.start = e.ts)
      BY MadeLater DEF Base
    <2> QED
      BY <1>4, <1>8, <1>9, <2>1

-----------------------------------------------------------------------------
(* The responses and the accounts of them.                                 *)

\* What the step of e does to the requests.
RequestEffect(e) ==
    /\ e.phase = "api_response_end" =>
           e.id = Len(responses) + 1 /\ \E s \in Sessions : responses' = Append(responses, s)
    /\ e.phase = "otel_event" => e.id \in DOMAIN responses /\ e.sid = responses[e.id]
    /\ e.phase # "api_response_end" => responses' = responses

\* Each action has the effect that the phase of its event says.
LEMMA RequestEffectOfStep ==
    ASSUME TypeOK, NEW e \in EventType, Does(e)
    PROVE  RequestEffect(e)
  <1>1. ASSUME NEW s \in Sessions, Respond(s), e = Event("api_response_end", None, None, None, Len(responses) + 1)
        PROVE  RequestEffect(e)
    BY <1>1 DEF Respond, Event, RequestEffect
  <1>2. ASSUME NEW flow \in DOMAIN responses, Account(flow),
               e = Event("otel_event", responses[flow], None, None, flow)
        PROVE  RequestEffect(e)
    BY <1>2 DEF Account, Event, RequestEffect
  <1>3. ASSUME e.phase \notin {"api_response_end", "otel_event"}, UNCHANGED responses
        PROVE  RequestEffect(e)
    BY <1>3 DEF RequestEffect
  <1>4. ASSUME NEW s \in Sessions,
               \/ Prompt(s) /\ e = Event("user_prompt", s, None, None, 0)
               \/ AskPermission(s) /\ e = Event("permission", s, None, None, 0)
               \/ SayIdle(s) /\ e = Event("idle", s, None, None, 0)
               \/ EndTurn(s) /\ e = Event("turn_end", s, None, None, 0)
               \/ EndSession(s) /\ e = Event("session_end", s, None, None, 0)
        PROVE  RequestEffect(e)
    BY <1>3, <1>4 DEF Prompt, AskPermission, SayIdle, EndTurn, EndSession, Event
  <1>5. ASSUME NEW s \in Sessions, NEW tool \in Tools, NEW file \in Files, Call(s, tool, file),
               e = Event("tool_call_start", s, tool, file, UseId(s, Cardinality(calls) + 1))
        PROVE  RequestEffect(e)
    BY <1>3, <1>5 DEF Call, Event
  <1>6. ASSUME NEW a \in asked, NEW tool \in Tools, NEW file \in Files, Approve(a, tool, file),
               e = Event("tool_call_start", a.sid, tool, file, UseId(a.sid, Cardinality(calls) + 1))
        PROVE  RequestEffect(e)
    BY <1>3, <1>6 DEF Approve, Event
  <1>7. ASSUME NEW c \in calls, Return(c),
               e = Event("tool_call_end", c.sid, c.tool, c.file, UseId(c.sid, c.id))
        PROVE  RequestEffect(e)
    BY <1>3, <1>7 DEF Return, Event
  <1> QED
    BY <1>1, <1>2, <1>4, <1>5, <1>6, <1>7 DEF Does

\* Each response and each account in the list is of a request that was made, the
\* account of its session; responses have ids of their own and come before their
\* accounts.
RequestsKnown ==
    /\ \A e \in Range(events) :
           /\ e.phase \in {"api_response_end", "otel_event"} => e.id \in DOMAIN responses
           /\ e.phase = "otel_event" => e.sid = responses[e.id]
    /\ \A e, f \in Range(events) :
           e.phase = "api_response_end" /\ f.phase \in {"api_response_end", "otel_event"} /\ e.id = f.id =>
               e = f \/ (f.phase = "otel_event" /\ e.ts < f.ts)

\* They stay so.
LEMMA RequestsKnownStep ==
    ASSUME Base, NEW e \in EventType, Happens(e), RequestEffect(e), RequestsKnown
    PROVE  RequestsKnown'
  <1>1. Range(events') = Range(events) \/ Range(events') = Range(events) \cup {e}
    BY HappensKeeps DEF Base
  <1>2. \A x \in Range(events) : x.ts < e.ts
    BY EventsTyped DEF Base, TypeOK, Timed, EventType, Happens
  <1>3. /\ responses \in Seq(Sessions) /\ Len(responses) \in Nat
        /\ DOMAIN responses = 1..Len(responses)
    BY DEF Base, TypeOK
  <1>4. /\ DOMAIN responses \subseteq DOMAIN responses'
        /\ \A i \in DOMAIN responses : responses'[i] = responses[i]
        /\ e.phase = "api_response_end" => e.id \in DOMAIN responses' /\ e.id \notin DOMAIN responses
    <2>1. CASE e.phase = "api_response_end"
      <3>1. PICK s \in Sessions : responses' = Append(responses, s)
        BY <2>1 DEF RequestEffect
      <3>2. e.id = Len(responses) + 1
        BY <2>1 DEF RequestEffect
      <3>3. /\ DOMAIN responses' = 1..(Len(responses) + 1)
            /\ \A i \in 1..Len(responses) : responses'[i] = responses[i]
        BY <1>3, <3>1
      <3> QED
        BY <1>3, <3>2, <3>3
    <2>2. CASE e.phase # "api_response_end"
      BY <2>2 DEF RequestEffect
    <2> QED
      BY <2>1, <2>2
  <1>5. ASSUME NEW x \in Range(events')
        PROVE  /\ x.phase \in {"api_response_end", "otel_event"} => x.id \in DOMAIN responses'
               /\ x.phase = "otel_event" => x.sid = responses'[x.id]
    <2>1. CASE x \in Range(events)
      BY <1>4, <2>1 DEF RequestsKnown
    <2>2. CASE x = e
      BY <1>4, <2>2 DEF RequestEffect
    <2> QED
      BY <1>1, <2>1, <2>2
  <1>6. ASSUME NEW x \in Range(events'), NEW f \in Range(events'), x.phase = "api_response_end",
               f.phase \in {"api_response_end", "otel_event"}, x.id = f.id
        PROVE  x = f \/ (f.phase = "otel_event" /\ x.ts < f.ts)
    <2>1. CASE x \in Range(events) /\ f \in Range(events)
      BY <1>6, <2>1 DEF RequestsKnown
    <2>2. CASE x \in Range(events) /\ f = e
      <3>1. x.id \in DOMAIN responses
        BY <1>6, <2>2 DEF RequestsKnown
      <3>2. f.phase = "otel_event"
        BY <1>4, <1>6, <2>2, <3>1
      <3> QED
        BY <1>2, <2>2, <3>2
    <2>3. CASE x = e /\ f \in Range(events)
      <3>1. f.id \in DOMAIN responses
        BY <1>6, <2>3 DEF RequestsKnown
      <3> QED
        BY <1>4, <1>6, <2>3, <3>1
    <2> QED
      BY <1>1, <2>1, <2>2, <2>3
  <1> QED
    BY <1>5, <1>6 DEF RequestsKnown

-----------------------------------------------------------------------------
(* The turns that are measured.                                            *)

\* All that holds of the turns.
TurnsInv == OpenLate /\ StartsInTurn /\ PerTurn /\ RequestsKnown

\* It holds when nothing happened yet, ...
LEMMA InitTurns == Init => TurnsInv
  <1> SUFFICES ASSUME Init  PROVE TurnsInv
    OBVIOUS
  <1>1. events = <<>> /\ Range(events) = {} /\ calls = {} /\ turns = {} /\ clock = 0
    BY DEF Init, Range
  <1>2. \A s \in Sessions : open[s] = 0
    BY DEF Init
  <1>3. OpenLate
    BY <1>1, <1>2 DEF OpenLate
  <1>4. RequestsKnown
    BY <1>1 DEF RequestsKnown
  <1>5. Made = {}
    BY <1>1, <1>2 DEF Made
  <1>6. R = {}
    BY <1>1, InitCalls DEF CallsInv, StartsLeft
  <1>7. StartsInTurn /\ PerTurn
    BY <1>1, <1>5, <1>6 DEF StartsInTurn, PerTurn
  <1> QED
    BY <1>3, <1>4, <1>7 DEF TurnsInv

\* ... is kept by each event ...
LEMMA StepTurns ==
    ASSUME Base, CallsInv, TurnsInv, NEW e \in EventType, Happens(e), Does(e)
    PROVE  TurnsInv'
  <1>1. Effect(e) /\ CallEffect(e) /\ RequestEffect(e)
    BY EffectOfStep, CallEffectOfStep, RequestEffectOfStep DEF Base
  <1>2. OpenLate'
    BY <1>1, OpenLateStep DEF Base, TurnsInv
  <1>3. StartsInTurn'
    BY <1>1, StartsInTurnStep DEF TurnsInv
  <1>4. PerTurn'
    BY <1>1, PerTurnStep DEF TurnsInv
  <1>5. RequestsKnown'
    BY <1>1, RequestsKnownStep DEF TurnsInv
  <1> QED
    BY <1>2, <1>3, <1>4, <1>5 DEF TurnsInv

\* ... and by nothing.
LEMMA StutterTurns == ASSUME Base, TurnsInv, UNCHANGED vars PROVE TurnsInv'
  <1>1. /\ events' = events /\ clock' = clock /\ lost' = lost /\ calls' = calls
        /\ open' = open /\ turns' = turns /\ responses' = responses /\ Len(events) \in Nat
    BY DEF vars, session, Base, TypeOK
  <1>2. R' = R /\ PairToolCalls' = PairToolCalls
    BY <1>1, Unheard
  <1>3. OpenLate' /\ StartsInTurn' /\ RequestsKnown'
    BY <1>1, <1>2 DEF TurnsInv, OpenLate, StartsInTurn, RequestsKnown
  <1>4. Made' = Made /\ Ended' = Ended
    BY <1>1 DEF Made, Ended
  <1>5. \A t, tools : PairsOf(t, tools)' = PairsOf(t, tools) /\ Back(t, tools)' = Back(t, tools)
    BY <1>2, <1>4 DEF PairsOf, Back, InWindow
  <1>6. PerTurn'
    BY <1>1, <1>4, <1>5 DEF TurnsInv, PerTurn
  <1> QED
    BY <1>3, <1>6 DEF TurnsInv

\* It holds in every state.
THEOREM TurnsInvariant == Spec => []TurnsInv
  <1>1. Base /\ CallsInv /\ TurnsInv /\ [Next]_vars => TurnsInv'
    <2> SUFFICES ASSUME Base, CallsInv, TurnsInv, [Next]_vars  PROVE TurnsInv'
      OBVIOUS
    <2>1. CASE Next
      BY <2>1, StepHappens, StepTurns DEF Base
    <2>2. CASE UNCHANGED vars
      BY <2>2, StutterTurns
    <2> QED
      BY <2>1, <2>2
  <1> QED
    BY <1>1, InitTurns, BaseThm, CallsInvariant, PTL DEF Spec

\* The turn u is complete if it ended then, and is open otherwise.
MeasuredRight(u) ==
    /\ u.sid \in Sessions /\ u.start \in Nat /\ u.end \in Nat /\ u.end <= clock
    /\ u.complete => Span(u.sid, u.start, u.end) \in turns
    /\ ~u.complete => /\ open[u.sid] # 0 /\ u.start = open[u.sid]
                      /\ \A g \in Range(events) : g.sid = u.sid => g.ts <= u.end

\* Each turn that is measured is one of the session ...
LEMMA TurnsMade ==
    ASSUME Base, TurnsTold, NEW u \in TurnAnatomy
    PROVE  MeasuredRight(u)
  <1>1. PICK E : E = Range(events)
    OBVIOUS
  <1>2. PICK T : T = {"turn_end"}
    OBVIOUS
  <1>3. Timely(E) /\ (\A x \in E : x.ts \in Nat /\ x.ts # 0 /\ x.ts <= clock) /\ SessionsKnown
    BY <1>1, TimelyOf DEF Base, Timed, Timely, EventType
  <1>4. PICK e, f : Cuts(E, e, f) /\ e.sid \in Sessions /\ u = Turn(e, f)
    BY <1>1, <1>3, TurnsCut DEF TurnAnatomy
  <1>5. /\ u.sid = e.sid /\ u.start = e.ts /\ u.end = f.ts /\ u.complete = (f.phase = "turn_end")
    BY <1>4 DEF Turn
  <1>6. /\ e \in E /\ f \in E /\ e.phase = "user_prompt" /\ OpensIn(E, e) /\ f.sid = e.sid
        /\ e.ts < f.ts
        /\ \/ f \in FirstIn(E, e, T)
           \/ FirstIn(E, e, T) = {} /\ \A g \in E : g.sid = e.sid => g.ts <= f.ts
    BY <1>2, <1>4 DEF Cuts
  <1>7. /\ \A g \in FirstIn(E, e, T) : g.phase = "turn_end"
        /\ f.phase = "turn_end" => FirstIn(E, e, T) # {}
        /\ \A g, h \in FirstIn(E, e, T) : g = h
    BY <1>2, <1>3, <1>6, FirstIs
  <1>8. Tells(E, turns, open)
    BY <1>1 DEF TurnsTold
  <1>9. \A x \in E : x.ts = e.ts => x = e
    BY <1>3, <1>6 DEF Timely
  <1>10. e.ts = open[e.sid] => FirstIn(E, e, T) = {}
    <2>1. ASSUME e.ts = open[e.sid]  PROVE FirstIn(E, e, T) = {}
      <3>1. open[e.sid] # 0 /\ e.sid \in Sessions
        BY <1>3, <1>4, <1>6, <2>1
      <3>2. PICK x \in E : x.ts = open[e.sid] /\ FirstIn(E, x, T) = {}
        BY ONLY <1>2, <1>8, <3>1 DEF Tells
      <3>3. x = e
        BY <1>9, <2>1, <3>2
      <3> QED
        BY <3>2, <3>3
    <2> QED
      BY <2>1
  <1>11. ASSUME NEW t \in turns, t.sid = e.sid, t.start = e.ts
         PROVE  \E g \in FirstIn(E, e, T) : g.ts = t.end
    BY <1>2, <1>8, <1>9, <1>11 DEF Tells
  <1>12. e.ts = open[e.sid] \/ \E t \in turns : t.sid = e.sid /\ t.start = e.ts
    BY <1>6, <1>8 DEF Tells
  <1>13. CASE f.phase = "turn_end"
    <2>1. f \in FirstIn(E, e, T)
      BY <1>6, <1>7, <1>13
    <2>2. PICK t \in turns : t.sid = e.sid /\ t.start = e.ts
      BY <1>10, <1>12, <2>1
    <2>3. t.end = f.ts
      BY <1>7, <1>11, <2>1, <2>2
    <2>4. t = Span(e.sid, e.ts, f.ts)
      BY <2>2, <2>3 DEF Base, TypeOK, Span
    <2> QED
      BY <1>3, <1>4, <1>5, <1>6, <1>13, <2>2, <2>4 DEF MeasuredRight
  <1>14. CASE f.phase # "turn_end"
    <2>1. FirstIn(E, e, T) = {} /\ \A g \in E : g.sid = e.sid => g.ts <= f.ts
      BY <1>6, <1>7, <1>14
    <2>2. e.ts = open[e.sid]
      BY <1>11, <1>12, <2>1
    <2>3. open[e.sid] # 0
      BY <1>3, <1>6, <2>2
    <2> QED
      BY <1>1, <1>3, <1>4, <1>5, <1>6, <1>14, <2>1, <2>2, <2>3 DEF MeasuredRight
  <1> QED
    BY <1>13, <1>14

\* ... and each of the session is measured: those that ended, ...
LEMMA TurnsSeen ==
    ASSUME Base, TurnsTold, NEW t \in turns
    PROVE  \E u \in TurnsOf(t.sid) : /\ u.sid = t.sid /\ u.start = t.start /\ u.end = t.end /\ u.complete
                                     /\ u \in TurnAnatomy
  <1>1. PICK E : E = Range(events)
    OBVIOUS
  <1>2. PICK T : T = {"turn_end"}
    OBVIOUS
  <1>3. Timely(E) /\ t.sid \in Sessions
    BY <1>1, TimelyOf DEF Base, TypeOK
  <1>4. Tells(E, turns, open)
    BY <1>1 DEF TurnsTold
  <1>5. PICK e \in E : /\ e.phase = "user_prompt" /\ e.sid = t.sid /\ e.ts = t.start
                       /\ \E f \in FirstIn(E, e, T) : f.ts = t.end
    BY <1>2, <1>4 DEF Tells
  <1>6. PICK f \in FirstIn(E, e, T) : f.ts = t.end
    BY <1>5
  <1>7. f \in E /\ f.sid = e.sid /\ f.ts > e.ts /\ f.phase = "turn_end"
    BY <1>2, <1>3, <1>6, FirstIs
  <1>8. OpensIn(E, e)
    BY <1>4, <1>5 DEF Tells
  <1>9. e.ts < f.ts
    BY <1>7
  <1>10. Cuts(E, e, f)
    BY <1>2, <1>5, <1>6, <1>7, <1>8, <1>9 DEF Cuts
  <1>11. Turn(e, f) \in TurnsOf(t.sid)
    BY <1>1, <1>3, <1>5, <1>10, TurnsCut
  <1>12. Turn(e, f).sid = t.sid /\ Turn(e, f).start = t.start /\ Turn(e, f).end = t.end /\ Turn(e, f).complete
    BY <1>5, <1>6, <1>7 DEF Turn
  <1>13. Turn(e, f) \in TurnAnatomy
    BY <1>3, <1>11 DEF TurnAnatomy
  <1> QED
    BY <1>11, <1>12, <1>13

\* ... and the open one once anything came in it.
LEMMA OpenSeen ==
    ASSUME Base, TurnsTold, NEW s \in Sessions, open[s] # 0, NEW g \in Range(events),
           g.sid = s, open[s] < g.ts
    PROVE  \E u \in TurnsOf(s) : /\ u.sid = s /\ u.start = open[s] /\ ~u.complete /\ g.ts <= u.end
                                 /\ u \in TurnAnatomy
  <1>1. PICK E : E = Range(events)
    OBVIOUS
  <1>2. PICK T : T = {"turn_end"}
    OBVIOUS
  <1>3. Timely(E) /\ clock \in Nat /\ (\A x \in E : x.ts \in Nat /\ x.ts <= clock)
    BY <1>1, TimelyOf DEF Base, TypeOK, Timed, Timely, EventType
  <1>4. Tells(E, turns, open)
    BY <1>1 DEF TurnsTold
  <1>5. PICK e \in E : /\ e.phase = "user_prompt" /\ e.sid = s /\ e.ts = open[s]
                       /\ FirstIn(E, e, T) = {}
    BY <1>2, <1>4 DEF Tells
  <1>6. PICK S : S = {x \in E : x.sid = s}
    OBVIOUS
  <1>7. PICK f \in S : \A x \in S : x.ts <= f.ts
    <2>1. S # {} /\ \A x \in S : x.ts \in Nat /\ x.ts <= clock
      BY <1>3, <1>5, <1>6
    <2> QED
      BY ONLY <1>3, <2>1, LatestOf
  <1>8. f \in E /\ f.sid = s /\ g.ts <= f.ts /\ e.ts < f.ts
    <2>1. g \in S /\ g.ts \in Nat /\ f.ts \in Nat /\ e.ts \in Nat
      BY <1>1, <1>3, <1>6
    <2>2. g.ts <= f.ts
      BY <1>7, <2>1
    <2> QED
      BY <1>5, <1>6, <2>1, <2>2
  <1>9. f.phase # "turn_end"
    <2>1. f.ts > e.ts
      BY <1>8
    <2> QED
      BY <1>2, <1>3, <1>5, <1>8, <2>1, FirstIs
  <1>10. OpensIn(E, e)
    BY <1>4, <1>5 DEF Tells
  <1>11. Cuts(E, e, f)
    BY <1>2, <1>5, <1>6, <1>7, <1>8, <1>10 DEF Cuts
  <1>12. Turn(e, f) \in TurnsOf(s)
    BY <1>1, <1>3, <1>5, <1>11, TurnsCut
  <1>13. /\ Turn(e, f).sid = s /\ Turn(e, f).start = open[s] /\ ~Turn(e, f).complete
         /\ g.ts <= Turn(e, f).end
    BY <1>5, <1>8, <1>9 DEF Turn
  <1>14. Turn(e, f) \in TurnAnatomy
    BY <1>12 DEF TurnAnatomy
  <1> QED
    BY <1>12, <1>13, <1>14

\* The turns of the list are from a prompt to a later event.
LEMMA TurnsListed ==
    ASSUME Base, NEW s \in Sessions, NEW u \in TurnsOf(s)
    PROVE  /\ u.sid = s /\ u.start \in Nat /\ u.end \in Nat /\ u.start < u.end /\ u.end <= clock
           /\ u \in TurnAnatomy
           /\ \E e, f \in Of(s) : u.start = e.ts /\ u.end = f.ts /\ e.phase = "user_prompt"
  <1>1. Timely(Range(events)) /\ (\A x \in Range(events) : x.ts \in Nat /\ x.ts <= clock)
    BY TimelyOf DEF Base, Timed, Timely, EventType
  <1>2. PICK e, f : Cuts(Range(events), e, f) /\ e.sid = s /\ u = Turn(e, f)
    BY <1>1, TurnsCut
  <1>3. u.sid = s /\ u.start = e.ts /\ u.end = f.ts
    BY <1>2 DEF Turn
  <1>4. e \in Of(s) /\ f \in Of(s) /\ e.phase = "user_prompt" /\ e.ts < f.ts
    BY <1>2 DEF Cuts, Of
  <1>5. e.ts \in Nat /\ f.ts \in Nat /\ f.ts <= clock
    BY <1>1, <1>4 DEF Of
  <1> QED
    BY <1>3, <1>4, <1>5 DEF TurnAnatomy

\* A session has finitely many turns.
LEMMA TurnsFinite ==
    ASSUME Base, NEW s \in Sessions
    PROVE  IsFiniteSet(TurnsOf(s))
  <1>1. PICK T : T = TurnsOf(s)
    OBVIOUS
  <1>2. clock \in Nat /\ \A t \in T : t.start \in Nat /\ t.start \in 0..clock
    <2>1. \A t \in T : t.start \in Nat /\ t.end \in Nat /\ t.start < t.end /\ t.end <= clock
      BY <1>1, TurnsListed
    <2>2. clock \in Nat
      BY DEF Base, TypeOK
    <2> QED
      BY <2>1, <2>2
  <1>3. ASSUME NEW t \in T, NEW u \in T, t.start = u.start  PROVE t = u
    <2>1. /\ t \in TurnAnatomy /\ u \in TurnAnatomy /\ t.sid = u.sid
          /\ t.start \in Nat /\ t.end \in Nat /\ t.start < t.end
          /\ u.start \in Nat /\ u.end \in Nat /\ u.start < u.end
      BY <1>1, TurnsListed
    <2>2. t # u => t.end < u.start \/ u.end < t.start
      BY <2>1, TimelyOf, TurnsApart
    <2> QED
      BY <1>3, <2>1, <2>2
  <1>4. PICK f : f = [t \in T |-> t.start]
    OBVIOUS
  <1>5. f \in Injection(T, 0..clock)
    BY <1>2, <1>3, <1>4 DEF Injection, IsInjective
  <1>6. IsFiniteSet(0..clock)
    BY <1>2, FS_Interval
  <1> QED
    BY <1>1, <1>5, <1>6, FS_Injection

\* No time is in two turns of a session.
LEMMA OneTurn ==
    ASSUME Base, NEW t \in TurnAnatomy, NEW u \in TurnAnatomy, t.sid = u.sid,
           NEW n \in Nat, InWindow(t, n), InWindow(u, n)
    PROVE  t = u
  <1>1. /\ t.start \in Nat /\ t.end \in Nat /\ u.start \in Nat /\ u.end \in Nat
    <2>1. \A v \in TurnAnatomy : v.start \in Nat /\ v.end \in Nat
      BY TurnsListed DEF TurnAnatomy
    <2> QED
      BY <2>1
  <1>2. t # u => t.end < u.start \/ u.end < t.start
    BY TimelyOf, TurnsApart
  <1> QED
    BY <1>1, <1>2 DEF InWindow

\* The turns are those that the sessions made.
LEMMA TurnsTrue ==
    ASSUME Base, TurnsTold
    PROVE  /\ {Span(t.sid, t.start, t.end) : t \in {u \in TurnAnatomy : u.complete}} = turns
           /\ \A t \in TurnAnatomy : ~t.complete => t.start = open[t.sid]
  <1>1. \A t \in TurnAnatomy : MeasuredRight(t)
    BY TurnsMade
  <1>2. ASSUME NEW t \in turns
        PROVE  \E u \in TurnAnatomy : u.complete /\ Span(u.sid, u.start, u.end) = t
    <2>1. PICK u \in TurnAnatomy : u.sid = t.sid /\ u.start = t.start /\ u.end = t.end /\ u.complete
      BY TurnsSeen
    <2>2. t = Span(t.sid, t.start, t.end)
      BY DEF Base, TypeOK, Span
    <2> QED
      BY <2>1, <2>2
  <1> QED
    BY <1>1, <1>2 DEF MeasuredRight

\* While no hook was lost each pair of a session is in one of its turns.
LEMMA PairsInTurns ==
    ASSUME Base, CallsInv, TurnsInv, TurnsTold, lost = 0, NEW p \in PairToolCalls
    PROVE  \E t \in TurnsOf(p.sid) : p \in CallsIn(t)
  <1>1. PICK x \in Range(events) : x.phase = "tool_call_start" /\ SameKey(x, p) /\ x.ts = p.start
    BY DEF CallsInv, PairsApart
  <1>2. x.sid = p.sid /\ x.sid \in Sessions /\ x.ts \in Nat /\ open[x.sid] \in Nat
    BY <1>1, EventsTyped DEF Base, TypeOK, SessionsKnown, SameKey, EventType
  <1>3. CASE open[x.sid] # 0 /\ open[x.sid] < x.ts
    <2>1. PICK u \in TurnsOf(x.sid) : u.sid = x.sid /\ u.start = open[x.sid] /\ x.ts <= u.end
      BY <1>2, <1>3, OpenSeen
    <2>2. u.start <= x.ts
      BY <1>2, <1>3, <2>1
    <2> QED
      BY <1>1, <1>2, <2>1, <2>2 DEF CallsIn, InWindow
  <1>4. CASE \E t \in turns : t.sid = x.sid /\ t.start < x.ts /\ x.ts < t.end
    <2>1. PICK t \in turns : t.sid = x.sid /\ t.start < x.ts /\ x.ts < t.end
      BY <1>4
    <2>2. PICK u \in TurnsOf(x.sid) : u.sid = x.sid /\ u.start = t.start /\ u.end = t.end
      BY <2>1, TurnsSeen
    <2>3. u.start <= x.ts /\ x.ts <= u.end
      BY <1>2, <2>1, <2>2 DEF Base, TypeOK
    <2> QED
      BY <1>1, <1>2, <2>2, <2>3 DEF CallsIn, InWindow
  <1> QED
    BY <1>1, <1>3, <1>4 DEF TurnsInv, StartsInTurn

\* So the calls of the turns add up to those of the session's story.
LEMMA CallsAddUp ==
    ASSUME Base, CallsInv, TurnsInv, TurnsTold, lost = 0, NEW s \in Sessions
    PROVE  SumFunction([t \in Story(s).turns |-> Cardinality(CallsIn(t))]) = Story(s).tools.calls
  <1>1. PICK T, P, f, h :
            /\ T = TurnsOf(s) /\ P = {p \in PairToolCalls : p.sid = s}
            /\ f = [t \in T |-> CallsIn(t)] /\ h = [t \in T |-> Cardinality(CallsIn(t))]
    OBVIOUS
  <1>2. Story(s).turns = T /\ Story(s).tools.calls = Cardinality(P)
    BY <1>1 DEF Story, Profile
  <1>3. IsFiniteSet(T)
    BY <1>1, TurnsFinite
  <1>4. IsFiniteSet(P)
    <2>1. P \subseteq PairsAndStarts
      BY <1>1 DEF PairsAndStarts
    <2> QED
      BY <2>1, FS_Subset DEF CallsInv, PairsFinite
  <1>5. \A t \in T : t.sid = s /\ t \in TurnAnatomy
    BY <1>1, TurnsListed
  <1>6. \A t \in T : f[t] \subseteq P /\ h[t] = Cardinality(f[t])
    BY <1>1, <1>5 DEF CallsIn
  <1>7. ASSUME NEW t \in T, NEW u \in T, t # u  PROVE f[t] \cap f[u] = {}
    <2> SUFFICES ASSUME NEW p \in f[t], p \in f[u]  PROVE FALSE
      OBVIOUS
    <2>1. p \in PairToolCalls /\ InWindow(t, p.start) /\ InWindow(u, p.start)
      BY <1>1 DEF CallsIn
    <2>2. p.start \in Nat
      BY <2>1 DEF CallsInv, PairsApart
    <2> QED
      BY <1>5, <1>7, <2>1, <2>2, OneTurn
  <1>8. UNION {f[t] : t \in T} = P
    <2>1. ASSUME NEW p \in P  PROVE \E t \in T : p \in f[t]
      BY <1>1, PairsInTurns
    <2> QED
      BY <1>6, <2>1
  <1>9. SumFunctionOnSet(h, T) = Cardinality(UNION {f[t] : t \in T})
    BY ONLY <1>3, <1>4, <1>6, <1>7, SumCards
  <1>10. SumFunction(h) = SumFunctionOnSet(h, T)
    BY <1>1 DEF SumFunction
  <1> QED
    BY <1>1, <1>2, <1>8, <1>9, <1>10

\* Things with starts of their own are as many as others with the same starts.
LEMMA SameStarts ==
    ASSUME NEW S, NEW T, IsFiniteSet(S),
           \A a, b \in S : a.start = b.start => a = b,
           \A a, b \in T : a.start = b.start => a = b,
           \A a \in S : \E b \in T : b.start = a.start,
           \A b \in T : \E a \in S : a.start = b.start
    PROVE  Cardinality(S) = Cardinality(T)
  <1>1. PICK f : f = [a \in S |-> CHOOSE b \in T : b.start = a.start]
    OBVIOUS
  <1>2. \A a \in S : f[a] \in T /\ f[a].start = a.start
    BY <1>1
  <1>3. f \in [S -> T]
    BY <1>1, <1>2
  <1>4. \A a, b \in S : f[a] = f[b] => a = b
    BY <1>2
  <1>5. \A b \in T : \E a \in S : f[a] = b
    BY <1>2
  <1>6. f \in Bijection(S, T)
    BY <1>3, <1>4, <1>5 DEF Bijection, Injection, Surjection, IsInjective
  <1> QED
    BY <1>6, FS_Bijection DEF ExistsBijection

\* The turns u and t of one session have the same starts of calls.
Agrees(u, t) ==
    /\ u.sid = t.sid
    /\ \A x \in Range(events) :
           x.phase = "tool_call_start" /\ x.sid = t.sid => (InWindow(u, x.ts) <=> InWindow(t, x.ts))

\* Each turn that is measured agrees with one of the session ...
LEMMA SeenAgrees ==
    ASSUME Base, TurnsTold, NEW u \in TurnAnatomy
    PROVE  \E t \in Made : Agrees(u, t)
  <1>1. MeasuredRight(u)
    BY TurnsMade
  <1>2. CASE u.complete
    <2>1. PICK t : t = Span(u.sid, u.start, u.end)
      OBVIOUS
    <2>2. t \in Made /\ t.sid = u.sid /\ t.start = u.start /\ t.end = u.end
      BY <1>1, <1>2, <2>1 DEF MeasuredRight, Made, Span
    <2> QED
      BY <2>2 DEF Agrees, InWindow
  <1>3. CASE ~u.complete
    <2>1. PICK t : t = Span(u.sid, open[u.sid], clock)
      OBVIOUS
    <2>2. t \in Made /\ t.sid = u.sid /\ t.start = u.start /\ t.end = clock
      BY <1>1, <1>3, <2>1 DEF MeasuredRight, Made, Span
    <2>3. \A x \in Range(events) : x.sid = u.sid => x.ts <= u.end /\ x.ts <= clock
      BY <1>1, <1>3 DEF MeasuredRight, Base, Timed
    <2> QED
      BY <2>2, <2>3 DEF Agrees, InWindow
  <1> QED
    BY <1>2, <1>3

\* ... and each of the session in which a call began with one that is measured.
LEMMA MadeAgrees ==
    ASSUME Base, OpenLate, TurnsTold, NEW t \in Made,
           NEW x \in Range(events), x.phase = "tool_call_start", x.sid = t.sid, InWindow(t, x.ts)
    PROVE  \E u \in TurnAnatomy : Agrees(u, t)
  <1>1. /\ t.sid \in Sessions /\ t.start \in Nat /\ t.end \in Nat
        /\ t \in turns \/ (open[t.sid] # 0 /\ t.start = open[t.sid] /\ t.end = clock)
    BY MadeTyped DEF Base
  <1>2. CASE t \in turns
    <2>1. PICK u \in TurnAnatomy : u.sid = t.sid /\ u.start = t.start /\ u.end = t.end
      BY <1>2, TurnsSeen
    <2> QED
      BY <2>1 DEF Agrees, InWindow
  <1>3. CASE open[t.sid] # 0 /\ t.start = open[t.sid] /\ t.end = clock
    <2>1. x.ts \in Nat
      BY EventsTyped DEF Base, TypeOK, EventType
    <2>2. open[t.sid] # x.ts
      <3>1. PICK e \in Range(events) : e.phase = "user_prompt" /\ e.ts = open[t.sid]
        BY <1>1, <1>3 DEF TurnsTold, Tells
      <3> QED
        BY <3>1 DEF Base, Timed
    <2>3. open[t.sid] < x.ts
      BY <1>1, <1>3, <2>1, <2>2 DEF InWindow
    <2>4. PICK u \in TurnAnatomy : u.sid = t.sid /\ u.start = open[t.sid] /\ ~u.complete
      BY <1>1, <1>3, <2>3, OpenSeen
    <2>5. \A y \in Range(events) : y.sid = t.sid => y.ts <= u.end /\ y.ts <= clock
      BY <2>4, TurnsMade DEF MeasuredRight, Base, Timed
    <2> QED
      BY <1>3, <2>4, <2>5 DEF Agrees, InWindow
  <1> QED
    BY <1>1, <1>2, <1>3

\* The pairs of the edits, and the edits, have starts in the list.
LEMMA StartsListed ==
    ASSUME Base, CallsInv, lost = 0
    PROVE  /\ \A p \in PairToolCalls : \E x \in Range(events) : StartOf(x, p)
           /\ \A c \in calls : \E x \in Range(events) : StartOf(x, c)
  BY DEF CallsInv, PairsApart, CallsListed, StartOf, SameKey

\* Pairs and calls back are finitely many, and have starts of their own.
LEMMA StartsOwn ==
    ASSUME Base, CallsInv
    PROVE  /\ IsFiniteSet(PairToolCalls) /\ IsFiniteSet(Ended)
           /\ \A p, q \in PairToolCalls : p.start = q.start => p = q
           /\ \A c, d \in calls : c.start = d.start => c = d
  <1>1. PairToolCalls \subseteq PairsAndStarts /\ Ended \subseteq calls
    BY DEF PairsAndStarts, Ended
  <1>2. IsFiniteSet(PairToolCalls) /\ IsFiniteSet(Ended)
    BY <1>1, FS_Subset DEF CallsInv, PairsFinite, Base, TypeOK
  <1> QED
    BY <1>2 DEF CallsInv, PairsApart, CallsApart

\* A turn has as many edits as came back of those made in it.
LEMMA EditsTrue ==
    ASSUME Base, CallsInv, TurnsInv, TurnsTold, lost = 0, NEW u \in TurnAnatomy
    PROVE  Cardinality(EditsIn(u)) = Cardinality(Back(u, EditTools))
  <1>1. PICK t \in Made : Agrees(u, t)
    BY SeenAgrees
  <1>2. EditsIn(u) = PairsOf(t, EditTools)
    <2>1. \A p \in PairToolCalls : p.sid = t.sid => (InWindow(u, p.start) <=> InWindow(t, p.start))
      BY <1>1, StartsListed DEF Agrees, StartOf
    <2> QED
      BY <1>1, <2>1 DEF EditsIn, CallsIn, PairsOf, Agrees
  <1>3. Back(u, EditTools) = Back(t, EditTools)
    <2>1. \A c \in Ended : c.sid = t.sid => (InWindow(u, c.start) <=> InWindow(t, c.start))
      BY <1>1, StartsListed DEF Agrees, StartOf, Ended
    <2> QED
      BY <1>1, <2>1 DEF Back, Agrees
  <1>4. Cardinality(PairsOf(t, EditTools)) = Cardinality(Back(t, EditTools))
    BY EditToolsAssumption DEF TurnsInv, PerTurn
  <1> QED
    BY <1>2, <1>3, <1>4

\* The pairs of the edits of a file, and its edits.
EditPairs(file) == {p \in PairToolCalls : p.tool \in EditTools /\ p.file = file}
EditCalls(file) == {c \in calls : c.tool \in EditTools /\ c.file = file}

\* Their starts are the same when all edits are back.
LEMMA EditsPaired ==
    ASSUME Base, CallsInv, lost = 0, {c \in calls : c.tool \in EditTools} \subseteq Ended,
           NEW file \in Files
    PROVE  /\ \A p \in EditPairs(file) : \E c \in EditCalls(file) :
                  c.sid = p.sid /\ c.start = p.start
           /\ \A c \in EditCalls(file) : \E p \in EditPairs(file) :
                  p.sid = c.sid /\ p.start = c.start
  <1>1. ASSUME NEW p \in EditPairs(file)
        PROVE  \E c \in EditCalls(file) : c.sid = p.sid /\ c.start = p.start
    <2>1. PICK x \in Range(events) : StartOf(x, p)
      BY StartsListed DEF EditPairs
    <2>2. PICK c \in calls : c.sid = x.sid /\ c.tool = x.tool /\ c.file = x.file /\ c.start = x.ts
      BY <2>1 DEF StartOf, Base, StartsMade
    <2> QED
      BY <2>1, <2>2 DEF StartOf, EditPairs, EditCalls
  <1>2. \A x \in R : x.tool \notin EditTools
    <2> SUFFICES ASSUME NEW x \in R, x.tool \in EditTools  PROVE FALSE
      OBVIOUS
    <2>1. PICK K : K = Sessions \X EditTools
      OBVIOUS
    <2>2. K \in SUBSET (Sessions \X Tools)
      BY <2>1, EditToolsAssumption
    <2>3. x.sid \in Sessions
      BY DEF CallsInv, StartsLeft, Base, SessionsKnown
    <2>4. {c \in Within(calls, K) : c.end = 0} = {}
      BY <2>1 DEF Within, Ended
    <2>5. Cardinality(Within(R, K)) = 0
      BY <2>2, <2>4, FS_EmptySet DEF CallsInv, Balanced, Even
    <2>6. IsFiniteSet(Within(R, K))
      <3>1. Within(R, K) \subseteq R
        BY DEF Within
      <3> QED
        BY <3>1, FS_Subset DEF CallsInv, PairsFinite
    <2>7. x \in Within(R, K)
      BY <2>1, <2>3 DEF Within
    <2> QED
      BY <2>5, <2>6, <2>7, FS_EmptySet
  <1>3. ASSUME NEW c \in EditCalls(file)
        PROVE  \E p \in EditPairs(file) : p.sid = c.sid /\ p.start = c.start
    <2>1. PICK x \in Range(events) : StartOf(x, c)
      BY StartsListed DEF EditCalls
    <2>2. x \notin R
      BY <1>2, <2>1 DEF StartOf, EditCalls
    <2>3. PICK p \in PairToolCalls : p.start = x.ts
      BY <2>1, <2>2 DEF StartOf, CallsInv, StartsKept
    <2>4. PICK y \in Range(events) : StartOf(y, p)
      BY StartsListed
    <2>5. y = x
      BY <2>3, <2>4 DEF StartOf, Base, Timed
    <2> QED
      BY <2>1, <2>3, <2>4, <2>5 DEF StartOf, EditPairs, EditCalls
  <1> QED
    BY <1>1, <1>3

\* So rework counts what was done to a file.
LEMMA ReworkTrue ==
    ASSUME Base, CallsInv, TurnsInv, TurnsTold, lost = 0,
           {c \in calls : c.tool \in EditTools} \subseteq Ended, NEW file \in Files
    PROVE  Rework(file) = Edited(file)
  <1>1. PICK P, C : P = EditPairs(file) /\ C = EditCalls(file)
    OBVIOUS
  <1>2. /\ \A p \in P : \E c \in C : c.sid = p.sid /\ c.start = p.start
        /\ \A c \in C : \E p \in P : p.sid = c.sid /\ p.start = c.start
    BY <1>1, EditsPaired
  <1>3. /\ IsFiniteSet(P)
        /\ \A p, q \in P : p.start = q.start => p = q
        /\ \A c, d \in C : c.start = d.start => c = d
    <2>1. P \subseteq PairToolCalls /\ C \subseteq calls
      BY <1>1 DEF EditPairs, EditCalls
    <2> QED
      BY <2>1, StartsOwn, FS_Subset
  <1>4. Cardinality(P) = Cardinality(C)
    BY <1>2, <1>3, SameStarts
  <1> DEFINE In(t) == P \cap CallsIn(t)
             Did(t) == C \cap Back(t, EditTools)
  <1>5. /\ \A t : \A p : p \in In(t) <=> p \in P /\ p.sid = t.sid /\ InWindow(t, p.start)
        /\ \A t : \A c : c \in Did(t) <=> c \in C /\ c.sid = t.sid /\ InWindow(t, c.start)
    BY <1>1 DEF CallsIn, Back, EditPairs, EditCalls
  <1>6. \A p \in P : \E x \in Range(events) :
            x.phase = "tool_call_start" /\ x.sid = p.sid /\ x.ts = p.start
    BY <1>1, StartsListed DEF EditPairs, StartOf
  <1>7. ASSUME NEW u \in TurnAnatomy, NEW t \in Made, Agrees(u, t)
        PROVE  Cardinality(In(u)) = Cardinality(Did(t))
    <2>1. \A p : p \in In(u) <=> p \in P /\ p.sid = t.sid /\ InWindow(t, p.start)
      BY <1>5, <1>6, <1>7 DEF Agrees
    <2>2. PICK A, B : A = In(u) /\ B = Did(t)
      OBVIOUS
    <2>3. A \subseteq P /\ B \subseteq C
      BY <2>2
    <2>4. /\ \A p \in A : \E c \in B : c.start = p.start
          /\ \A c \in B : \E p \in A : p.start = c.start
      BY <1>2, <1>5, <2>1, <2>2
    <2>5. IsFiniteSet(A)
      BY <1>3, <2>3, FS_Subset
    <2>6. Cardinality(A) = Cardinality(B)
      BY <1>3, <2>3, <2>4, <2>5, SameStarts
    <2> QED
      BY <2>2, <2>6
  <1>8. \A u \in TurnAnatomy : \E t \in Made : Cardinality(In(u)) = Cardinality(Did(t))
    BY <1>7, SeenAgrees
  <1>9. ASSUME NEW t \in Made, Did(t) # {}
        PROVE  \E u \in TurnAnatomy : Cardinality(In(u)) = Cardinality(Did(t))
    <2>1. PICK c \in C : c.sid = t.sid /\ InWindow(t, c.start)
      BY <1>5, <1>9
    <2>2. PICK p \in P : p.sid = c.sid /\ p.start = c.start
      BY <1>2, <2>1
    <2>3. PICK x \in Range(events) : x.phase = "tool_call_start" /\ x.sid = p.sid /\ x.ts = p.start
      BY <1>6, <2>2
    <2>4. PICK u \in TurnAnatomy : Agrees(u, t)
      BY <2>1, <2>2, <2>3, MadeAgrees DEF TurnsInv
    <2> QED
      BY <1>7, <2>4
  <1>10. Cardinality({}) = 0
    BY FS_EmptySet
  <1>11. {0} \cup {Cardinality(In(u)) : u \in TurnAnatomy}
             = {0} \cup {Cardinality(Did(t)) : t \in Made}
    <2>1. \A t \in Made : \/ Cardinality(Did(t)) = 0
                          \/ \E u \in TurnAnatomy : Cardinality(In(u)) = Cardinality(Did(t))
      BY <1>9, <1>10
    <2> HIDE DEF In, Did
    <2> QED
      BY <1>8, <2>1
  <1>12. /\ Rework(file) = [edits |-> Cardinality(P),
                            worst |-> Max({0} \cup {Cardinality(In(u)) : u \in TurnAnatomy})]
         /\ Edited(file) = [edits |-> Cardinality(C),
                            worst |-> Max({0} \cup {Cardinality(Did(t)) : t \in Made})]
    BY <1>1 DEF Rework, Edited, EditPairs, EditCalls
  <1> QED
    BY <1>4, <1>11, <1>12

\* The response e, and the session s that made the request.
Answer(e, s) == e \in At("api_response_end") /\ s = responses[e.id]

\* An account of a response names the session that made the request, ...
LEMMA JoinedIs ==
    ASSUME Base, RequestsKnown, NEW e, NEW s, Answer(e, s), Joined(e.id) # {}
    PROVE  Joined(e.id) = {s} /\ \A q : Mine(e.id, q) <=> q = s
  <1>1. \A x \in At("otel_event") : x.id = e.id => x.sid = s
    BY DEF RequestsKnown, At, Answer
  <1>2. Joined(e.id) = {s}
    BY <1>1 DEF Joined
  <1> QED
    BY <1>2 DEF Mine

\* ... and a response is counted by its own time.
LEMMA CountedIs ==
    ASSUME RequestsKnown, NEW e \in At("api_response_end"), NEW t
    PROVE  t \in Counted(e.id) <=> t \in TurnAnatomy /\ InWindow(t, e.ts) /\ Mine(e.id, t.sid)
  <1>1. \A x \in At("api_response_end") : x.id = e.id => x = e
    BY DEF RequestsKnown, At
  <1>2. e.id \in FlowsIn(t) <=> InWindow(t, e.ts) /\ Mine(e.id, t.sid)
    BY <1>1 DEF FlowsIn
  <1> QED
    BY <1>2 DEF Counted

\* A response is counted as TurnsShareNothing says.
LEMMA FlowsShared ==
    ASSUME Base, Told, TurnsInv, NEW e, NEW s, Answer(e, s), Joined(e.id) # {}
    PROVE  /\ \A t \in Counted(e.id) : t.sid = s /\ e.id \in Story(s).flows
           /\ \A q \in Sessions \ {s} : e.id \notin Story(q).flows
           /\ lost = 0 => {t.start : t \in Counted(e.id)} =
                              {t.start : t \in {u \in Made : /\ u.sid = s /\ u.start < e.ts
                                                             /\ e.ts <= u.end}}
  <1>1. /\ e \in At("api_response_end") /\ e \in Range(events) /\ e.phase = "api_response_end"
        /\ s = responses[e.id] /\ RequestsKnown
    BY DEF Answer, At, TurnsInv
  <1>2. Mine(e.id, s) /\ \A q : Mine(e.id, q) => q = s
    BY <1>1, JoinedIs
  <1>3. s \in Sessions
    BY <1>1 DEF RequestsKnown, Base, TypeOK
  <1>4. \A t : t \in Counted(e.id) <=> t \in TurnAnatomy /\ InWindow(t, e.ts) /\ Mine(e.id, t.sid)
    BY <1>1, CountedIs
  <1>5. \A t \in Counted(e.id) : t.sid = s /\ t \in TurnsOf(s)
    <2>1. \A t \in TurnAnatomy : \E q \in Sessions : t \in TurnsOf(q) /\ t.sid = q
      BY TurnsListed DEF TurnAnatomy
    <2> QED
      BY <1>2, <1>4, <2>1
  <1>6. \A q : Story(q).flows =
            {x.id : x \in {y \in {z \in At("api_response_end") :
                                      \E f, g \in Of(q) : f.ts <= z.ts /\ z.ts <= g.ts} : Mine(y.id, q)}}
    BY DEF Story
  <1>7. ASSUME NEW t \in Counted(e.id)  PROVE e.id \in Story(s).flows
    <2>1. \E f, g \in Of(s) : f.ts <= e.ts /\ e.ts <= g.ts
      BY <1>3, <1>4, <1>5, TurnsListed DEF InWindow
    <2> QED
      BY <1>1, <1>2, <1>6, <2>1
  <1>8. ASSUME NEW q \in Sessions \ {s}  PROVE e.id \notin Story(q).flows
    BY <1>2, <1>6
  <1>9. ASSUME lost = 0
        PROVE  {t.start : t \in Counted(e.id)} =
                   {t.start : t \in {u \in Made : u.sid = s /\ u.start < e.ts /\ e.ts <= u.end}}
    <2>1. TurnsTold
      BY <1>9 DEF Told
    <2>2. e.ts \in Nat /\ e.ts <= clock /\ clock \in Nat
      BY <1>1, EventsTyped DEF Base, TypeOK, Timed, EventType
    <2>3. ASSUME NEW t \in Counted(e.id)
          PROVE  \E u \in Made : u.sid = s /\ u.start < e.ts /\ e.ts <= u.end /\ u.start = t.start
      <3>1. /\ t.sid = s /\ t.start \in Nat /\ t.end \in Nat /\ t.start <= e.ts /\ e.ts <= t.end
            /\ t \in TurnAnatomy
        BY <1>3, <1>4, <1>5, TurnsListed DEF InWindow
      <3>2. t.start # e.ts
        <4>1. PICK f \in Of(s) : t.start = f.ts /\ f.phase = "user_prompt"
          BY <1>3, <1>5, TurnsListed
        <4> QED
          BY <1>1, <4>1 DEF Of, Base, Timed
      <3>3. t.start < e.ts
        BY <2>2, <3>1, <3>2
      <3>4. MeasuredRight(t)
        BY <2>1, <3>1, TurnsMade
      <3>5. CASE t.complete
        <4>1. PICK u : u = Span(t.sid, t.start, t.end)
          OBVIOUS
        <4>2. u \in Made /\ u.sid = s /\ u.start = t.start /\ u.end = t.end
          BY <3>1, <3>4, <3>5, <4>1 DEF MeasuredRight, Made, Span
        <4> QED
          BY <3>1, <3>3, <4>2
      <3>6. CASE ~t.complete
        <4>1. PICK u : u = Span(s, open[s], clock)
          OBVIOUS
        <4>2. u \in Made /\ u.sid = s /\ u.start = t.start /\ u.end = clock
          BY <1>3, <3>1, <3>4, <3>6, <4>1 DEF MeasuredRight, Made, Span
        <4> QED
          BY <2>2, <3>3, <4>2
      <3> QED
        BY <3>5, <3>6
    <2>4. ASSUME NEW u \in Made, u.sid = s, u.start < e.ts, e.ts <= u.end
          PROVE  \E t \in Counted(e.id) : t.start = u.start
      <3>1. /\ u.start \in Nat /\ u.end \in Nat
            /\ u \in turns \/ (open[s] # 0 /\ u.start = open[s] /\ u.end = clock)
        BY <2>4, MadeTyped DEF Base, TurnsInv
      <3>2. CASE u \in turns
        <4>1. PICK t \in TurnAnatomy : t.sid = s /\ t.start = u.start /\ t.end = u.end
          BY <2>1, <2>4, <3>2, TurnsSeen
        <4>2. InWindow(t, e.ts)
          BY <2>2, <2>4, <3>1, <4>1 DEF InWindow
        <4> QED
          BY <1>2, <1>4, <4>1, <4>2
      <3>3. CASE open[s] # 0 /\ u.start = open[s]
        <4>1. PICK f \in Range(events) : f.phase = "otel_event" /\ f.id = e.id
          BY DEF Joined, At
        <4>2. f.sid = s /\ e.ts < f.ts /\ f.ts \in Nat
          BY <1>1, <4>1, EventsTyped DEF RequestsKnown, Base, TypeOK, EventType
        <4>3. open[s] < f.ts
          BY <2>2, <2>4, <3>1, <3>3, <4>2
        <4>4. PICK t \in TurnAnatomy : t.sid = s /\ t.start = open[s] /\ f.ts <= t.end
          BY <1>3, <2>1, <3>3, <4>2, <4>3, OpenSeen
        <4>5. MeasuredRight(t)
          BY <2>1, <4>4, TurnsMade
        <4>6. t.end \in Nat
          BY <4>5 DEF MeasuredRight
        <4>7. InWindow(t, e.ts)
          BY <2>2, <2>4, <3>1, <3>3, <4>2, <4>4, <4>6 DEF InWindow
        <4> QED
          BY <1>2, <1>4, <3>3, <4>4, <4>7
      <3> QED
        BY <3>1, <3>2, <3>3
    <2> QED
      BY <2>3, <2>4
  <1> QED
    BY <1>5, <1>7, <1>8, <1>9

\* Turns are as TurnsShareNothing says.
LEMMA TurnsShareNothingOf == ASSUME Base, Told, CallsInv, TurnsInv PROVE TurnsShareNothing
  <1>1. \A t, u \in TurnAnatomy : t # u /\ t.sid = u.sid => t.end < u.start \/ u.end < t.start
    BY TimelyOf, TurnsApart
  <1>2. ASSUME lost = 0
        PROVE  /\ {Span(t.sid, t.start, t.end) : t \in {u \in TurnAnatomy : u.complete}} = turns
               /\ \A t \in TurnAnatomy : ~t.complete => t.start = open[t.sid]
    BY <1>2, TurnsTrue DEF Told
  <1>3. ASSUME lost = 0, NEW s \in Sessions
        PROVE  SumFunction([t \in Story(s).turns |-> Cardinality(CallsIn(t))]) = Story(s).tools.calls
    BY <1>3, CallsAddUp DEF Told
  <1>4. ASSUME lost = 0, NEW t \in TurnAnatomy
        PROVE  Cardinality(EditsIn(t)) = Cardinality(Back(t, EditTools))
    BY <1>4, EditsTrue DEF Told
  <1>5. ASSUME lost = 0, {c \in calls : c.tool \in EditTools} \subseteq Ended, NEW file \in Files
        PROVE  Rework(file) = Edited(file)
    BY <1>5, ReworkTrue DEF Told
  <1>6. ASSUME NEW e \in At("api_response_end"), Joined(e.id) # {}
        PROVE  /\ \A t \in Counted(e.id) : t.sid = responses[e.id] /\ e.id \in Story(responses[e.id]).flows
               /\ \A q \in Sessions \ {responses[e.id]} : e.id \notin Story(q).flows
               /\ lost = 0 => {t.start : t \in Counted(e.id)} =
                                  {t.start : t \in {u \in Made : /\ u.sid = responses[e.id]
                                                                 /\ u.start < e.ts /\ e.ts <= u.end}}
    <2>1. PICK s : s = responses[e.id]
      OBVIOUS
    <2>2. Answer(e, s)
      BY <2>1 DEF Answer
    <2>3. /\ \A t \in Counted(e.id) : t.sid = s /\ e.id \in Story(s).flows
          /\ \A q \in Sessions \ {s} : e.id \notin Story(q).flows
          /\ lost = 0 => {t.start : t \in Counted(e.id)} =
                             {t.start : t \in {u \in Made : /\ u.sid = s /\ u.start < e.ts
                                                            /\ e.ts <= u.end}}
      BY <1>6, <2>2, FlowsShared
    <2> QED
      BY <2>1, <2>3
  <1>7. ASSUME NEW e \in At("api_response_end"), NEW t \in Counted(e.id), NEW u \in Counted(e.id),
               t.sid = u.sid
        PROVE  t = u
    <2>1. /\ t \in TurnAnatomy /\ InWindow(t, e.ts)
          /\ u \in TurnAnatomy /\ InWindow(u, e.ts)
      BY CountedIs DEF TurnsInv
    <2>2. e.ts \in Nat
      BY EventsTyped DEF At, Base, TypeOK, EventType
    <2> QED
      BY <1>7, <2>1, <2>2, OneTurn
  <1> QED
    BY <1>1, <1>2, <1>3, <1>4, <1>5, <1>6, <1>7 DEF TurnsShareNothing

\* Turns are as TurnsShareNothing says in every state, whatever hooks are lost and
\* however the sessions overlap.
THEOREM TurnsShareNothingThm == Spec => []TurnsShareNothing
  <1>1. Base /\ Told /\ CallsInv /\ TurnsInv => TurnsShareNothing
    BY TurnsShareNothingOf
  <1> QED
    BY <1>1, BaseThm, CallsInvariant, TurnsInvariant, PTL

=============================================================================
