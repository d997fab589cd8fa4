----------------------------- MODULE Analytics ------------------------------
(***************************************************************************)
(* What cia/analytics.py makes of a recorded list of events: it pairs the  *)
(* ends of tool calls with their starts, measures how long Claude Code     *)
(* waited for its user, cuts the sessions into turns, and gives calls,     *)
(* waits and the proxy's responses to the turns.                           *)
(*                                                                         *)
(* The list is made by Claude Code sessions that run side by side, and the *)
(* hooks of any of their steps may be lost.  The operators are pure; what  *)
(* they return is compared, after each event, with what the sessions did.  *)
(*                                                                         *)
(* The list has one event per tick of the clock, in the order of time, as  *)
(* Store.query returns it.                                                 *)
(***************************************************************************)
EXTENDS Integers, SequencesExt, FiniteSetsExt

CONSTANTS Sessions, Tools, Files,
          EditTools,    \* _EDIT_TOOLS: the tools that edit the file they are given
          MaxEvents,    \* bound on the steps of the sessions
          MaxPrompts, MaxCalls, MaxNotices, MaxResponses, \* bounds on each kind
          MaxLost       \* bound on the lost hooks

None == "none" \* the session, tool or file of an event that has none

ASSUME SessionsAssumption == None \notin Sessions
ASSUME EditToolsAssumption == EditTools \subseteq Tools
ASSUME BoundsAssumption ==
    {MaxEvents, MaxPrompts, MaxCalls, MaxNotices, MaxResponses, MaxLost} \subseteq Nat

VARIABLES identified, \* the sessions whose hooks carry a tool_use_id
          clock,
          events,     \* the recorded list
          lost,       \* history: the number of hooks lost
          open,       \* [session -> when its turn began, 0 between turns]
          turns,      \* history: the turns that ended
          calls,      \* history: the calls made, with their times
          asked,      \* history: the permissions asked for, with their answers
          responses   \* history: [flow -> its session]

session == <<open, turns>>
vars == <<identified, clock, events, lost, session, calls, asked, responses>>

Init == /\ identified \in SUBSET Sessions
        /\ clock = 0 /\ events = <<>> /\ lost = 0
        /\ open = [s \in Sessions |-> 0] /\ turns = {}
        /\ calls = {} /\ asked = {} /\ responses = <<>>

-----------------------------------------------------------------------------
(* Claude Code, its hooks and its telemetry.                               *)

Event(phase, s, tool, file, id) ==
    [ts |-> clock + 1, phase |-> phase, sid |-> s, tool |-> tool, file |-> file, id |-> id]

Tick == clock < MaxEvents /\ clock' = clock + 1

Record(e) == events' = Append(events, e) /\ UNCHANGED lost

\* A step of a session reaches the list by a hook, which may be lost.
Hook(phase, s, tool, file, id) ==
    /\ Tick
    /\ \/ Record(Event(phase, s, tool, file, id))
       \/ lost < MaxLost /\ lost' = lost + 1 /\ UNCHANGED events
    /\ UNCHANGED identified

At(phase) == {e \in Range(events) : e.phase = phase}
Count(phase) == Cardinality(At(phase))

Running(s) == {c \in calls : c.sid = s /\ c.end = 0}
Pending(s) == {a \in asked : a.sid = s /\ a.until = 0}

\* The user writes: a turn begins, or goes on if one is open; a permission that
\* was asked for is denied by it.
Prompt(s) ==
    /\ Count("user_prompt") < MaxPrompts
    /\ Hook("user_prompt", s, None, None, 0)
    /\ open' = [open EXCEPT ![s] = IF @ = 0 THEN clock' ELSE @]
    /\ asked' = (asked \ Pending(s)) \cup {[a EXCEPT !.until = clock'] : a \in Pending(s)}
    /\ UNCHANGED <<turns, calls, responses>>

UseId(s, n) == IF s \in identified THEN n ELSE 0

StartCall(s, tool, file) ==
    LET n == Cardinality(calls) + 1 IN
    /\ open[s] # 0
    /\ n <= MaxCalls
    /\ Hook("tool_call_start", s, tool, file, UseId(s, n))
    /\ calls' = calls \cup {[sid |-> s, tool |-> tool, file |-> file, id |-> n,
                             start |-> clock', end |-> 0, heard |-> events' # events]}

\* The call needs no permission, or another one than those asked for.
Call(s, tool, file) == StartCall(s, tool, file) /\ UNCHANGED <<session, asked, responses>>

Approve(a, tool, file) ==
    /\ StartCall(a.sid, tool, file)
    /\ asked' = (asked \ {a}) \cup {[a EXCEPT !.until = clock']}
    /\ UNCHANGED <<session, responses>>

Return(c) ==
    /\ Hook("tool_call_end", c.sid, c.tool, c.file, UseId(c.sid, c.id))
    /\ calls' = (calls \ {c}) \cup
           {[c EXCEPT !.end = clock', !.heard = @ /\ events' # events]}
    /\ UNCHANGED <<session, asked, responses>>

AskPermission(s) ==
    /\ open[s] # 0
    /\ Count("permission") + Count("idle") < MaxNotices
    /\ Hook("permission", s, None, None, 0)
    /\ asked' = asked \cup {[sid |-> s, ts |-> clock', until |-> 0]}
    /\ UNCHANGED <<session, calls, responses>>

SayIdle(s) ==
    /\ open[s] = 0
    /\ Count("permission") + Count("idle") < MaxNotices
    /\ Hook("idle", s, None, None, 0)
    /\ UNCHANGED <<session, calls, asked, responses>>

EndTurn(s) ==
    /\ open[s] # 0 /\ Running(s) = {} /\ Pending(s) = {}
    /\ Hook("turn_end", s, None, None, 0)
    /\ open' = [open EXCEPT ![s] = 0]
    /\ turns' = turns \cup {[sid |-> s, start |-> open[s], end |-> clock']}
    /\ UNCHANGED <<calls, asked, responses>>

\* The session may be resumed under its id later.
EndSession(s) ==
    /\ open[s] = 0 /\ Count("session_end") = 0
    /\ Hook("session_end", s, None, None, 0)
    /\ UNCHANGED <<session, calls, asked, responses>>

\* A response passes the proxy, which does not know the session: in a turn, or of
\* a request that Claude Code makes on its own.
Respond(s) ==
    /\ Len(responses) < MaxResponses
    /\ Tick
    /\ responses' = Append(responses, s)
    /\ Record(Event("api_response_end", None, None, None, Len(responses')))
    /\ UNCHANGED <<identified, session, calls, asked>>

\* Claude Code's own account of the request, exported if telemetry is on.
Account(flow) ==
    /\ \A e \in At("otel_event") : e.id # flow
    /\ Tick
    /\ Record(Event("otel_event", responses[flow], None, None, flow))
    /\ UNCHANGED <<identified, session, calls, asked, responses>>

Next == \/ \E s \in Sessions : \/ Prompt(s) \/ AskPermission(s) \/ SayIdle(s)
                               \/ EndTurn(s) \/ EndSession(s) \/ Respond(s)
                               \/ \E tool \in Tools, file \in Files : Call(s, tool, file)
        \/ \E a \in asked, tool \in Tools, file \in Files : a.until = 0 /\ Approve(a, tool, file)
        \/ \E c \in calls : c.end = 0 /\ Return(c)
        \/ \E flow \in DOMAIN responses : Account(flow)

Spec == Init /\ [][Next]_vars

-----------------------------------------------------------------------------
(* pair_tool_calls and tool_profiles.                                      *)

\* The file is that of the start.
Pairing(start, end) ==
    [sid |-> end.sid, tool |-> end.tool, file |-> start.file, start |-> start.ts, end |-> end.ts]

\* Of the starts S: the one with the use id of e, and those without one that have
\* the session and tool of e.
Own(S, e) == {x \in S : e.id # 0 /\ x.id = e.id}
Stack(S, e) == {x \in S : x.id = 0 /\ x.sid = e.sid /\ x.tool = e.tool}

\* Mutant: the call that waits longest is taken, not the most recent one.
Taken_First(S, e) ==
    IF Own(S, e) # {} THEN Own(S, e) ELSE {x \in Stack(S, e) : \A y \in Stack(S, e) : x.ts <= y.ts}

\* What the end e takes of the starts S: the start with its use id; failing that,
\* the latest of its session and tool.
Taken(S, e) ==
    IF Own(S, e) # {} THEN Own(S, e) ELSE {x \in Stack(S, e) : \A y \in Stack(S, e) : y.ts <= x.ts}

\* by_use_id and by_key: the starts unmatched after the first n events.
Unmatched[n \in 0..Len(events)] ==
    IF n = 0 THEN {}
    ELSE LET S == Unmatched[n - 1]
             e == events[n]
         IN  CASE e.phase = "tool_call_start" -> (S \ Own(S, e)) \cup {e}
               [] e.phase = "tool_call_end"   -> S \ Taken(S, e)
               [] OTHER                       -> S

PairToolCalls ==
    UNION {{Pairing(x, events[n]) : x \in Taken(Unmatched[n - 1], events[n])} :
               n \in {k \in DOMAIN events : events[k].phase = "tool_call_end"}}

Duration(S) == SumFunction([p \in S |-> p.end - p.start])

Profile(S) == [calls |-> Cardinality(S), total |-> Duration(S)]

ToolProfile(tool) == Profile({p \in PairToolCalls : p.tool = tool})

-----------------------------------------------------------------------------
(* human_latency.                                                          *)

\* The events of a session, Claude Code's accounts of its requests among them.
Of(s) == {e \in Range(events) : e.sid = s}

\* The first event of these phases after e in its session, if there is one.
First(e, phases) ==
    LET later == {f \in Of(e.sid) : f.ts > e.ts /\ f.phase \in phases}
    IN  {f \in later : \A g \in later : f.ts <= g.ts}

\* Mutant: a prompt, which denies a permission, does not end the wait for it.
Resolution_ByCallOnly(e) ==
    First(e, IF e.phase = "permission" THEN {"tool_call_start"} ELSE {"user_prompt"})

\* What resolves the notification e.
Resolution(e) ==
    First(e, {"user_prompt"} \cup IF e.phase = "permission" THEN {"tool_call_start"} ELSE {})

Wait(e, f) == [sid |-> e.sid, ts |-> e.ts, until |-> f.ts]

Waits(kind) == UNION {{Wait(e, f) : f \in Resolution(e)} : e \in At(kind)}

PermissionWaits == Waits("permission")
InputWaits == Waits("idle")

\* turn_end to the next prompt, unless the session ends before it.
ThinkTimes ==
    UNION {{Wait(e, f) : f \in First(e, {"user_prompt", "session_end"}) \cap At("user_prompt")} :
               e \in At("turn_end")}

-----------------------------------------------------------------------------
(* api_flow_sessions, turn_anatomy and _one_turn.                          *)

\* The session of a flow, if Claude Code's own account of it was recorded.
Joined(flow) == {e.sid : e \in {x \in At("otel_event") : x.id = flow}}

\* Mutant: the window alone decides.
Mine_InWindow(flow, s) == TRUE

\* _session_filter.
Mine(flow, s) == Joined(flow) \subseteq {s}

\* A prompt opens a turn unless it comes in one.
Opens(e) == \A g \in At("user_prompt") :
                g.sid = e.sid /\ g.ts < e.ts => \E f \in First(g, {"turn_end"}) : f.ts < e.ts

\* A turn that is open when the capture ends is closed at the last event of its
\* session.
Closing(e) ==
    IF First(e, {"turn_end"}) # {} THEN First(e, {"turn_end"})
    ELSE {f \in Of(e.sid) : f.ts > e.ts /\ \A g \in Of(e.sid) : g.ts <= f.ts}

Turn(e, f) == [sid |-> e.sid, start |-> e.ts, end |-> f.ts, complete |-> f.phase = "turn_end"]

TurnsOf(s) ==
    UNION {{Turn(e, f) : f \in Closing(e)} : e \in {g \in Of(s) \cap At("user_prompt") : Opens(g)}}

TurnAnatomy == UNION {TurnsOf(s) : s \in Sessions}

InWindow(t, ts) == t.start <= ts /\ ts <= t.end

CallsIn(t) == {p \in PairToolCalls : p.sid = t.sid /\ InWindow(t, p.start)}
EditsIn(t) == {p \in CallsIn(t) : p.tool \in EditTools}
WaitsIn(t) == {w \in PermissionWaits : w.sid = t.sid /\ InWindow(t, w.ts)}
FlowsIn(t) == {e.id : e \in {x \in At("api_response_end") : InWindow(t, x.ts) /\ Mine(x.id, t.sid)}}

-----------------------------------------------------------------------------
(* session_stories and rework.                                             *)

\* Its window is from the first to the last event of the session.
Story(s) ==
    LET during == {x \in At("api_response_end") : \E f, g \in Of(s) : f.ts <= x.ts /\ x.ts <= g.ts}
    IN  [turns |-> TurnsOf(s), flows |-> {x.id : x \in {y \in during : Mine(y.id, s)}},
         tools |-> Profile({p \in PairToolCalls : p.sid = s})]

\* The edits of a file, of the whole list and of the turn that has most of them.
Rework(file) ==
    LET edits == {p \in PairToolCalls : p.tool \in EditTools /\ p.file = file}
    IN  [edits |-> Cardinality(edits),
         worst |-> Max({0} \cup {Cardinality(edits \cap CallsIn(t)) : t \in TurnAnatomy})]

-----------------------------------------------------------------------------
(* Properties.                                                             *)

SameKey(c, d) == c.sid = d.sid /\ c.tool = d.tool

Overlap(c, d) == /\ c # d /\ SameKey(c, d)
                 /\ c.end = 0 \/ d.start < c.end
                 /\ d.end = 0 \/ c.start < d.end

Ended == {c \in calls : c.end # 0}
Exact(c) == [sid |-> c.sid, tool |-> c.tool, file |-> c.file, start |-> c.start, end |-> c.end]

\* No event is in two pairs.  Where the hooks carry use ids, the pairs are the
\* calls both of whose hooks arrived.  Where they do not, a call is still measured
\* exactly if no other of its session and tool ran at the time, whatever hooks of
\* others were lost; and calls that ran side by side may swap their ends, but once
\* they are all back, with no hook lost, the number and the total duration that tool
\* profiles and session stories show are the true ones.
CallsMeasured ==
    /\ \A p, q \in PairToolCalls : p # q => p.start # q.start /\ p.end # q.end
    /\ {p \in PairToolCalls : p.sid \in identified} =
           {Exact(c) : c \in {d \in Ended : d.heard /\ d.sid \in identified}}
    /\ \A c \in Ended : c.heard /\ (\A d \in calls : ~Overlap(c, d)) => Exact(c) \in PairToolCalls
    /\ lost = 0 =>
           /\ \A tool \in Tools :
                  LET used == {c \in calls : c.tool = tool} IN
                  used \subseteq Ended => ToolProfile(tool) = Profile(used)
           /\ \A s \in Sessions :
                  Running(s) = {} => Story(s).tools = Profile({c \in calls : c.sid = s})

\* If no hook was lost, a permission wait is never measured longer than it was,
\* and exactly if nothing else of the session started meanwhile; a wait that began
\* in a turn ends in it; and waits of one session, of any kind, that overlap end
\* together, so that counting the longest of them counts the time once.
WaitsNest ==
    lost = 0 =>
        /\ \A a \in asked : a.until # 0 =>
               \E w \in PermissionWaits :
                   /\ w.sid = a.sid /\ w.ts = a.ts /\ w.until <= a.until
                   /\ (\A c \in calls : c.sid = a.sid => ~(a.ts < c.start /\ c.start < a.until))
                          => w.until = a.until
        /\ \A t \in TurnAnatomy : t.complete => \A w \in WaitsIn(t) : w.until <= t.end
        /\ \A v, w \in PermissionWaits \cup InputWaits \cup ThinkTimes :
               v.sid = w.sid /\ v.ts < w.ts /\ w.ts < v.until => v.until = w.until

Span(s, start, end) == [sid |-> s, start |-> start, end |-> end]

\* The turns that the sessions made, the open ones up to now.
Made == turns \cup {Span(s, open[s], clock) : s \in {q \in Sessions : open[q] # 0}}

\* The turns in which the response of a flow is counted.
Counted(flow) == {t \in TurnAnatomy : flow \in FlowsIn(t)}

\* The calls back that a session made of these tools in the turn t.
Back(t, tools) == {c \in Ended : c.tool \in tools /\ c.sid = t.sid /\ InWindow(t, c.start)}

\* What a session did to a file, in all and in the turn in which it did most.
Edited(file) ==
    LET edits == {c \in calls : c.tool \in EditTools /\ c.file = file}
    IN  [edits |-> Cardinality(edits),
         worst |-> Max({0} \cup {Cardinality(edits \cap Back(t, EditTools)) : t \in Made})]

\* The turns of a session are apart, and they are the real ones if no hook was lost.
\* Then each call of a session's story is in one of its turns, a turn counts as many
\* edits as have come back of those made in it, and once all edits are back, rework
\* counts for each file what was done to it; before that two edits side by side may
\* have swapped their files.  A response whose session is known is counted in the
\* turn of its session that it came in and in that session's story, and in no other,
\* however the sessions overlap; one whose session is not known, at most once for
\* each session.
TurnsShareNothing ==
    LET measured == TurnAnatomy IN
    /\ \A t, u \in measured : t # u /\ t.sid = u.sid => t.end < u.start \/ u.end < t.start
    /\ lost = 0 =>
           /\ {Span(t.sid, t.start, t.end) : t \in {u \in measured : u.complete}} = turns
           /\ \A t \in measured : ~t.complete => t.start = open[t.sid]
           /\ \A s \in Sessions :
                  LET story == Story(s) IN
                  SumFunction([t \in story.turns |-> Cardinality(CallsIn(t))]) = story.tools.calls
           /\ \A t \in measured : Cardinality(EditsIn(t)) = Cardinality(Back(t, EditTools))
           /\ {c \in calls : c.tool \in EditTools} \subseteq Ended =>
                  \A file \in Files : Rework(file) = Edited(file)
    /\ \A e \in At("api_response_end") :
           LET s == responses[e.id]
               counted == Counted(e.id)
           IN
           /\ Joined(e.id) # {} =>
                  /\ \A t \in counted : t.sid = s /\ e.id \in Story(s).flows
                  /\ \A q \in Sessions \ {s} : e.id \notin Story(q).flows
                  /\ lost = 0 => {t.start : t \in counted} =
                                     {t.start : t \in {u \in Made : /\ u.sid = s /\ u.start < e.ts
                                                                    /\ e.ts <= u.end}}
           /\ \A t, u \in counted : t.sid = u.sid => t = u
=============================================================================
