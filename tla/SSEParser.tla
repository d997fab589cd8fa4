----------------------------- MODULE SSEParser -----------------------------
(***************************************************************************)
(* The parser of one streamed response (cia/sse_parser.py): it turns the   *)
(* messages of an Anthropic SSE stream into events, and keeps what the     *)
(* summary in api_response_end is computed from.                           *)
(*                                                                         *)
(* The server sends message_start, then its content blocks one after the   *)
(* other (start, deltas, stop), then message_delta and message_stop, and   *)
(* may stop anywhere.  A message the parser cannot decode is skipped; that *)
(* is how one is lost here.  How the bytes are cut into messages is        *)
(* SSEFraming.  Lengths are in characters, times in ticks of a clock that  *)
(* never goes back.                                                        *)
(***************************************************************************)
EXTENDS Integers, SequencesExt, FiniteSetsExt

CONSTANTS Blocks,       \* how many content blocks the server may send
          Types,        \* the types of block it sends, among AllTypes
          Sizes,        \* lengths of the text in a delta
          MaxDeltas,    \* bound on the deltas of a block
          MaxTime,      \* bound on the clock
          MaxLost,      \* bound on the messages that cannot be decoded
          Interval,     \* progress_interval_s
          SampleChars   \* CIA_THINKING_SAMPLE_CHARS, with capture enabled

AllTypes == {"thinking", "text", "tool_use", "other"}   \* other: redacted_thinking, ...

ASSUME TypesAssumption == Types \subseteq AllTypes
ASSUME SizesAssumption == Sizes \subseteq Nat \ {0} /\ IsFiniteSet(Sizes)
ASSUME BoundsAssumption ==
    {Blocks, MaxDeltas, MaxTime, MaxLost, Interval, SampleChars} \subseteq Nat

Indexes == 0..(Blocks - 1)
Kinds == {"text", "input_json", "thinking", "signature"}
None == -1

VARIABLES now,           \* time.time()
          started,       \* _message_start_ts (the request was sent at time 0)
          open,          \* _block_open: type and start of each open block
          chars,         \* _block_chars
          signed,        \* _block_signed
          sample,        \* _block_text: the length of the text kept
          blocks,        \* _blocks: the completed blocks
          thinkingEnd,   \* _last_thinking_end_ts
          firstToken,    \* _first_token_ts
          firstText,     \* _first_text_token_ts
          lastText,      \* _last_text_token_ts
          total,         \* _thinking_ms, _thinking_chars, _thinking_blocks, ...
          lastProgress,  \* _last_progress_ts
          stopped,       \* _stopped
          out,           \* the events emitted
          server,        \* the server: what it sends next
          lost           \* how many messages could not be decoded

tables == <<open, chars, signed, sample, blocks, thinkingEnd>>
timeline == <<started, firstToken, firstText, lastText, lastProgress, stopped>>
vars == <<now, tables, timeline, total, out, server, lost>>

Closed == [type |-> "none", start |-> 0]

Init ==
    /\ now = 0
    /\ open = [i \in Indexes |-> Closed]
    /\ chars = [i \in Indexes |-> 0]
    /\ signed = [i \in Indexes |-> FALSE]
    /\ sample = [i \in Indexes |-> 0]
    /\ blocks = <<>>
    /\ thinkingEnd = None
    /\ started = None
    /\ firstToken = None
    /\ firstText = None
    /\ lastText = None
    /\ lastProgress = None
    /\ stopped = FALSE
    /\ total = [ms |-> 0, chars |-> 0, blocks |-> 0, interrupted |-> FALSE, out |-> 0]
    /\ out = <<>>
    /\ server = [at |-> "before", index |-> 0, type |-> "none", deltas |-> 0]
    /\ lost = 0

-----------------------------------------------------------------------------
(* The handlers.                                                           *)

OnMessageStart ==
    /\ started' = now
    /\ out' = Append(out, [phase |-> "request_start", ttfb |-> now])
    /\ UNCHANGED <<tables, firstToken, firstText, lastText, lastProgress, stopped, total>>

\* What is emitted at the start of a block; gap is thinking_to_tool_ms.
Started(i, type, gap) ==
    CASE type = "thinking" -> <<[phase |-> "thinking_start", index |-> i]>>
      [] type \in {"text", "tool_use"} ->
             <<[phase |-> "generation_start", index |-> i, ts |-> now, gap |-> gap]>>
      [] OTHER -> <<>>

\* The time since the last thinking block ended, which a tool_use block takes.
Gap(type) == IF type = "tool_use" /\ thinkingEnd # None THEN now - thinkingEnd ELSE None

\* Mutant: the tool call leaves the end for the next one.
OnBlockStart_KeepsEnd(i, type) ==
    /\ open' = [open EXCEPT ![i] = [type |-> type, start |-> now]]
    /\ out' = out \o Started(i, type, Gap(type))
    /\ UNCHANGED <<chars, signed, sample, blocks, thinkingEnd, timeline, total>>

OnBlockStart(i, type) ==
    /\ open' = [open EXCEPT ![i] = [type |-> type, start |-> now]]
    /\ thinkingEnd' = IF Gap(type) # None THEN None ELSE thinkingEnd
    /\ out' = out \o Started(i, type, Gap(type))
    /\ UNCHANGED <<chars, signed, sample, blocks, timeline, total>>

\* kind is text_delta, input_json_delta, thinking_delta or signature_delta.
OnBlockDelta(i, kind, n) ==
    /\ IF firstToken = None
       THEN /\ firstToken' = now
            /\ out' = Append(out, [phase |-> "first_token", ttft |-> now])
       ELSE UNCHANGED <<firstToken, out>>
    /\ firstText' = IF kind = "text" /\ firstText = None THEN now ELSE firstText
    /\ lastText' = IF kind \in {"text", "input_json"} THEN now ELSE lastText
    /\ chars' = [chars EXCEPT ![i] = @ + n]
    /\ total' = [total EXCEPT !.out = @ + n,
                              !.chars = IF kind = "thinking" THEN @ + n ELSE @]
    /\ sample' = [sample EXCEPT ![i] = IF kind = "thinking" THEN Min({@ + n, SampleChars}) ELSE @]
    /\ signed' = [signed EXCEPT ![i] = @ \/ kind = "signature"]
    /\ UNCHANGED <<open, blocks, thinkingEnd, started, lastProgress, stopped>>

\* The event that ends the thinking block i, open until now.
ThinkingEnd(i, interrupted) ==
    [phase |-> "thinking_end", index |-> i, ts |-> now, dur |-> now - open[i].start, chars |-> chars[i],
     tokens |-> chars[i] \div 4, signed |-> signed[i], interrupted |-> interrupted,
     truncated |-> chars[i] > sample[i]]

\* Mutant: the block is read from _block_open, not popped.
ForgetThinking_KeepsOpen(ended) ==
    /\ chars' = [i \in Indexes |-> IF i \in ended THEN 0 ELSE chars[i]]
    /\ signed' = [i \in Indexes |-> IF i \in ended THEN FALSE ELSE signed[i]]
    /\ sample' = [i \in Indexes |-> IF i \in ended THEN 0 ELSE sample[i]]
    /\ thinkingEnd' = IF ended # {} THEN now ELSE thinkingEnd
    /\ UNCHANGED open

\* _emit_thinking_end forgets what it knows of the blocks it reports.
ForgetThinking(ended) ==
    /\ chars' = [i \in Indexes |-> IF i \in ended THEN 0 ELSE chars[i]]
    /\ signed' = [i \in Indexes |-> IF i \in ended THEN FALSE ELSE signed[i]]
    /\ sample' = [i \in Indexes |-> IF i \in ended THEN 0 ELSE sample[i]]
    /\ open' = [i \in Indexes |-> IF i \in ended THEN Closed ELSE open[i]]
    /\ thinkingEnd' = IF ended # {} THEN now ELSE thinkingEnd

\* How long each block has been open.
Elapsed == [i \in Indexes |-> now - open[i].start]

\* Mutants: the duration replaces the sum; it counts from the request.
WithThinking_Latest(ended) ==
    [total EXCEPT !.ms = SumFunctionOnSet(Elapsed, ended), !.blocks = @ + Cardinality(ended)]

WithThinking_FromRequest(ended) ==
    [total EXCEPT !.ms = @ + now * Cardinality(ended), !.blocks = @ + Cardinality(ended)]

\* The counters once the blocks ended are counted.
WithThinking(ended) ==
    [total EXCEPT !.ms = @ + SumFunctionOnSet(Elapsed, ended), !.blocks = @ + Cardinality(ended)]

OnBlockStop(i) ==
    /\ open[i] # Closed
    /\ blocks' = Append(blocks, [type |-> open[i].type, index |-> i, interrupted |-> FALSE])
    /\ IF open[i].type = "thinking"
       THEN /\ ForgetThinking({i})
            /\ total' = WithThinking({i})
            /\ out' = Append(out, ThinkingEnd(i, FALSE))
       ELSE /\ open' = [open EXCEPT ![i] = Closed]
            /\ IF open[i].type = "other"
               THEN UNCHANGED <<chars, out>>
               ELSE /\ chars' = [chars EXCEPT ![i] = 0]
                    /\ out' = Append(out, [phase |-> "generation_end", index |-> i])
            /\ UNCHANGED <<signed, sample, thinkingEnd, total>>
    /\ UNCHANGED timeline

\* The stop of a block that is not open is ignored.
OnStrayStop(i) ==
    /\ open[i] = Closed
    /\ UNCHANGED <<tables, timeline, total, out>>

\* Mutant: blocks that are still open are left alone.
StillThinking_None == {}

\* The thinking blocks that message_stop cuts off.
StillThinking == {i \in Indexes : open[i].type = "thinking"}

\* The order in which the blocks S were opened.
Ordered(S) == {ids \in [1..Cardinality(S) -> S] :
                   Range(ids) = S /\ \A j, k \in DOMAIN ids : j < k => ids[j] < ids[k]}

\* The summary is computed from the counters, after the thinking blocks that
\* are still open have been ended as interrupted.
OnMessageStop ==
    LET sum == WithThinking(StillThinking)
        cut == total.interrupted \/ StillThinking # {}
    IN \E ids \in Ordered(StillThinking) :
       /\ stopped' = TRUE
       /\ blocks' = blocks \o [k \in DOMAIN ids |->
                        [type |-> "thinking", index |-> ids[k], interrupted |-> TRUE]]
       /\ ForgetThinking(StillThinking)
       /\ total' = [sum EXCEPT !.interrupted = cut]
       /\ out' = Append(out \o [k \in DOMAIN ids |-> ThinkingEnd(ids[k], TRUE)],
                        [phase |-> "response_end", ttfb |-> started, ttft |-> firstToken,
                         generation |-> IF firstText # None /\ lastText # None
                                        THEN lastText - firstText ELSE None,
                         total |-> now, thinking |-> sum.ms, blocks |-> sum.blocks,
                         tokens |-> sum.chars \div 4, interrupted |-> cut,
                         content |-> blocks'])
       /\ UNCHANGED <<started, firstToken, firstText, lastText, lastProgress>>

Live == started # None /\ ~stopped

\* Mutant: _last_progress_ts is never advanced.
SinceProgress_NeverAdvanced == now - started

SinceProgress == now - (IF lastProgress = None THEN started ELSE lastProgress)

\* _maybe_emit_progress, which ends every feed.  A feed may hold any number of
\* messages, so it may come after any of them.  One that is not due changes
\* nothing but the default of _last_progress_ts.
FeedReturns ==
    LET types == {open[i].type : i \in Indexes} \ {"none"}
    IN /\ Live
       /\ SinceProgress >= Interval
       /\ lastProgress' = now
       /\ out' = Append(out, [phase |-> "progress", ts |-> now, chars |-> total.out,
                              state |-> IF "thinking" \in types THEN "thinking"
                                        ELSE IF types # {} THEN "responding" ELSE "waiting"])
       /\ UNCHANGED <<now, tables, started, firstToken, firstText, lastText, stopped, total,
                      server, lost>>

-----------------------------------------------------------------------------
(* The server, and the messages that reach the handlers.                   *)

\* The message just sent cannot be decoded.
Lose == /\ lost < MaxLost
        /\ lost' = lost + 1
        /\ UNCHANGED <<tables, timeline, total, out>>

\* The handler runs on the message, or the message is lost.
Sent(Handler) == /\ (Handler /\ UNCHANGED lost) \/ Lose
                 /\ UNCHANGED now

MessageStart ==
    /\ server.at = "before"
    /\ server' = [server EXCEPT !.at = "between"]
    /\ Sent(OnMessageStart)

BlockStart(type) ==
    /\ server.at = "between"
    /\ server.index \in Indexes
    /\ server' = [server EXCEPT !.at = "inside", !.type = type, !.deltas = 0]
    /\ Sent(OnBlockStart(server.index, type))

\* A thinking block ends with its signature.
BlockDelta(kind, n) ==
    /\ server.at = "inside"
    /\ server.deltas < MaxDeltas
    /\ \/ kind \in {"thinking", "signature"} /\ server.type = "thinking"
       \/ kind = "text" /\ server.type = "text"
       \/ kind = "input_json" /\ server.type \in {"tool_use", "other"}
    /\ kind = "signature" <=> n = 0
    /\ server' = [server EXCEPT !.deltas = IF kind = "signature" THEN MaxDeltas ELSE @ + 1]
    /\ Sent(OnBlockDelta(server.index, kind, n))

BlockStop ==
    /\ server.at = "inside"
    /\ server' = [server EXCEPT !.at = "between", !.index = @ + 1]
    /\ Sent(OnBlockStop(server.index) \/ OnStrayStop(server.index))

\* max_tokens may end the message inside a block.
MessageStop ==
    /\ server.at \in {"between", "inside"}
    /\ server' = [server EXCEPT !.at = "done"]
    /\ Sent(OnMessageStop)

Tick == /\ now < MaxTime
        /\ ~stopped
        /\ now' = now + 1
        /\ UNCHANGED <<tables, timeline, total, out, server, lost>>

Next == \/ MessageStart
        \/ \E type \in Types : BlockStart(type)
        \/ \E kind \in Kinds, n \in Sizes \cup {0} : BlockDelta(kind, n)
        \/ BlockStop
        \/ MessageStop
        \/ FeedReturns
        \/ Tick

Spec == Init /\ [][Next]_vars

-----------------------------------------------------------------------------
(* Properties.                                                             *)

\* Where the events of a phase are in the list.
At(phase) == {k \in DOMAIN out : out[k].phase = phase}

Ends == At("thinking_end")
Summary == Last(out)
Times == None..MaxTime

\* The type invariant.
TypeOK ==
    /\ now \in 0..MaxTime
    /\ {started, thinkingEnd, firstToken, firstText, lastText, lastProgress} \subseteq Times
    /\ open \in [Indexes -> [type : Types \cup {"none"}, start : 0..MaxTime]]
    /\ chars \in [Indexes -> Nat] /\ sample \in [Indexes -> 0..SampleChars]
    /\ signed \in [Indexes -> BOOLEAN]
    /\ \A b \in ToSet(blocks) : b.type \in Types /\ b.index \in Indexes
    /\ total \in [ms : Nat, chars : Nat, blocks : 0..Blocks, interrupted : BOOLEAN, out : Nat]
    /\ stopped \in BOOLEAN
    /\ lost \in 0..MaxLost

\* Every thinking block that was started ends exactly once, after its start, and
\* it has ended when the response has: analytics pairs the two events.  This holds
\* whatever message was lost, for _on_message_stop ends the blocks left open.
ThinkingEndsOnce ==
    LET ends == Ends
        starts == At("thinking_start")
    IN /\ \A j, k \in ends : out[j].index = out[k].index => j = k
       /\ \A k \in ends : \E j \in starts : j < k /\ out[j].index = out[k].index
       /\ stopped => \A j \in starts : \E k \in ends : out[j].index = out[k].index

\* The summary of api_response_end agrees with the api_thinking_end events
\* before it: their number, their durations, whether one was cut, and the
\* order of content_blocks; its token estimate, taken of all the characters,
\* is at least the sum of theirs, by less than one token for each.
SummaryAddsUp ==
    stopped =>
        LET content == Summary.content
            Thinking == {m \in DOMAIN content : content[m].type = "thinking"}
            ends == Ends
            slack == Summary.tokens - SumFunction([k \in Ends |-> out[k].tokens])
        IN /\ Summary.phase = "response_end"
           /\ Summary.blocks = Cardinality(ends)
           /\ Summary.thinking = SumFunction([k \in ends |-> out[k].dur])
           /\ Summary.interrupted <=> \E k \in ends : out[k].interrupted
           /\ {<<content[m].index, content[m].interrupted>> : m \in Thinking} =
                  {<<out[k].index, out[k].interrupted>> : k \in ends}
           /\ \A m, n \in Thinking, j, k \in ends :
                  content[m].index = out[j].index /\ content[n].index = out[k].index =>
                      (m < n <=> j < k)
           /\ lost = 0 => 0 <= slack /\ (IF ends = {} THEN slack = 0 ELSE slack < Cardinality(ends))

\* The latencies of the summary nest: the first byte, the first token, the
\* text, the end; and thinking and text take no more than the whole.  A lost
\* message may leave a block open too long, so this is of a whole stream.
LatenciesNest ==
    stopped /\ lost = 0 =>
        /\ 0 <= Summary.ttfb
        /\ Summary.ttft # None => Summary.ttfb <= Summary.ttft /\ Summary.ttft <= Summary.total
        /\ Summary.generation # None =>
               0 <= Summary.generation /\ Summary.ttft + Summary.generation <= Summary.total
        /\ Summary.thinking + Summary.ttfb <= Summary.total

\* Two progress events are at least progress_interval_s apart, the first that
\* long after message_start, the count they show never goes down, and none comes
\* after api_response_end, though feed goes on calling _maybe_emit_progress.
ProgressIsPaced ==
    /\ LET reports == At("progress")
       IN /\ \A k \in reports : out[k].ts >= started + Interval
          /\ \A j, k \in reports :
                 j < k => out[k].ts >= out[j].ts + Interval /\ out[j].chars <= out[k].chars
    /\ stopped => Last(out).phase = "response_end"

\* A thinking-to-tool gap is the time since the latest thinking block ended,
\* and each end is measured from once: two tool calls after one thinking block
\* do not both count it.
GapMeasuredOnce ==
    \A k \in DOMAIN out :
        out[k].phase = "generation_start" /\ out[k].gap # None =>
            \E j \in 1..(k - 1) :
                /\ out[j].phase = "thinking_end"
                /\ out[k].gap = out[k].ts - out[j].ts
                /\ \A m \in (j + 1)..(k - 1) :
                       /\ out[m].phase # "thinking_end"
                       /\ out[m].phase = "generation_start" => out[m].gap = None
=============================================================================
