------------------------------- MODULE Proxy -------------------------------
(***************************************************************************)
(* The mitmproxy addon of cia/proxy.py: what it keeps of the flows in      *)
(* flight and which events it emits for each.                              *)
(*                                                                         *)
(* mitmproxy calls, for each flow, request, responseheaders, the stream    *)
(* transformer for every chunk if there is one, and response; a flow that  *)
(* fails gets no further call, as the addon has no error hook.  Hooks of   *)
(* different flows interleave; each runs to its end.  The parser of a      *)
(* streamed answer is that of SSEParser, reduced to the two messages that  *)
(* frame an answer.                                                        *)
(***************************************************************************)
EXTENDS Integers, SequencesExt

CONSTANTS Flows,
          Kinds,   \* the kinds of flow to look at, among those of Traits
          Cap      \* the entries _req_info may hold before one is evicted, 512

\* What the hooks ask of a flow: whether _is_anthropic, whether the answer is
\* an SSE stream or an HTTP error, whether the catalog's category for it
\* is_inference_traffic, and its endpoint.
Traits ==
    LET Trait(a, s, e, i, p) ==
            [anthropic |-> a, sse |-> s, error |-> e, inference |-> i, path |-> p]
    IN [messages_sse   |-> Trait(TRUE, TRUE, FALSE, TRUE, "messages"),
        messages_json  |-> Trait(TRUE, FALSE, FALSE, TRUE, "messages"),
        messages_error |-> Trait(TRUE, FALSE, TRUE, TRUE, "messages"),
        count_tokens   |-> Trait(TRUE, FALSE, FALSE, TRUE, "count_tokens"),
        count_error    |-> Trait(TRUE, FALSE, TRUE, TRUE, "count_tokens"),
        batches        |-> Trait(TRUE, FALSE, FALSE, TRUE, "messages/batches"),
        check_in       |-> Trait(TRUE, FALSE, FALSE, FALSE, "api"),
        check_in_sse   |-> Trait(TRUE, TRUE, FALSE, FALSE, "api"),
        other_host     |-> Trait(FALSE, TRUE, FALSE, FALSE, "any")]

ASSUME KindsAssumption == Kinds \subseteq DOMAIN Traits
ASSUME CapAssumption == Cap \in Nat

VARIABLES kind,     \* the kind of each flow
          at,       \* its last hook: "new", "request", "headers", "response", "failed"
          reqInfo,  \* _req_info: the flows it has an entry for, oldest first
          parsers,  \* _parsers: the flows that have a parser
          answer,   \* what the parser was fed: "none", "started", then "stopped", or
                    \*   "cut" when message_stop is still in its buffer
          out,      \* the events emitted for each flow, in order
          asked     \* history: the flows requested, in order

vars == <<kind, at, reqInfo, parsers, answer, out, asked>>

Init == /\ kind \in [Flows -> Kinds]
        /\ at = [f \in Flows |-> "new"]
        /\ reqInfo = <<>>
        /\ parsers = {}
        /\ answer = [f \in Flows |-> "none"]
        /\ out = [f \in Flows |-> <<>>]
        /\ asked = <<>>

Is(f) == Traits[kind[f]]
Emission(phase, timed) == [phase |-> phase, timed |-> timed]
Emit(f, events) == out' = [out EXCEPT ![f] = @ \o events]

-----------------------------------------------------------------------------
(* The hooks.                                                              *)

\* Mutant: the newest entries are evicted.
Evict_Newest == SubSeq(reqInfo, 1, IF Len(reqInfo) > Cap THEN Cap ELSE Len(reqInfo))

\* The entries left when the oldest past the bound are gone.
Evict == SubSeq(reqInfo, IF Len(reqInfo) > Cap THEN Len(reqInfo) - Cap + 1 ELSE 1, Len(reqInfo))

Request(f) ==
    /\ at[f] = "new"
    /\ at' = [at EXCEPT ![f] = "request"]
    /\ reqInfo' = Append(Evict, f)
    /\ asked' = Append(asked, f)
    /\ IF Is(f).anthropic /\ Is(f).path = "count_tokens"
       THEN Emit(f, <<Emission("tokenizer_start", TRUE)>>)
       ELSE UNCHANGED out
    /\ UNCHANGED <<kind, parsers, answer>>

ResponseHeaders(f) ==
    /\ at[f] = "request"
    /\ at' = [at EXCEPT ![f] = "headers"]
    /\ parsers' = IF Is(f).anthropic /\ Is(f).sse THEN parsers \cup {f} ELSE parsers
    /\ UNCHANGED <<kind, reqInfo, answer, out, asked>>

\* A chunk that holds message_start; only inference streams have messages.
Start(f) ==
    /\ at[f] = "headers" /\ f \in parsers /\ Is(f).inference
    /\ answer[f] = "none"
    /\ answer' = [answer EXCEPT ![f] = "started"]
    /\ Emit(f, <<Emission("api_request_start", TRUE)>>)
    /\ UNCHANGED <<kind, at, reqInfo, parsers, asked>>

\* A chunk that holds message_stop, with the blank line that ends it or not.
Stop(f) ==
    /\ at[f] = "headers" /\ f \in parsers
    /\ answer[f] = "started"
    /\ \/ /\ answer' = [answer EXCEPT ![f] = "stopped"]
          /\ Emit(f, <<Emission("api_response_end", TRUE)>>)
       \/ /\ answer' = [answer EXCEPT ![f] = "cut"]
          /\ UNCHANGED out
    /\ UNCHANGED <<kind, at, reqInfo, parsers, asked>>

\* What flushing the parser emits.
Flushed(f) == IF answer[f] = "cut" THEN <<Emission("api_response_end", TRUE)>> ELSE <<>>

AnswerPhases(f) ==
    CASE ~(Is(f).anthropic /\ Is(f).inference) -> <<"network_request">>
      [] Is(f).anthropic /\ Is(f).inference /\ Is(f).error -> <<"api_request_error">>
      [] OTHER -> CASE Is(f).path = "count_tokens" -> <<"tokenizer_end">>
                    [] Is(f).path = "messages" -> <<"api_request_start", "api_response_end">>
                    [] OTHER -> <<>>

Timed(f, phases) == [k \in DOMAIN phases |-> Emission(phases[k], f \in Range(reqInfo))]

\* Mutant: a flow whose entry was evicted is taken for one never requested.
Answered_Known(f) == IF f \in Range(reqInfo) THEN Timed(f, AnswerPhases(f)) ELSE <<>>

\* The events for an answer that was not streamed.  Its duration is unknown when
\* the entry of the flow was evicted.
Answered(f) == Timed(f, AnswerPhases(f))

\* The entries left when that of f, if it has one, is popped.
Without(f) ==
    IF f \in Range(reqInfo)
    THEN RemoveAt(reqInfo, CHOOSE i \in DOMAIN reqInfo : reqInfo[i] = f)
    ELSE reqInfo

\* Mutant: the parser stays in the table.
Response_KeepsParser(f) ==
    /\ at[f] = "headers"
    /\ at' = [at EXCEPT ![f] = "response"]
    /\ reqInfo' = Without(f)
    /\ Emit(f, IF f \in parsers THEN Flushed(f) ELSE Answered(f))
    /\ UNCHANGED <<kind, parsers, answer, asked>>

Response(f) ==
    /\ at[f] = "headers"
    /\ at' = [at EXCEPT ![f] = "response"]
    /\ reqInfo' = Without(f)
    /\ parsers' = parsers \ {f}
    /\ Emit(f, IF f \in parsers THEN Flushed(f) ELSE Answered(f))
    /\ UNCHANGED <<kind, answer, asked>>

\* mitmproxy reports the error to no one.
Fail(f) ==
    /\ at[f] \in {"request", "headers"}
    /\ at' = [at EXCEPT ![f] = "failed"]
    /\ UNCHANGED <<kind, reqInfo, parsers, answer, out, asked>>

Next == \E f \in Flows : \/ Request(f) \/ ResponseHeaders(f) \/ Start(f) \/ Stop(f)
                         \/ Response(f) \/ Fail(f)

Spec == Init /\ [][Next]_vars

-----------------------------------------------------------------------------
(* Properties.                                                             *)

Phases(f) == [k \in DOMAIN out[f] |-> out[f][k].phase]

\* The events a flow should give, by docs/event-schema.md.
Documented(f) ==
    LET tokenizer == IF Is(f).path = "count_tokens" THEN <<"tokenizer_start">> ELSE <<>>
        end == IF Is(f).path = "count_tokens" THEN <<"tokenizer_end">>
               ELSE IF Is(f).path = "messages" THEN <<"api_request_start", "api_response_end">>
               ELSE <<>>
    IN IF ~Is(f).inference THEN <<"network_request">>
       ELSE tokenizer \o (IF Is(f).error THEN <<"api_request_error">> ELSE end)

\* The server has sent all of the answer.
Whole(f) == at[f] = "response" /\ (Is(f).sse /\ Is(f).inference => answer[f] \in {"stopped", "cut"})

\* A check-in answered with a stream has a parser, which finds no message in it;
\* the response hook takes the flow for one whose events the parser has emitted.
Swallowed(f) == Is(f).anthropic /\ Is(f).sse /\ ~Is(f).inference

\* A flow gives its events in order, none of them twice, and all of them when
\* its answer is whole: whichever hooks of other flows came in between, and
\* whether or not its entry was evicted.  The one exception is a check-in answered
\* with a stream, which gives none, against docs/event-schema.md:98-101: "Every HTTP
\* flow through the proxy that is *not* an inference or tokenizer call [...] is
\* emitted as a single `network_request` event when the response completes".
EventsOfFlow ==
    \A f \in Flows :
        /\ IsPrefix(Phases(f), Documented(f))
        /\ Whole(f) => Phases(f) = IF Swallowed(f) THEN <<>> ELSE Documented(f)

\* More than Cap requests were made after that of f.
Outrun(f) == \E k \in DOMAIN asked : asked[k] = f /\ Len(asked) - k > Cap

\* Flows that never see a response leave at most Cap + 1 entries behind, and a
\* flow loses its entry, and its events their duration, only to more than Cap
\* requests made after its own.
OldestEvictedFirst ==
    /\ Len(reqInfo) <= Cap + 1
    /\ \A f \in Flows :
           /\ at[f] \in {"request", "headers"} /\ f \notin Range(reqInfo) => Outrun(f)
           /\ (\E k \in DOMAIN out[f] : ~out[f][k].timed) => Outrun(f)

\* An answered flow leaves nothing behind, and one in flight has its parser from
\* the headers to the answer.
NothingLeftBehind ==
    \A f \in Flows :
        /\ at[f] = "response" => f \notin parsers /\ f \notin Range(reqInfo)
        /\ at[f] = "headers" /\ Is(f).anthropic /\ Is(f).sse => f \in parsers
=============================================================================
