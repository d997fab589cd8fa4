---------------------------- MODULE Proxy_proofs -----------------------------
(***************************************************************************)
(* What holds of the proxy addon for every number of flows and every bound *)
(* on the entries of _req_info.                                            *)
(***************************************************************************)
EXTENDS Proxy, SequenceTheorems, TLAPS

PhaseNames == {"tokenizer_start", "tokenizer_end", "api_request_start", "api_response_end",
               "api_request_error", "network_request"}
Events == [phase : PhaseNames, timed : BOOLEAN]

TypeOK ==
    /\ kind \in [Flows -> Kinds]
    /\ at \in [Flows -> {"new", "request", "headers", "response", "failed"}]
    /\ reqInfo \in Seq(Flows)
    /\ parsers \subseteq Flows
    /\ answer \in [Flows -> {"none", "started", "stopped", "cut"}]
    /\ out \in [Flows -> Seq(Events)]
    /\ asked \in Seq(Flows)

\* Behind the entry of a flow come only those of later requests: as many
\* requests at least followed its own as entries follow its entry.
EntriesInv ==
    /\ IsInjective(reqInfo)
    /\ \A i \in DOMAIN reqInfo :
           /\ at[reqInfo[i]] \in {"request", "headers", "failed"}
           /\ \E k \in DOMAIN asked :
                  asked[k] = reqInfo[i] /\ Len(asked) - k >= Len(reqInfo) - i
    /\ OldestEvictedFirst

\* A flow has a parser from its headers on, if its answer is a stream.
ParsersInv ==
    \A f \in Flows :
        /\ at[f] = "headers" => (f \in parsers <=> Is(f).anthropic /\ Is(f).sse)
        /\ f \in parsers => at[f] \in {"headers", "failed"}

-----------------------------------------------------------------------------
(* The entries.                                                            *)

\* What Evict leaves is the end of _req_info: all of it, or the last Cap entries.
LEMMA EvictKeeps ==
    ASSUME TypeOK
    PROVE  /\ Evict \in Seq(Flows)
           /\ Len(Evict) = IF Len(reqInfo) > Cap THEN Cap ELSE Len(reqInfo)
           /\ \A i \in 1..Len(Evict) : Evict[i] = reqInfo[i + (Len(reqInfo) - Len(Evict))]
  <1> DEFINE m == IF Len(reqInfo) > Cap THEN Len(reqInfo) - Cap + 1 ELSE 1
             n == Len(reqInfo)
  <1>1. /\ m \in Nat \ {0} /\ n \in Nat
        /\ \A i \in m..n : reqInfo[i] \in Flows
    BY CapAssumption DEF TypeOK
  <1>2. Evict = SubSeq(reqInfo, m, n)
    BY DEF Evict
  <1> HIDE DEF m, n
  <1>3. /\ SubSeq(reqInfo, m, n) \in Seq(Flows)
        /\ Len(SubSeq(reqInfo, m, n)) = IF m <= n THEN n - m + 1 ELSE 0
        /\ \A i \in 1..n - m + 1 : SubSeq(reqInfo, m, n)[i] = reqInfo[m + i - 1]
    BY <1>1, SubSeqProperties
  <1>4. n = Len(reqInfo) /\ m = IF n > Cap THEN n - Cap + 1 ELSE 1
    BY DEF m, n
  <1>5. Len(Evict) = IF n > Cap THEN Cap ELSE n
    <2>1. CASE n > Cap
      BY <1>1, <1>2, <1>3, <1>4, <2>1, CapAssumption
    <2>2. CASE ~(n > Cap)
      BY <1>1, <1>2, <1>3, <1>4, <2>2, CapAssumption
    <2> QED
      BY <2>1, <2>2
  <1>6. /\ n - m + 1 = Len(Evict)
        /\ \A i \in 1..Len(Evict) : m + i - 1 = i + (n - Len(Evict))
    BY <1>1, <1>4, <1>5, CapAssumption
  <1>7. \A i \in 1..Len(Evict) : Evict[i] = reqInfo[i + (n - Len(Evict))]
    BY ONLY <1>2, <1>3, <1>6
  <1>8. Evict \in Seq(Flows)
    BY ONLY <1>2, <1>3
  <1> QED
    BY ONLY <1>4, <1>5, <1>7, <1>8

\* Without its element at h a sequence is one shorter, and those behind h move up.
LEMMA RemoveAtProperties ==
    ASSUME NEW S, NEW s \in Seq(S), NEW h \in 1..Len(s)
    PROVE  /\ RemoveAt(s, h) \in Seq(S)
           /\ Len(RemoveAt(s, h)) = Len(s) - 1
           /\ \A j \in 1..Len(s) - 1 :
                  RemoveAt(s, h)[j] = IF j < h THEN s[j] ELSE s[j + 1]
  <1> DEFINE n == Len(s)
             a == SubSeq(s, 1, h - 1)
             b == SubSeq(s, h + 1, n)
  <1>1. /\ n \in Nat /\ h \in Nat \ {0} /\ h <= n
        /\ \A i \in 1..n : s[i] \in S
    OBVIOUS
  <1>2. RemoveAt(s, h) = a \o b
    BY DEF RemoveAt
  <1> HIDE DEF n
  <1>3. /\ a \in Seq(S)
        /\ Len(a) = IF 1 <= h - 1 THEN h - 1 - 1 + 1 ELSE 0
        /\ \A i \in 1..h - 1 - 1 + 1 : a[i] = s[1 + i - 1]
    <2>1. \A i \in 1..h - 1 : s[i] \in S
      BY <1>1
    <2> QED
      BY <1>1, <2>1, SubSeqProperties
  <1>4. /\ b \in Seq(S)
        /\ Len(b) = IF h + 1 <= n THEN n - (h + 1) + 1 ELSE 0
        /\ \A i \in 1..n - (h + 1) + 1 : b[i] = s[h + 1 + i - 1]
    <2>1. \A i \in h + 1..n : s[i] \in S
      BY <1>1
    <2> QED
      BY <1>1, <2>1, SubSeqProperties
  <1> HIDE DEF a, b
  <1>5. Len(a) = h - 1 /\ \A i \in 1..h - 1 : a[i] = s[i]
    BY <1>1, <1>3
  <1>6. Len(b) = n - h /\ \A i \in 1..n - h : b[i] = s[h + i]
    <2>1. Len(b) = n - h
      BY <1>1, <1>4
    <2>2. ASSUME NEW i \in 1..n - h
          PROVE  b[i] = s[h + i]
      <3>1. i \in 1..n - (h + 1) + 1 /\ h + 1 + i - 1 = h + i
        BY <1>1
      <3> QED
        BY <1>4, <3>1
    <2> QED
      BY <2>1, <2>2
  <1>7. /\ a \o b \in Seq(S)
        /\ Len(a \o b) = Len(a) + Len(b)
        /\ \A j \in 1..Len(a) + Len(b) :
               (a \o b)[j] = IF j <= Len(a) THEN a[j] ELSE b[j - Len(a)]
    BY <1>3, <1>4, ConcatProperties
  <1>8. Len(a \o b) = n - 1 /\ Len(a) + Len(b) = n - 1
    BY <1>1, <1>5, <1>6, <1>7
  <1>9. ASSUME NEW j \in 1..n - 1
        PROVE  (a \o b)[j] = IF j < h THEN s[j] ELSE s[j + 1]
    <2>1. CASE j < h
      <3>1. j \in 1..h - 1 /\ j <= Len(a)
        BY <1>1, <1>5, <2>1
      <3> QED
        BY <1>5, <1>7, <1>8, <2>1, <3>1
    <2>2. CASE ~(j < h)
      <3>1. /\ j - (h - 1) \in 1..n - h /\ h + (j - (h - 1)) = j + 1
            /\ ~(j <= h - 1)
        BY <1>1, <2>2
      <3> QED
        BY <1>5, <1>6, <1>7, <1>8, <2>2, <3>1
    <2> QED
      BY <2>1, <2>2
  <1> QED
    BY <1>2, <1>7, <1>8, <1>9 DEF n

\* Popping the entry of f leaves all the others, in their order.
LEMMA WithoutKeeps ==
    ASSUME TypeOK, IsInjective(reqInfo), NEW f \in Flows
    PROVE  /\ Without(f) \in Seq(Flows)
           /\ Len(Without(f)) <= Len(reqInfo)
           /\ IsInjective(Without(f))
           /\ Range(Without(f)) = Range(reqInfo) \ {f}
           /\ \A j \in DOMAIN Without(f) : \E i \in DOMAIN reqInfo :
                  /\ Without(f)[j] = reqInfo[i]
                  /\ Len(Without(f)) - j <= Len(reqInfo) - i
  <1>1. CASE f \notin Range(reqInfo)
    BY <1>1 DEF Without, TypeOK
  <1>2. ASSUME f \in Range(reqInfo)
        PROVE  \E h \in 1..Len(reqInfo) : reqInfo[h] = f /\ Without(f) = RemoveAt(reqInfo, h)
    <2> DEFINE h == CHOOSE i \in DOMAIN reqInfo : reqInfo[i] = f
    <2>1. h \in DOMAIN reqInfo /\ reqInfo[h] = f
      BY <1>2 DEF Range
    <2>2. Without(f) = RemoveAt(reqInfo, h)
      BY <1>2 DEF Without
    <2>3. DOMAIN reqInfo = 1..Len(reqInfo)
      BY DEF TypeOK
    <2> QED
      BY <2>1, <2>2, <2>3
  <1>3. ASSUME NEW s \in Seq(Flows), s = reqInfo,
               NEW h \in 1..Len(s), s[h] = f, NEW t, t = RemoveAt(s, h)
        PROVE  /\ t \in Seq(Flows)
               /\ Len(t) <= Len(s)
               /\ IsInjective(t)
               /\ Range(t) = Range(s) \ {f}
               /\ \A j \in DOMAIN t : \E i \in DOMAIN s : t[j] = s[i] /\ Len(t) - j <= Len(s) - i
    <2>1. /\ t \in Seq(Flows) /\ Len(t) = Len(s) - 1
          /\ \A j \in 1..Len(s) - 1 : t[j] = IF j < h THEN s[j] ELSE s[j + 1]
      BY <1>3, RemoveAtProperties
    <2>2. /\ DOMAIN t = 1..Len(s) - 1 /\ DOMAIN s = 1..Len(s)
          /\ Len(s) \in Nat
      BY <2>1
    <2>3. \A i, j \in 1..Len(s) : s[i] = s[j] => i = j
      BY <1>3, <2>2 DEF IsInjective
    <2>4. IsInjective(t)
      <3>1. SUFFICES ASSUME NEW i \in 1..Len(s) - 1, NEW j \in 1..Len(s) - 1, t[i] = t[j]
                     PROVE  i = j
        BY <2>2 DEF IsInjective
      <3>2. /\ i \in 1..Len(s) /\ i + 1 \in 1..Len(s)
            /\ j \in 1..Len(s) /\ j + 1 \in 1..Len(s)
        BY <2>2
      <3> QED
        BY <2>1, <2>3, <3>1, <3>2
    <2>5. ASSUME NEW j \in 1..Len(s) - 1
          PROVE  /\ t[j] \in Range(s) \ {f}
                 /\ \E i \in DOMAIN s : t[j] = s[i] /\ Len(t) - j <= Len(s) - i
      <3>1. CASE j < h
        <4>1. /\ j \in 1..Len(s) /\ j # h /\ t[j] = s[j]
              /\ Len(t) - j <= Len(s) - j
          BY <2>1, <2>2, <3>1
        <4>2. s[j] # f /\ s[j] \in Range(s)
          BY <1>3, <2>2, <2>3, <4>1 DEF Range
        <4> QED
          BY <2>2, <4>1, <4>2
      <3>2. CASE ~(j < h)
        <4>1. /\ j + 1 \in 1..Len(s) /\ j + 1 # h /\ t[j] = s[j + 1]
              /\ Len(t) - j <= Len(s) - (j + 1)
          BY <2>1, <2>2, <3>2
        <4>2. s[j + 1] # f /\ s[j + 1] \in Range(s)
          BY <1>3, <2>2, <2>3, <4>1 DEF Range
        <4> QED
          BY <2>2, <4>1, <4>2
      <3> QED
        BY <3>1, <3>2
    <2>6. ASSUME NEW i \in 1..Len(s), s[i] # f
          PROVE  s[i] \in Range(t)
      <3>1. CASE i < h
        <4>1. i \in 1..Len(s) - 1 /\ t[i] = s[i]
          BY <2>1, <2>2, <3>1
        <4> QED
          BY <2>2, <4>1 DEF Range
      <3>2. CASE i > h
        <4>1. i - 1 \in 1..Len(s) - 1 /\ t[i - 1] = s[i]
          BY <2>1, <2>2, <3>2
        <4> QED
          BY <2>2, <4>1 DEF Range
      <3> QED
        BY <1>3, <2>6, <3>1, <3>2
    <2>7. Range(t) = Range(s) \ {f}
      BY <2>2, <2>5, <2>6 DEF Range
    <2>8. t \in Seq(Flows) /\ Len(t) <= Len(s)
      BY <2>1, <2>2
    <2>9. \A j \in DOMAIN t : \E i \in DOMAIN s : t[j] = s[i] /\ Len(t) - j <= Len(s) - i
      BY <2>2, <2>5
    <2> QED
      BY ONLY <2>4, <2>7, <2>8, <2>9
  <1> QED
    <2>1. CASE f \in Range(reqInfo)
      <3>1. PICK h \in 1..Len(reqInfo) : reqInfo[h] = f /\ Without(f) = RemoveAt(reqInfo, h)
        BY <1>2, <2>1
      <3>2. reqInfo \in Seq(Flows)
        BY DEF TypeOK
      <3> QED
        BY <1>3, <3>1, <3>2
    <2> QED
      BY <1>1, <2>1

\* More requests only take a flow further behind.
LEMMA StaysBehind ==
    ASSUME TypeOK, NEW f \in Flows, NEW r \in Flows, asked' = Append(asked, r)
    PROVE  /\ Outrun(f) => Outrun(f)'
           /\ \A k \in DOMAIN asked : /\ k \in DOMAIN asked'
                                      /\ asked'[k] = asked[k]
                                      /\ Len(asked') - k = Len(asked) - k + 1
  <1>1. /\ asked \in Seq(Flows) /\ Len(asked) \in Nat
        /\ DOMAIN asked = 1..Len(asked) /\ DOMAIN asked' = 1..Len(asked) + 1
        /\ Len(asked') = Len(asked) + 1
        /\ \A k \in 1..Len(asked) : asked'[k] = asked[k]
    BY DEF TypeOK
  <1>2. \A k \in DOMAIN asked : /\ k \in DOMAIN asked'
                                /\ asked'[k] = asked[k]
                                /\ Len(asked') - k = Len(asked) - k + 1
    BY <1>1
  <1>3. ASSUME NEW k \in DOMAIN asked, asked[k] = f, Len(asked) - k > Cap
        PROVE  k \in DOMAIN asked' /\ asked'[k] = f /\ Len(asked') - k > Cap
    BY <1>1, <1>3, CapAssumption
  <1> QED
    BY <1>2, <1>3 DEF Outrun

-----------------------------------------------------------------------------
(* Types.                                                                  *)

\* A sequence of one.
LEMMA Single ==
    ASSUME NEW S, NEW x \in S
    PROVE  <<x>> \in Seq(S) /\ Len(<<x>>) = 1 /\ <<x>>[1] = x
  OBVIOUS

\* What the hooks emit are events.
LEMMA EventsEmitted ==
    ASSUME NEW f \in Flows
    PROVE  /\ Flushed(f) \in Seq(Events) /\ Answered(f) \in Seq(Events)
           /\ <<Emission("tokenizer_start", TRUE)>> \in Seq(Events)
           /\ <<Emission("api_request_start", TRUE)>> \in Seq(Events)
           /\ <<Emission("api_response_end", TRUE)>> \in Seq(Events)
           /\ AnswerPhases(f) \in Seq(PhaseNames)
  <1>1. ASSUME NEW p \in PhaseNames
        PROVE  /\ Emission(p, TRUE) \in Events
               /\ Emission(p, f \in Range(reqInfo)) \in Events
    BY DEF Emission, Events
  <1>2. ASSUME NEW p \in PhaseNames
        PROVE  <<Emission(p, TRUE)>> \in Seq(Events)
    BY <1>1, Single
  <1>3. Flushed(f) \in Seq(Events)
    <2>1. <<Emission("api_response_end", TRUE)>> \in Seq(Events)
      BY <1>2 DEF PhaseNames
    <2> QED
      BY <2>1, EmptySeq DEF Flushed
  <1>4. AnswerPhases(f) \in Seq(PhaseNames)
    <2>1. AnswerPhases(f) \in {<<>>, <<"network_request">>, <<"api_request_error">>,
                               <<"tokenizer_end">>, <<"api_request_start", "api_response_end">>}
      BY DEF AnswerPhases
    <2>2. <<"api_request_start", "api_response_end">> \in Seq(PhaseNames)
      BY DEF PhaseNames
    <2>3. \A p \in PhaseNames : <<p>> \in Seq(PhaseNames)
      BY Single
    <2> QED
      BY <2>1, <2>2, <2>3, EmptySeq DEF PhaseNames
  <1>5. Answered(f) \in Seq(Events)
    <2>1. /\ DOMAIN AnswerPhases(f) = 1..Len(AnswerPhases(f)) /\ Len(AnswerPhases(f)) \in Nat
          /\ \A k \in DOMAIN AnswerPhases(f) : AnswerPhases(f)[k] \in PhaseNames
      BY <1>4
    <2>2. Answered(f) \in [1..Len(AnswerPhases(f)) -> Events]
      BY <1>1, <2>1 DEF Answered, Timed
    <2> QED
      BY <2>1, <2>2, SeqDef
  <1> QED
    BY <1>2, <1>3, <1>4, <1>5 DEF PhaseNames

\* The initial state has the types of TypeOK, ...
LEMMA TypeInit == Init => TypeOK
  BY EmptySeq DEF Init, TypeOK

\* What each hook emits, all of it for its own flow.
LEMMA Emissions ==
    ASSUME NEW f \in Flows
    PROVE  /\ Request(f) => \/ UNCHANGED out
                            \/ Emit(f, <<Emission("tokenizer_start", TRUE)>>)
           /\ Start(f) => Emit(f, <<Emission("api_request_start", TRUE)>>)
           /\ Stop(f) => \/ UNCHANGED out
                         \/ Emit(f, <<Emission("api_response_end", TRUE)>>)
           /\ Response(f) => Emit(f, Flushed(f)) \/ Emit(f, Answered(f))
  BY DEF Request, Start, Stop, Response

\* Emitting for f adds to its own events.
LEMMA EmitAdds ==
    ASSUME TypeOK, NEW f \in Flows, NEW e \in Seq(Events), Emit(f, e)
    PROVE  /\ out' \in [Flows -> Seq(Events)]
           /\ out'[f] = out[f] \o e
           /\ \A g \in Flows \ {f} : out'[g] = out[g]
  <1>1. out[f] \o e \in Seq(Events)
    BY ConcatProperties DEF TypeOK
  <1> QED
    BY <1>1 DEF Emit, TypeOK

\* ... and every step keeps them.
LEMMA TypeStep == TypeOK /\ IsInjective(reqInfo) /\ [Next]_vars => TypeOK'
  <1> SUFFICES ASSUME TypeOK, IsInjective(reqInfo), [Next]_vars
               PROVE  TypeOK'
    OBVIOUS
  <1>1. ASSUME NEW f \in Flows, Request(f)
        PROVE  TypeOK'
    <2>1. out' \in [Flows -> Seq(Events)]
      BY <1>1, Emissions, EmitAdds, EventsEmitted DEF TypeOK
    <2>2. reqInfo' \in Seq(Flows)
      BY <1>1, EvictKeeps, AppendProperties DEF Request
    <2>3. /\ at' = [at EXCEPT ![f] = "request"] /\ asked' = Append(asked, f)
          /\ UNCHANGED <<kind, parsers, answer>>
      BY <1>1 DEF Request
    <2> QED
      BY <2>1, <2>2, <2>3 DEF TypeOK
  <1>2. ASSUME NEW f \in Flows, ResponseHeaders(f)
        PROVE  TypeOK'
    BY <1>2 DEF ResponseHeaders, TypeOK
  <1>3. ASSUME NEW f \in Flows, Start(f)
        PROVE  TypeOK'
    <2>1. out' \in [Flows -> Seq(Events)]
      BY <1>3, Emissions, EmitAdds, EventsEmitted
    <2> QED
      BY <1>3, <2>1 DEF Start, TypeOK
  <1>4. ASSUME NEW f \in Flows, Stop(f)
        PROVE  TypeOK'
    <2>1. out' \in [Flows -> Seq(Events)]
      BY <1>4, Emissions, EmitAdds, EventsEmitted DEF TypeOK
    <2> QED
      BY <1>4, <2>1 DEF Stop, TypeOK
  <1>5. ASSUME NEW f \in Flows, Response(f)
        PROVE  TypeOK'
    <2>1. out' \in [Flows -> Seq(Events)]
      BY <1>5, Emissions, EmitAdds, EventsEmitted
    <2>2. reqInfo' \in Seq(Flows)
      BY <1>5, WithoutKeeps DEF Response
    <2> QED
      BY <1>5, <2>1, <2>2 DEF Response, TypeOK
  <1>6. ASSUME NEW f \in Flows, Fail(f)
        PROVE  TypeOK'
    BY <1>6 DEF Fail, TypeOK
  <1>7. CASE UNCHANGED vars
    BY <1>7 DEF vars, TypeOK
  <1> QED
    BY <1>1, <1>2, <1>3, <1>4, <1>5, <1>6, <1>7 DEF Next

-----------------------------------------------------------------------------
(* The entries, step by step.                                              *)

Untimed(f) == \E k \in DOMAIN out[f] : ~out[f][k].timed

\* An event without a duration was there before, or is among those emitted.
LEMMA UntimedEmitted ==
    ASSUME TypeOK, NEW f \in Flows, NEW e \in Seq(Events), Emit(f, e),
           NEW g \in Flows, Untimed(g)'
    PROVE  Untimed(g) \/ (g = f /\ \E k \in DOMAIN e : ~e[k].timed)
  <1>1. CASE g # f
    BY <1>1, EmitAdds DEF Untimed
  <1>2. CASE g = f
    <2> DEFINE o == out[f]
    <2>1. out'[f] = o \o e /\ o \in Seq(Events)
      BY EmitAdds DEF TypeOK
    <2> HIDE DEF o
    <2>2. PICK k \in DOMAIN (o \o e) : ~(o \o e)[k].timed
      BY <1>2, <2>1 DEF Untimed
    <2>3. /\ k \in 1..Len(o) + Len(e) /\ Len(o) \in Nat /\ Len(e) \in Nat
          /\ (o \o e)[k] = IF k <= Len(o) THEN o[k] ELSE e[k - Len(o)]
          /\ DOMAIN o = 1..Len(o) /\ DOMAIN e = 1..Len(e)
      BY <2>1, <2>2, ConcatProperties
    <2>4. CASE k <= Len(o)
      <3>1. k \in DOMAIN o /\ ~o[k].timed
        BY <2>2, <2>3, <2>4
      <3> QED
        BY <1>2, <3>1 DEF Untimed, o
    <2>5. CASE ~(k <= Len(o))
      <3>1. k - Len(o) \in DOMAIN e /\ ~e[k - Len(o)].timed
        BY <2>2, <2>3, <2>5
      <3> QED
        BY <1>2, <3>1
    <2> QED
      BY <2>4, <2>5
  <1> QED
    BY <1>1, <1>2

\* A request appends an entry and evicts the oldest: the flow of an evicted entry
\* had Cap entries behind its own, hence as many later requests, and has one more.
LEMMA RequestStep ==
    ASSUME TypeOK, EntriesInv, NEW f \in Flows, Request(f)
    PROVE  EntriesInv'
  <1> DEFINE kept == Len(Evict)
             gone == Len(reqInfo) - kept
  <1>0. /\ at[f] = "new" /\ at' = [at EXCEPT ![f] = "request"]
        /\ reqInfo' = Append(Evict, f) /\ asked' = Append(asked, f)
    BY DEF Request
  <1>1. /\ Evict \in Seq(Flows) /\ reqInfo \in Seq(Flows) /\ asked \in Seq(Flows)
        /\ at \in [Flows -> {"new", "request", "headers", "response", "failed"}]
        /\ kept = IF Len(reqInfo) > Cap THEN Cap ELSE Len(reqInfo)
        /\ \A i \in 1..kept : Evict[i] = reqInfo[i + gone]
    BY EvictKeeps DEF TypeOK
  <1>2. /\ kept \in Nat /\ gone \in Nat /\ kept <= Cap
        /\ gone > 0 => kept = Cap
        /\ Len(reqInfo) = kept + gone
    BY <1>1, CapAssumption
  <1> HIDE DEF kept, gone
  <1>3. /\ Len(reqInfo') = kept + 1 /\ DOMAIN reqInfo' = 1..kept + 1
        /\ DOMAIN reqInfo = 1..kept + gone
        /\ \A i \in 1..kept : i + gone \in DOMAIN reqInfo /\ reqInfo'[i] = reqInfo[i + gone]
        /\ reqInfo'[kept + 1] = f
    <2>1. /\ reqInfo' \in Seq(Flows) /\ Len(reqInfo') = kept + 1
          /\ \A i \in 1..kept : reqInfo'[i] = Evict[i]
          /\ reqInfo'[kept + 1] = f
      <3>1. /\ Append(Evict, f) \in Seq(Flows) /\ Len(Append(Evict, f)) = Len(Evict) + 1
            /\ \A i \in 1..Len(Evict) : Append(Evict, f)[i] = Evict[i]
            /\ Append(Evict, f)[Len(Evict) + 1] = f
        BY <1>1, AppendProperties
      <3> QED
        BY <1>0, <3>1 DEF kept
    <2>2. DOMAIN reqInfo' = 1..kept + 1 /\ DOMAIN reqInfo = 1..kept + gone
      BY <1>1, <1>2, <2>1, LenProperties
    <2>3. \A i \in 1..kept : i + gone \in 1..kept + gone
      BY <1>2
    <2> QED
      BY <1>1, <2>1, <2>2, <2>3
  <1>4. \A i \in DOMAIN reqInfo : /\ reqInfo[i] \in Flows
                                  /\ at[reqInfo[i]] \in {"request", "headers", "failed"}
                                  /\ reqInfo[i] # f
    BY <1>0, <1>1 DEF EntriesInv
  <1>5. IsInjective(reqInfo')
    <2>1. SUFFICES ASSUME NEW i \in 1..kept + 1, NEW j \in 1..kept + 1, reqInfo'[i] = reqInfo'[j]
                   PROVE  i = j
      BY <1>3 DEF IsInjective
    <2>2. \A a, b \in DOMAIN reqInfo : reqInfo[a] = reqInfo[b] => a = b
      BY DEF EntriesInv, IsInjective
    <2>3. CASE i \in 1..kept /\ j \in 1..kept
      <3>1. /\ i + gone \in DOMAIN reqInfo /\ j + gone \in DOMAIN reqInfo
            /\ reqInfo[i + gone] = reqInfo[j + gone]
        BY <1>3, <2>1, <2>3
      <3>2. i + gone = j + gone
        BY <2>2, <3>1
      <3> QED
        BY <1>2, <3>2
    <2>4. \A a \in 1..kept : reqInfo'[a] # f
      BY <1>3, <1>4
    <2>5. /\ i = kept + 1 \/ i \in 1..kept
          /\ j = kept + 1 \/ j \in 1..kept
      BY <1>2
    <2> QED
      BY <1>3, <2>1, <2>3, <2>4, <2>5
  <1>6. ASSUME NEW i \in DOMAIN reqInfo'
        PROVE  /\ at'[reqInfo'[i]] \in {"request", "headers", "failed"}
               /\ \E k \in DOMAIN asked' :
                      asked'[k] = reqInfo'[i] /\ Len(asked') - k >= Len(reqInfo') - i
    <2>1. CASE i \in 1..kept
      <3>1. PICK k \in DOMAIN asked :
                asked[k] = reqInfo[i + gone] /\ Len(asked) - k >= Len(reqInfo) - (i + gone)
        BY <1>3, <2>1 DEF EntriesInv
      <3>2. /\ k \in DOMAIN asked' /\ asked'[k] = asked[k]
            /\ Len(asked') - k = Len(asked) - k + 1
        BY <1>0, StaysBehind
      <3>3. Len(asked) \in Nat /\ k \in Nat
        BY <1>1
      <3>4. Len(asked') - k >= Len(reqInfo') - i
        <4>1. /\ Len(reqInfo) = kept + gone /\ Len(reqInfo') = kept + 1
              /\ kept \in Nat /\ gone \in Nat /\ i \in Nat
          BY <1>2, <1>3, <2>1
        <4>2. Len(asked) - k >= Len(reqInfo) - (i + gone)
          BY ONLY <3>1
        <4>3. Len(asked) - k >= kept - i
          BY ONLY <3>3, <4>1, <4>2
        <4>4. Len(asked') - k = Len(asked) - k + 1
          BY ONLY <3>2
        <4> QED
          BY ONLY <3>3, <4>1, <4>3, <4>4
      <3>5. at'[reqInfo'[i]] = at[reqInfo[i + gone]]
        BY <1>0, <1>1, <1>3, <1>4, <2>1
      <3>6. reqInfo'[i] = reqInfo[i + gone] /\ i + gone \in DOMAIN reqInfo
        BY <1>3, <2>1
      <3>7. at[reqInfo[i + gone]] \in {"request", "headers", "failed"}
        BY <1>4, <3>6
      <3> QED
        BY ONLY <3>1, <3>2, <3>4, <3>5, <3>6, <3>7
    <2>2. CASE i = kept + 1
      <3>1. /\ Len(asked) + 1 \in DOMAIN asked' /\ asked'[Len(asked) + 1] = f
            /\ Len(asked') = Len(asked) + 1 /\ Len(asked) \in Nat
        BY <1>0, <1>1
      <3>2. Len(asked') - (Len(asked) + 1) >= Len(reqInfo') - i
        BY <1>2, <1>3, <2>2, <3>1
      <3> QED
        BY <1>0, <1>1, <1>3, <2>2, <3>1, <3>2
    <2> QED
      BY <1>2, <1>3, <2>1, <2>2
  <1>7. ASSUME NEW g \in Flows, at'[g] \in {"request", "headers"}, g \notin Range(reqInfo')
        PROVE  Outrun(g)'
    <2>1. g # f
      BY <1>2, <1>3, <1>7 DEF Range
    <2>2. CASE g \notin Range(reqInfo)
      <3>1. Outrun(g)
        BY <1>0, <1>1, <1>7, <2>1, <2>2 DEF EntriesInv, OldestEvictedFirst
      <3> QED
        BY <1>0, <3>1, StaysBehind
    <2>3. CASE g \in Range(reqInfo)
      <3>1. PICK i \in DOMAIN reqInfo : reqInfo[i] = g
        BY <2>3 DEF Range
      <3>2. ~(i > gone)
        <4>1. SUFFICES ASSUME i > gone PROVE FALSE
          OBVIOUS
        <4>2. i - gone \in 1..kept /\ (i - gone) + gone = i
          BY <1>2, <1>3, <4>1
        <4>3. i - gone \in DOMAIN reqInfo' /\ reqInfo'[i - gone] = g
          BY <1>2, <1>3, <3>1, <4>2
        <4> QED
          BY <1>7, <4>3 DEF Range
      <3>3. PICK k \in DOMAIN asked :
                asked[k] = g /\ Len(asked) - k >= Len(reqInfo) - i
        BY <3>1 DEF EntriesInv
      <3>4. /\ k \in DOMAIN asked' /\ asked'[k] = g
            /\ Len(asked') - k = Len(asked) - k + 1
        BY <1>0, <3>3, StaysBehind
      <3>5. Len(asked) \in Nat /\ k \in Nat /\ i \in Nat /\ i >= 1
        BY <1>1, <1>3, <3>1
      <3>6. gone > 0 /\ Len(reqInfo) - i >= Cap
        BY <1>2, <3>2, <3>5, CapAssumption
      <3>7. Len(asked') - k > Cap
        <4>1. Len(reqInfo) \in Nat
          BY <1>2
        <4>2. Len(asked) - k >= Cap
          BY ONLY <3>3, <3>5, <3>6, <4>1, CapAssumption
        <4> QED
          BY ONLY <3>4, <3>5, <4>2, CapAssumption
      <3> QED
        BY <3>4, <3>7 DEF Outrun
    <2> QED
      BY <2>2, <2>3
  <1>8. ASSUME NEW g \in Flows, Untimed(g)'
        PROVE  Outrun(g)'
    <2>1. Untimed(g)
      <3>1. CASE UNCHANGED out
        BY <1>8, <3>1 DEF Untimed
      <3>2. CASE Emit(f, <<Emission("tokenizer_start", TRUE)>>)
        <4> DEFINE e == <<Emission("tokenizer_start", TRUE)>>
        <4>1. e \in Seq(Events)
          BY EventsEmitted
        <4>2. \A k \in DOMAIN e : e[k].timed
          BY DEF Emission
        <4> HIDE DEF e
        <4>3. Emit(f, e)
          BY <3>2 DEF e
        <4> QED
          BY <1>8, <4>1, <4>2, <4>3, UntimedEmitted
      <3> QED
        BY <3>1, <3>2, Emissions
    <2>2. Outrun(g)
      BY <2>1 DEF EntriesInv, OldestEvictedFirst, Untimed
    <2> QED
      BY <1>0, <2>2, StaysBehind
  <1>9. Len(reqInfo') <= Cap + 1
    BY <1>2, <1>3, CapAssumption
  <1> QED
    BY <1>5, <1>6, <1>7, <1>8, <1>9 DEF EntriesInv, OldestEvictedFirst, Untimed

\* The response pops the entry of its flow; its events are timed by that entry.
LEMMA ResponseStep ==
    ASSUME TypeOK, EntriesInv, NEW f \in Flows, Response(f)
    PROVE  EntriesInv'
  <1>0. /\ at[f] = "headers" /\ at' = [at EXCEPT ![f] = "response"]
        /\ reqInfo' = Without(f) /\ asked' = asked
        /\ at \in [Flows -> {"new", "request", "headers", "response", "failed"}]
        /\ reqInfo \in Seq(Flows)
    BY DEF Response, TypeOK
  <1>1. /\ reqInfo' \in Seq(Flows)
        /\ Len(reqInfo') <= Len(reqInfo)
        /\ IsInjective(reqInfo')
        /\ Range(reqInfo') = Range(reqInfo) \ {f}
        /\ \A j \in DOMAIN reqInfo' : \E i \in DOMAIN reqInfo :
               /\ reqInfo'[j] = reqInfo[i]
               /\ Len(reqInfo') - j <= Len(reqInfo) - i
    BY <1>0, WithoutKeeps DEF EntriesInv
  <1>2. ASSUME NEW j \in DOMAIN reqInfo'
        PROVE  /\ at'[reqInfo'[j]] \in {"request", "headers", "failed"}
               /\ \E k \in DOMAIN asked' :
                      asked'[k] = reqInfo'[j] /\ Len(asked') - k >= Len(reqInfo') - j
    <2>1. PICK i \in DOMAIN reqInfo : /\ reqInfo'[j] = reqInfo[i]
                                      /\ Len(reqInfo') - j <= Len(reqInfo) - i
      BY <1>1
    <2>2. reqInfo[i] # f /\ reqInfo[i] \in Flows
      <3>1. reqInfo'[j] \in Range(reqInfo')
        BY DEF Range
      <3>2. reqInfo[i] \in Flows
        BY <1>0, <2>1
      <3> QED
        BY <1>1, <2>1, <3>1, <3>2
    <2>3. at'[reqInfo'[j]] \in {"request", "headers", "failed"}
      BY <1>0, <2>1, <2>2 DEF EntriesInv
    <2>4. PICK k \in DOMAIN asked : asked[k] = reqInfo[i] /\ Len(asked) - k >= Len(reqInfo) - i
      BY <2>1 DEF EntriesInv
    <2>5. /\ Len(asked) \in Nat /\ k \in Nat /\ Len(reqInfo) \in Nat /\ i \in Nat
          /\ Len(reqInfo') \in Nat /\ j \in Nat
      <3>1. asked \in Seq(Flows)
        BY DEF TypeOK
      <3>2. DOMAIN asked = 1..Len(asked) /\ Len(asked) \in Nat
        BY <3>1, LenProperties
      <3>3. DOMAIN reqInfo = 1..Len(reqInfo) /\ Len(reqInfo) \in Nat
        BY <1>0, LenProperties
      <3>4. DOMAIN reqInfo' = 1..Len(reqInfo') /\ Len(reqInfo') \in Nat
        BY <1>1, LenProperties
      <3> QED
        BY <2>1, <2>4, <3>2, <3>3, <3>4
    <2>6. Len(asked) - k >= Len(reqInfo') - j
      BY <2>1, <2>4, <2>5
    <2> QED
      BY <1>0, <2>1, <2>3, <2>4, <2>6
  <1>3. Len(reqInfo') <= Cap + 1
    BY <1>0, <1>1, CapAssumption DEF EntriesInv, OldestEvictedFirst
  <1>4. \A g \in Flows : Outrun(g) => Outrun(g)'
    BY <1>0 DEF Outrun
  <1>5. ASSUME NEW g \in Flows, at'[g] \in {"request", "headers"}, g \notin Range(reqInfo')
        PROVE  Outrun(g)'
    <2>1. g # f
      BY <1>0, <1>5
    <2>2. Outrun(g)
      BY <1>0, <1>1, <1>5, <2>1 DEF EntriesInv, OldestEvictedFirst
    <2> QED
      BY <1>4, <2>2
  <1>6. ASSUME NEW g \in Flows, Untimed(g)'
        PROVE  Outrun(g)'
    <2>1. CASE Untimed(g)
      BY <1>4, <2>1 DEF EntriesInv, OldestEvictedFirst, Untimed
    <2>2. ASSUME ~Untimed(g)
          PROVE  g = f /\ f \notin Range(reqInfo)
      <3>1. CASE Emit(f, Flushed(f))
        <4>1. \A k \in DOMAIN Flushed(f) : Flushed(f)[k].timed
          BY DEF Flushed, Emission
        <4> QED
          BY <1>6, <2>2, <3>1, <4>1, EventsEmitted, UntimedEmitted
      <3>2. CASE Emit(f, Answered(f))
        <4>1. \A k \in DOMAIN Answered(f) : Answered(f)[k].timed = (f \in Range(reqInfo))
          BY DEF Answered, Timed, Emission
        <4> QED
          BY <1>6, <2>2, <3>2, <4>1, EventsEmitted, UntimedEmitted
      <3> QED
        BY <3>1, <3>2, Emissions
    <2> QED
      BY <1>0, <1>4, <2>1, <2>2 DEF EntriesInv, OldestEvictedFirst
  <1> QED
    BY <1>1, <1>2, <1>3, <1>5, <1>6 DEF EntriesInv, OldestEvictedFirst, Untimed

\* The other hooks leave the entries alone, and emit what is timed.
LEMMA EntriesKept ==
    ASSUME TypeOK, EntriesInv, UNCHANGED <<reqInfo, asked>>,
           \A f \in Flows : \/ at'[f] = at[f]
                            \/ at[f] \in {"request", "headers"} /\ at'[f] \in {"headers", "failed"},
           \A f \in Flows : Untimed(f)' => Untimed(f)
    PROVE  EntriesInv'
  <1>1. \A i \in DOMAIN reqInfo : reqInfo[i] \in Flows
    BY DEF TypeOK
  <1>2. \A f \in Flows : Outrun(f)' <=> Outrun(f)
    BY DEF Outrun
  <1> QED
    BY <1>1, <1>2 DEF EntriesInv, OldestEvictedFirst, Untimed

\* Every step keeps the entries those of requests under way, in their order.
LEMMA EntriesStep == TypeOK /\ EntriesInv /\ [Next]_vars => EntriesInv'
  <1> SUFFICES ASSUME TypeOK, EntriesInv, [Next]_vars
               PROVE  EntriesInv'
    OBVIOUS
  <1>1. ASSUME NEW f \in Flows, Request(f)
        PROVE  EntriesInv'
    BY <1>1, RequestStep
  <1>2. ASSUME NEW f \in Flows, Response(f)
        PROVE  EntriesInv'
    BY <1>2, ResponseStep
  <1>3. ASSUME NEW f \in Flows, ResponseHeaders(f) \/ Fail(f)
        PROVE  EntriesInv'
    <2>1. \A g \in Flows : \/ at'[g] = at[g]
                           \/ at[g] \in {"request", "headers"} /\ at'[g] \in {"headers", "failed"}
      BY <1>3 DEF ResponseHeaders, Fail, TypeOK
    <2>2. UNCHANGED <<reqInfo, asked, out>>
      BY <1>3 DEF ResponseHeaders, Fail
    <2> QED
      BY <2>1, <2>2, EntriesKept DEF Untimed
  <1>4. ASSUME NEW f \in Flows, Start(f) \/ Stop(f)
        PROVE  EntriesInv'
    <2> DEFINE s == <<Emission("api_request_start", TRUE)>>
               e == <<Emission("api_response_end", TRUE)>>
    <2>1. UNCHANGED <<reqInfo, asked, at>>
      BY <1>4 DEF Start, Stop
    <2>2. s \in Seq(Events) /\ e \in Seq(Events)
      BY EventsEmitted
    <2>3. (\A k \in DOMAIN s : s[k].timed) /\ (\A k \in DOMAIN e : e[k].timed)
      BY DEF Emission
    <2>4. UNCHANGED out \/ Emit(f, s) \/ Emit(f, e)
      BY <1>4, Emissions
    <2> HIDE DEF s, e
    <2>5. ASSUME NEW g \in Flows, Untimed(g)'
          PROVE  Untimed(g)
      <3>1. CASE UNCHANGED out
        BY <2>5, <3>1 DEF Untimed
      <3>2. CASE Emit(f, s) \/ Emit(f, e)
        BY <2>2, <2>3, <2>5, <3>2, UntimedEmitted
      <3> QED
        BY <2>4, <3>1, <3>2
    <2> QED
      BY <2>1, <2>5, EntriesKept
  <1>5. CASE UNCHANGED vars
    BY <1>5, EntriesKept DEF vars, Untimed
  <1> QED
    BY <1>1, <1>2, <1>3, <1>4, <1>5 DEF Next

\* No flow has an entry at the start.
LEMMA EntriesInit == Init => EntriesInv
  <1> SUFFICES ASSUME Init
               PROVE  EntriesInv
    OBVIOUS
  <1>1. reqInfo = <<>> /\ Len(reqInfo) = 0 /\ DOMAIN reqInfo = {}
    BY EmptySeq DEF Init
  <1>2. \A f \in Flows : at[f] = "new" /\ out[f] = <<>> /\ DOMAIN out[f] = {}
    BY DEF Init
  <1> QED
    BY <1>1, <1>2, CapAssumption DEF EntriesInv, OldestEvictedFirst, IsInjective

-----------------------------------------------------------------------------
(* The parsers.                                                            *)

\* Every step keeps a parser for each flow that is answered by a stream.
LEMMA ParsersStep == TypeOK /\ ParsersInv /\ [Next]_vars => ParsersInv'
  <1> SUFFICES ASSUME TypeOK, ParsersInv, [Next]_vars
               PROVE  ParsersInv'
    OBVIOUS
  <1>1. kind' = kind
    BY DEF Next, vars, Request, ResponseHeaders, Start, Stop, Response, Fail
  <1>2. \A g \in Flows : Is(g)' = Is(g)
    BY <1>1 DEF Is
  <1>3. ASSUME NEW f \in Flows,
               Request(f) \/ ResponseHeaders(f) \/ Start(f) \/ Stop(f) \/ Response(f) \/ Fail(f)
        PROVE  ParsersInv'
    <2>1. \/ /\ at[f] = "new" /\ at' = [at EXCEPT ![f] = "request"] /\ parsers' = parsers
          \/ /\ at[f] = "request" /\ at' = [at EXCEPT ![f] = "headers"]
             /\ parsers' = IF Is(f).anthropic /\ Is(f).sse THEN parsers \cup {f} ELSE parsers
          \/ at' = at /\ parsers' = parsers
          \/ at' = [at EXCEPT ![f] = "response"] /\ parsers' = parsers \ {f}
          \/ /\ at[f] \in {"request", "headers"} /\ at' = [at EXCEPT ![f] = "failed"]
             /\ parsers' = parsers
      BY <1>3 DEF Request, ResponseHeaders, Start, Stop, Response, Fail
    <2> QED
      BY <1>2, <2>1 DEF ParsersInv, TypeOK
  <1>4. CASE UNCHANGED vars
    BY <1>2, <1>4 DEF vars, ParsersInv
  <1> QED
    BY <1>3, <1>4 DEF Next

-----------------------------------------------------------------------------
(* The events of a flow.                                                   *)

Counting(f) == kind[f] \in {"count_tokens", "count_error"}

\* The flows that have a parser, and those of them whose stream has messages.
Streamed(f) == kind[f] \in {"messages_sse", "check_in_sse"}
Messages(f) == kind[f] = "messages_sse"

\* What a flow has given before its answer.
Opening(f) == IF Counting(f) THEN <<"tokenizer_start">> ELSE <<>>

\* The events of a flow, from what its hooks have seen.
EventsInv ==
    \A f \in Flows :
        /\ at[f] = "new" => Phases(f) = <<>>
        /\ at[f] \in {"new", "request"} => answer[f] = "none"
        /\ answer[f] # "none" => Messages(f)
        /\ answer[f] = "none" /\ at[f] \in {"request", "headers", "failed"} =>
               Phases(f) = Opening(f)
        /\ answer[f] = "none" /\ at[f] = "response" =>
               Phases(f) = IF Streamed(f) THEN <<>> ELSE Documented(f)
        /\ answer[f] = "started" \/ (answer[f] = "cut" /\ at[f] # "response") =>
               Phases(f) = <<"api_request_start">>
        /\ answer[f] = "stopped" \/ (answer[f] = "cut" /\ at[f] = "response") =>
               Phases(f) = <<"api_request_start", "api_response_end">>

\* The traits of the kinds, one by one.
LEMMA KindTraits ==
    ASSUME TypeOK, NEW f \in Flows
    PROVE  /\ kind[f] \in {"messages_sse", "messages_json", "messages_error", "count_tokens",
                           "count_error", "batches", "check_in", "check_in_sse", "other_host"}
           /\ Is(f).anthropic <=> kind[f] # "other_host"
           /\ Is(f).sse <=> kind[f] \in {"messages_sse", "check_in_sse", "other_host"}
           /\ Is(f).error <=> kind[f] \in {"messages_error", "count_error"}
           /\ Is(f).inference <=> kind[f] \notin {"check_in", "check_in_sse", "other_host"}
           /\ Is(f).path = "count_tokens" <=> Counting(f)
           /\ Is(f).path = "messages" <=>
                  kind[f] \in {"messages_sse", "messages_json", "messages_error"}
  <1>1. kind[f] \in DOMAIN Traits
    BY KindsAssumption DEF TypeOK
  <1>2. kind[f] \in {"messages_sse", "messages_json", "messages_error", "count_tokens",
                     "count_error", "batches", "check_in", "check_in_sse", "other_host"}
    BY <1>1 DEF Traits
  <1> QED
    BY <1>2 DEF Is, Traits, Counting

\* Concatenation of short sequences.
LEMMA ShortConcat ==
    ASSUME NEW S, NEW a \in S, NEW b \in S
    PROVE  /\ <<a>> \o <<b>> = <<a, b>>
           /\ <<a>> \o <<>> = <<a>> /\ <<>> \o <<a>> = <<a>>
           /\ <<>> \o <<a, b>> = <<a, b>>
           /\ <<>> \o <<>> = <<>>
  <1>1. <<a>> \in Seq(S) /\ <<b>> \in Seq(S) /\ <<a, b>> \in Seq(S) /\ <<>> \in Seq(S)
    OBVIOUS
  <1>2. <<a>> \o <<b>> = <<a, b>>
    <2>1. /\ <<a>> \o <<b>> \in Seq(S)
          /\ Len(<<a>> \o <<b>>) = Len(<<a>>) + Len(<<b>>)
          /\ \A i \in 1..Len(<<a>>) + Len(<<b>>) :
                 (<<a>> \o <<b>>)[i] = IF i <= Len(<<a>>) THEN <<a>>[i]
                                       ELSE <<b>>[i - Len(<<a>>)]
      BY <1>1, ConcatProperties
    <2>2. /\ Len(<<a>>) = 1 /\ Len(<<b>>) = 1 /\ Len(<<a, b>>) = 2
          /\ <<a>>[1] = a /\ <<b>>[1] = b /\ <<a, b>>[1] = a /\ <<a, b>>[2] = b
      OBVIOUS
    <2>3. /\ Len(<<a>> \o <<b>>) = 2
          /\ (<<a>> \o <<b>>)[1] = a /\ (<<a>> \o <<b>>)[2] = b
      BY <2>1, <2>2
    <2>4. \A i \in 1..2 : (<<a>> \o <<b>>)[i] = <<a, b>>[i]
      BY <2>2, <2>3
    <2> QED
      BY <1>1, <2>1, <2>2, <2>3, <2>4, SeqEqual
  <1> QED
    BY <1>1, <1>2, ConcatEmptySeq

\* What an answer that is not streamed gives is what is documented, after the
\* opening.
LEMMA AnswerIsDocumented ==
    ASSUME TypeOK, NEW f \in Flows
    PROVE  /\ ~Streamed(f) => Documented(f) = Opening(f) \o AnswerPhases(f)
           /\ Messages(f) => Documented(f) = <<"api_request_start", "api_response_end">>
           /\ Streamed(f) => Opening(f) = <<>> /\ (Messages(f) \/ Documented(f) = <<"network_request">>)
           /\ Swallowed(f) <=> Streamed(f) /\ ~Messages(f)
  <1>1. /\ \A a, b \in PhaseNames : <<a>> \o <<b>> = <<a, b>> /\ <<>> \o <<a, b>> = <<a, b>>
        /\ \A a \in PhaseNames : <<a>> \o <<>> = <<a>> /\ <<>> \o <<a>> = <<a>>
        /\ <<>> \o <<>> = <<>>
    BY ShortConcat DEF PhaseNames
  <1> USE DEF PhaseNames
  <1> DEFINE K == kind[f]
  <1>2. CASE K \in {"count_tokens", "count_error"}
    BY <1>1, <1>2, KindTraits DEF Documented, Opening, AnswerPhases, Counting, Streamed, Messages, Swallowed
  <1>3. CASE K \in {"messages_sse", "messages_json", "messages_error"}
    BY <1>1, <1>3, KindTraits DEF Documented, Opening, AnswerPhases, Counting, Streamed, Messages, Swallowed
  <1>4. CASE K \in {"batches", "check_in", "check_in_sse", "other_host"}
    BY <1>1, <1>4, KindTraits DEF Documented, Opening, AnswerPhases, Counting, Streamed, Messages, Swallowed
  <1> QED
    BY <1>2, <1>3, <1>4, KindTraits

\* A sequence begins with what it was concatenated from.
LEMMA PrefixConcat ==
    ASSUME NEW S, NEW s \in Seq(S), NEW t \in Seq(S)
    PROVE  IsPrefix(s, s \o t)
  <1> DEFINE u == s \o t
             n == Len(s)
  <1>1. /\ u \in Seq(S) /\ Len(u) = n + Len(t) /\ n \in Nat /\ Len(t) \in Nat
        /\ \A i \in 1..n : u[i] = s[i] /\ s[i] \in S /\ u[i] \in S
    <2>1. /\ u \in Seq(S) /\ Len(u) = n + Len(t)
          /\ \A i \in 1..n + Len(t) : u[i] = IF i <= n THEN s[i] ELSE t[i - n]
      BY ConcatProperties
    <2>2. n \in Nat /\ Len(t) \in Nat /\ \A i \in 1..n : s[i] \in S /\ i \in 1..n + Len(t)
      BY LenProperties
    <2> QED
      BY <2>1, <2>2
  <1> HIDE DEF u, n
  <1>2. /\ SubSeq(s, 1, n) \in Seq(S) /\ SubSeq(u, 1, n) \in Seq(S)
        /\ Len(SubSeq(s, 1, n)) = Len(SubSeq(u, 1, n))
        /\ \A i \in 1..n - 1 + 1 : /\ SubSeq(s, 1, n)[i] = s[1 + i - 1]
                                   /\ SubSeq(u, 1, n)[i] = u[1 + i - 1]
        /\ Len(SubSeq(s, 1, n)) = IF 1 <= n THEN n - 1 + 1 ELSE 0
    BY <1>1, SubSeqProperties
  <1>3. \A i \in 1..n : SubSeq(s, 1, n)[i] = SubSeq(u, 1, n)[i]
    BY <1>1, <1>2
  <1>4. Len(SubSeq(s, 1, n)) = n
    BY <1>1, <1>2
  <1>5. SubSeq(s, 1, n) = SubSeq(u, 1, n)
    BY <1>2, <1>3, <1>4, SeqEqual
  <1> QED
    BY <1>1, <1>5 DEF IsPrefix, u, n

PhasesOf(e) == [k \in DOMAIN e |-> e[k].phase]

\* What is emitted adds its phases to those of the flow, and to no other.
LEMMA PhasesAdded ==
    ASSUME TypeOK, NEW f \in Flows, NEW e \in Seq(Events), Emit(f, e)
    PROVE  /\ Phases(f)' = Phases(f) \o PhasesOf(e)
           /\ \A g \in Flows \ {f} : Phases(g)' = Phases(g)
  <1> DEFINE o == out[f]
  <1>1. /\ out'[f] = o \o e /\ o \in Seq(Events)
        /\ \A g \in Flows \ {f} : out'[g] = out[g]
    BY EmitAdds DEF TypeOK
  <1>2. ASSUME NEW s \in Seq(Events)
        PROVE  /\ PhasesOf(s) \in Seq(PhaseNames) /\ Len(PhasesOf(s)) = Len(s)
               /\ \A k \in 1..Len(s) : PhasesOf(s)[k] = s[k].phase
    <2>1. DOMAIN s = 1..Len(s) /\ Len(s) \in Nat /\ \A k \in DOMAIN s : s[k] \in Events
      BY LenProperties
    <2>2. PhasesOf(s) \in [1..Len(s) -> PhaseNames]
      BY <2>1 DEF PhasesOf, Events
    <2>3. PhasesOf(s) \in Seq(PhaseNames)
      BY <2>1, <2>2, SeqDef
    <2>4. Len(PhasesOf(s)) = Len(s)
      BY <2>1, <2>2, <2>3, LenProperties
    <2> QED
      BY <2>1, <2>3, <2>4 DEF PhasesOf
  <1> HIDE DEF o
  <1>3. PhasesOf(o \o e) = PhasesOf(o) \o PhasesOf(e)
    <2>1. /\ o \o e \in Seq(Events) /\ Len(o \o e) = Len(o) + Len(e)
          /\ Len(o) \in Nat /\ Len(e) \in Nat
          /\ \A k \in 1..Len(o) + Len(e) :
                 (o \o e)[k] = IF k <= Len(o) THEN o[k] ELSE e[k - Len(o)]
      BY <1>1, ConcatProperties, LenProperties
    <2>2. /\ PhasesOf(o) \o PhasesOf(e) \in Seq(PhaseNames)
          /\ Len(PhasesOf(o) \o PhasesOf(e)) = Len(o) + Len(e)
          /\ \A k \in 1..Len(o) + Len(e) :
                 (PhasesOf(o) \o PhasesOf(e))[k] =
                     IF k <= Len(o) THEN PhasesOf(o)[k] ELSE PhasesOf(e)[k - Len(o)]
      <3> DEFINE po == PhasesOf(o)
                 pe == PhasesOf(e)
      <3>1. /\ po \in Seq(PhaseNames) /\ Len(po) = Len(o)
            /\ pe \in Seq(PhaseNames) /\ Len(pe) = Len(e)
        BY <1>1, <1>2
      <3> HIDE DEF po, pe
      <3>2. /\ po \o pe \in Seq(PhaseNames)
            /\ Len(po \o pe) = Len(po) + Len(pe)
            /\ \A k \in 1..Len(po) + Len(pe) :
                   (po \o pe)[k] = IF k <= Len(po) THEN po[k] ELSE pe[k - Len(po)]
        BY <3>1, ConcatProperties
      <3> QED
        BY <3>1, <3>2 DEF po, pe
    <2>3. /\ PhasesOf(o \o e) \in Seq(PhaseNames)
          /\ Len(PhasesOf(o \o e)) = Len(o) + Len(e)
          /\ \A k \in 1..Len(o) + Len(e) : PhasesOf(o \o e)[k] = (o \o e)[k].phase
      BY <1>2, <2>1
    <2>4. ASSUME NEW k \in 1..Len(o) + Len(e)
          PROVE  PhasesOf(o \o e)[k] = (PhasesOf(o) \o PhasesOf(e))[k]
      <3>1. CASE k <= Len(o)
        <4>1. k \in 1..Len(o)
          BY <2>1, <3>1
        <4>2. (o \o e)[k] = o[k] /\ PhasesOf(o)[k] = o[k].phase
          BY <1>1, <1>2, <2>1, <3>1, <4>1
        <4> QED
          BY ONLY <2>2, <2>3, <2>4, <3>1, <4>2
      <3>2. CASE ~(k <= Len(o))
        <4>1. k - Len(o) \in 1..Len(e)
          BY <2>1, <3>2
        <4>2. (o \o e)[k] = e[k - Len(o)] /\ PhasesOf(e)[k - Len(o)] = e[k - Len(o)].phase
          BY <1>2, <2>1, <3>2, <4>1
        <4> QED
          BY ONLY <2>2, <2>3, <2>4, <3>2, <4>2
      <3> QED
        BY <3>1, <3>2
    <2> QED
      BY <2>2, <2>3, <2>4, SeqEqual
  <1> QED
    BY <1>1, <1>3 DEF Phases, PhasesOf, o

\* The phases of what the hooks emit.
LEMMA PhasesEmitted ==
    ASSUME NEW f \in Flows
    PROVE  /\ \A p, t : PhasesOf(<<Emission(p, t)>>) = <<p>>
           /\ PhasesOf(Flushed(f)) = IF answer[f] = "cut" THEN <<"api_response_end">> ELSE <<>>
           /\ PhasesOf(Answered(f)) = AnswerPhases(f)
  <1>1. \A p, t : PhasesOf(<<Emission(p, t)>>) = <<p>>
    BY DEF PhasesOf, Emission
  <1>2. PhasesOf(<<>>) = <<>>
    BY DEF PhasesOf
  <1>3. PhasesOf(Answered(f)) = AnswerPhases(f)
    <2>1. AnswerPhases(f) \in Seq(PhaseNames)
      BY EventsEmitted
    <2>2. PhasesOf(Answered(f)) = [k \in DOMAIN AnswerPhases(f) |-> AnswerPhases(f)[k]]
      BY DEF PhasesOf, Answered, Timed, Emission
    <2> QED
      BY <2>1, <2>2
  <1> QED
    BY <1>1, <1>2, <1>3 DEF Flushed

\* No event is emitted at the start.
LEMMA EventsInit == Init => EventsInv
  <1> SUFFICES ASSUME Init, NEW f \in Flows
               PROVE  Phases(f) = <<>> /\ at[f] = "new" /\ answer[f] = "none"
    BY DEF EventsInv
  <1> QED
    BY DEF Init, Phases

\* Each hook moves its flow from what it has given to what it should have given.
LEMMA EventsStep ==
    TypeOK /\ ParsersInv /\ EventsInv /\ [Next]_vars => EventsInv'
  <1> SUFFICES ASSUME TypeOK, ParsersInv, EventsInv, [Next]_vars
               PROVE  EventsInv'
    OBVIOUS
  <1> DEFINE Right(g) ==
        /\ at[g] = "new" => Phases(g) = <<>>
        /\ at[g] \in {"new", "request"} => answer[g] = "none"
        /\ answer[g] # "none" => Messages(g)
        /\ answer[g] = "none" /\ at[g] \in {"request", "headers", "failed"} =>
               Phases(g) = Opening(g)
        /\ answer[g] = "none" /\ at[g] = "response" =>
               Phases(g) = IF Streamed(g) THEN <<>> ELSE Documented(g)
        /\ answer[g] = "started" \/ (answer[g] = "cut" /\ at[g] # "response") =>
               Phases(g) = <<"api_request_start">>
        /\ answer[g] = "stopped" \/ (answer[g] = "cut" /\ at[g] = "response") =>
               Phases(g) = <<"api_request_start", "api_response_end">>
  <1>0. kind' = kind
    BY DEF Next, vars, Request, ResponseHeaders, Start, Stop, Response, Fail
  <1>1. \A g \in Flows : /\ Streamed(g)' = Streamed(g) /\ Messages(g)' = Messages(g)
                         /\ Opening(g)' = Opening(g)
                         /\ Documented(g)' = Documented(g)
    BY <1>0 DEF Streamed, Messages, Opening, Counting, Documented, Is
  <1>2. \A g \in Flows : Right(g)
    BY DEF EventsInv
  <1>3. SUFFICES ASSUME NEW g \in Flows
                 PROVE  Right(g)'
    BY DEF EventsInv
  <1>4. ASSUME out'[g] = out[g], at'[g] = at[g], answer'[g] = answer[g]
        PROVE  Right(g)'
    <2>1. Phases(g)' = Phases(g)
      BY <1>4 DEF Phases
    <2> QED
      BY <1>1, <1>2, <1>4, <2>1
  <1> HIDE DEF Right
  <1>5. ASSUME NEW f \in Flows, f # g,
               Request(f) \/ ResponseHeaders(f) \/ Start(f) \/ Stop(f) \/ Response(f) \/ Fail(f)
        PROVE  out'[g] = out[g] /\ at'[g] = at[g] /\ answer'[g] = answer[g]
    <2>1. at'[g] = at[g] /\ answer'[g] = answer[g]
      BY <1>5 DEF Request, ResponseHeaders, Start, Stop, Response, Fail, TypeOK
    <2>2. \/ UNCHANGED out
          \/ Emit(f, <<Emission("tokenizer_start", TRUE)>>)
          \/ Emit(f, <<Emission("api_request_start", TRUE)>>)
          \/ Emit(f, <<Emission("api_response_end", TRUE)>>)
          \/ Emit(f, Flushed(f)) \/ Emit(f, Answered(f))
      BY <1>5, Emissions DEF ResponseHeaders, Fail
    <2> QED
      BY <1>5, <2>1, <2>2, EventsEmitted, EmitAdds
  <1>6. /\ <<>> \o <<"tokenizer_start">> = <<"tokenizer_start">>
        /\ <<>> \o <<"api_request_start">> = <<"api_request_start">>
        /\ <<>> \o <<>> = <<>>
        /\ <<"api_request_start">> \o <<>> = <<"api_request_start">>
        /\ <<"api_request_start">> \o <<"api_response_end">> =
               <<"api_request_start", "api_response_end">>
        /\ <<"api_request_start", "api_response_end">> \o <<>> =
               <<"api_request_start", "api_response_end">>
    <2>1. <<"api_request_start", "api_response_end">> \in Seq(PhaseNames)
      BY DEF PhaseNames
    <2> QED
      BY <2>1, ShortConcat, ConcatEmptySeq DEF PhaseNames
  <1>7. CASE Request(g)
    <2>1. /\ at[g] = "new" /\ at'[g] = "request" /\ answer'[g] = answer[g]
      BY <1>7 DEF Request, TypeOK
    <2>2. answer[g] = "none" /\ Phases(g) = <<>>
      BY <1>2, <2>1 DEF Right
    <2>3. CASE Counting(g)
      <3>1. Emit(g, <<Emission("tokenizer_start", TRUE)>>)
        BY <1>7, <2>3, KindTraits DEF Request, Counting
      <3>2. Phases(g)' = <<>> \o <<"tokenizer_start">>
        BY <2>2, <3>1, PhasesAdded, PhasesEmitted, EventsEmitted
      <3> QED
        BY <1>1, <1>6, <2>1, <2>2, <2>3, <3>2 DEF Right, Opening
    <2>4. CASE ~Counting(g)
      <3>1. UNCHANGED out
        BY <1>7, <2>4, KindTraits DEF Request
      <3>2. Phases(g)' = <<>>
        BY <2>2, <3>1 DEF Phases
      <3> QED
        BY <1>1, <2>1, <2>2, <2>4, <3>2 DEF Right, Opening
    <2> QED
      BY <2>3, <2>4
  <1>8. CASE ResponseHeaders(g) \/ Fail(g)
    <2>1. /\ UNCHANGED out /\ answer'[g] = answer[g]
          /\ \/ at[g] = "request" /\ at'[g] = "headers"
             \/ at[g] \in {"request", "headers"} /\ at'[g] = "failed"
      BY <1>8 DEF ResponseHeaders, Fail, TypeOK
    <2>2. Phases(g)' = Phases(g)
      BY <2>1 DEF Phases
    <2> QED
      BY <1>1, <1>2, <2>1, <2>2 DEF Right
  <1>9. CASE Start(g)
    <2>1. /\ at[g] = "headers" /\ at'[g] = at[g] /\ g \in parsers /\ Is(g).inference
          /\ answer[g] = "none" /\ answer'[g] = "started"
      BY <1>9 DEF Start, TypeOK
    <2>2. Messages(g) /\ Phases(g) = <<>>
      <3>1. Messages(g) /\ Streamed(g)
        BY <2>1, KindTraits DEF ParsersInv, Streamed, Messages
      <3> QED
        BY <1>2, <2>1, <3>1, AnswerIsDocumented DEF Right
    <2>3. Phases(g)' = <<>> \o <<"api_request_start">>
      BY <1>9, <2>2, Emissions, PhasesAdded, PhasesEmitted, EventsEmitted
    <2> QED
      BY <1>1, <1>6, <2>1, <2>2, <2>3 DEF Right
  <1>10. CASE Stop(g)
    <2>1. /\ at[g] = "headers" /\ at'[g] = at[g] /\ answer[g] = "started"
          /\ \/ answer'[g] = "stopped" /\ Emit(g, <<Emission("api_response_end", TRUE)>>)
             \/ answer'[g] = "cut" /\ UNCHANGED out
      BY <1>10 DEF Stop, TypeOK
    <2>2. Messages(g) /\ Phases(g) = <<"api_request_start">>
      BY <1>2, <2>1 DEF Right
    <2>3. CASE answer'[g] = "stopped" /\ Emit(g, <<Emission("api_response_end", TRUE)>>)
      <3>1. Phases(g)' = <<"api_request_start">> \o <<"api_response_end">>
        BY <2>2, <2>3, PhasesAdded, PhasesEmitted, EventsEmitted
      <3> QED
        BY <1>1, <1>6, <2>1, <2>2, <2>3, <3>1 DEF Right
    <2>4. CASE answer'[g] = "cut" /\ UNCHANGED out
      <3>1. Phases(g)' = <<"api_request_start">>
        BY <2>2, <2>4 DEF Phases
      <3> QED
        BY <1>1, <2>1, <2>2, <2>4, <3>1 DEF Right
    <2> QED
      BY <2>1, <2>3, <2>4
  <1>11. CASE Response(g)
    <2>1. at[g] = "headers" /\ at'[g] = "response" /\ answer'[g] = answer[g]
      BY <1>11 DEF Response, TypeOK
    <2>2. g \in parsers <=> Streamed(g)
      BY <2>1, KindTraits DEF ParsersInv, Streamed
    <2>3. CASE Streamed(g)
      <3>1. Emit(g, Flushed(g))
        BY <1>11, <2>2, <2>3 DEF Response
      <3>2. Phases(g)' = Phases(g) \o IF answer[g] = "cut" THEN <<"api_response_end">> ELSE <<>>
        BY <3>1, PhasesAdded, PhasesEmitted, EventsEmitted
      <3>3. answer[g] \in {"none", "started", "stopped", "cut"} /\ Opening(g) = <<>>
        BY <2>3, AnswerIsDocumented DEF TypeOK
      <3> QED
        BY <1>1, <1>2, <1>6, <2>1, <2>3, <3>2, <3>3 DEF Right
    <2>4. CASE ~Streamed(g)
      <3>1. Emit(g, Answered(g))
        BY <1>11, <2>2, <2>4 DEF Response
      <3>2. Phases(g)' = Phases(g) \o AnswerPhases(g)
        BY <3>1, PhasesAdded, PhasesEmitted, EventsEmitted
      <3>3. answer[g] = "none" /\ Phases(g) = Opening(g)
        BY <1>2, <2>1, <2>4 DEF Right, Streamed, Messages
      <3>4. Phases(g)' = Documented(g)
        BY <2>4, <3>2, <3>3, AnswerIsDocumented
      <3> QED
        BY <1>1, <2>1, <2>4, <3>3, <3>4 DEF Right
    <2> QED
      BY <2>3, <2>4
  <1>12. CASE UNCHANGED vars
    BY <1>4, <1>12 DEF vars
  <1> QED
    BY <1>4, <1>5, <1>7, <1>8, <1>9, <1>10, <1>11, <1>12 DEF Next

-----------------------------------------------------------------------------
(* The theorems.                                                           *)

\* TypeOK and the invariants of the two tables, together.
THEOREM TablesInvariant == Spec => [](TypeOK /\ EntriesInv /\ ParsersInv)
  <1>1. Init => TypeOK /\ EntriesInv /\ ParsersInv
    BY TypeInit, EntriesInit DEF ParsersInv, Init
  <1>2. TypeOK /\ EntriesInv /\ ParsersInv /\ [Next]_vars
            => (TypeOK /\ EntriesInv /\ ParsersInv)'
    BY TypeStep, EntriesStep, ParsersStep DEF EntriesInv
  <1> QED
    BY <1>1, <1>2, PTL DEF Spec

\* OldestEvictedFirst of Proxy: what never sees a response leaves at most Cap + 1
\* entries in _req_info, and an entry, with the duration of its flow's events, is
\* lost only to more than Cap requests made after it.
THEOREM OldestEvictedFirstThm == Spec => []OldestEvictedFirst
  BY TablesInvariant, PTL DEF EntriesInv

\* NothingLeftBehind of Proxy: response forgets its flow in both tables, and a
\* stream has its parser from responseheaders to response.
THEOREM NothingLeftBehindThm == Spec => []NothingLeftBehind
  <1>1. TypeOK /\ EntriesInv /\ ParsersInv => NothingLeftBehind
    <2> SUFFICES ASSUME EntriesInv, ParsersInv, NEW f \in Flows
                 PROVE  /\ at[f] = "response" => f \notin parsers /\ f \notin Range(reqInfo)
                        /\ at[f] = "headers" /\ Is(f).anthropic /\ Is(f).sse => f \in parsers
      BY DEF NothingLeftBehind
    <2>1. f \in Range(reqInfo) => at[f] # "response"
      BY DEF EntriesInv, Range
    <2>2. /\ f \in parsers => at[f] # "response"
          /\ at[f] = "headers" /\ Is(f).anthropic /\ Is(f).sse => f \in parsers
      BY DEF ParsersInv
    <2> QED
      BY ONLY <2>1, <2>2
  <1> QED
    BY <1>1, TablesInvariant, PTL

\* EventsOfFlow of Proxy: a flow gives the events that docs/event-schema.md has for
\* it, in order and once, and all of them when its answer is whole, however the
\* hooks of other flows come in between; a check-in answered with a stream gives none.
THEOREM EventsOfFlowThm == Spec => []EventsOfFlow
  <1>1. Init => TypeOK /\ EntriesInv /\ ParsersInv /\ EventsInv
    BY TypeInit, EntriesInit, EventsInit DEF ParsersInv, Init
  <1>2. TypeOK /\ EntriesInv /\ ParsersInv /\ EventsInv /\ [Next]_vars
            => (TypeOK /\ EntriesInv /\ ParsersInv /\ EventsInv)'
    BY TypeStep, EntriesStep, ParsersStep, EventsStep DEF EntriesInv
  <1>3. TypeOK /\ EventsInv => EventsOfFlow
    <2> SUFFICES ASSUME TypeOK, EventsInv, NEW f \in Flows
                 PROVE  /\ IsPrefix(Phases(f), Documented(f))
                        /\ Whole(f) => Phases(f) = IF Swallowed(f) THEN <<>> ELSE Documented(f)
      BY DEF EventsOfFlow
    <2>1. /\ Opening(f) \in Seq(PhaseNames) /\ AnswerPhases(f) \in Seq(PhaseNames)
          /\ <<"api_request_start">> \in Seq(PhaseNames)
          /\ <<"api_response_end">> \in Seq(PhaseNames)
          /\ <<"api_request_start", "api_response_end">> \in Seq(PhaseNames)
          /\ <<>> \in Seq(PhaseNames)
      <3>1. /\ \A p \in PhaseNames : <<p>> \in Seq(PhaseNames)
            /\ \A p, q \in PhaseNames : <<p, q>> \in Seq(PhaseNames)
            /\ <<>> \in Seq(PhaseNames)
        OBVIOUS
      <3>2. /\ "api_request_start" \in PhaseNames /\ "api_response_end" \in PhaseNames
            /\ "tokenizer_start" \in PhaseNames
        BY DEF PhaseNames
      <3> QED
        BY <3>1, <3>2, EventsEmitted DEF Opening
    <2>2. /\ Documented(f) \in Seq(PhaseNames)
          /\ ~Streamed(f) => Documented(f) = Opening(f) \o AnswerPhases(f)
          /\ Messages(f) => Documented(f) = <<"api_request_start", "api_response_end">>
          /\ Streamed(f) => Opening(f) = <<>>
          /\ Swallowed(f) <=> Streamed(f) /\ ~Messages(f)
      <3>1. <<"network_request">> \in Seq(PhaseNames)
        BY DEF PhaseNames
      <3> QED
        BY <2>1, <3>1, AnswerIsDocumented, ConcatProperties
    <2>3. /\ IsPrefix(<<>>, Documented(f)) /\ IsPrefix(Documented(f), Documented(f))
          /\ IsPrefix(<<"api_request_start">>, <<"api_request_start", "api_response_end">>)
      <3>1. /\ <<>> \o Documented(f) = Documented(f)
            /\ Documented(f) \o <<>> = Documented(f)
            /\ <<"api_request_start">> \o <<"api_response_end">> =
                   <<"api_request_start", "api_response_end">>
        BY <2>2, ConcatEmptySeq, ShortConcat DEF PhaseNames
      <3> QED
        BY <2>1, <2>2, <3>1, PrefixConcat
    <2>4. IsPrefix(Opening(f), Documented(f))
      BY <2>1, <2>2, <2>3, PrefixConcat
    <2>5. /\ at[f] \in {"new", "request", "headers", "response", "failed"}
          /\ answer[f] \in {"none", "started", "stopped", "cut"}
      BY DEF TypeOK
    <2>6. /\ at[f] = "new" => Phases(f) = <<>>
          /\ at[f] \in {"new", "request"} => answer[f] = "none"
          /\ answer[f] # "none" => Messages(f)
          /\ answer[f] = "none" /\ at[f] \in {"request", "headers", "failed"} =>
                 Phases(f) = Opening(f)
          /\ answer[f] = "none" /\ at[f] = "response" =>
                 Phases(f) = IF Streamed(f) THEN <<>> ELSE Documented(f)
          /\ answer[f] = "started" \/ (answer[f] = "cut" /\ at[f] # "response") =>
                 Phases(f) = <<"api_request_start">>
          /\ answer[f] = "stopped" \/ (answer[f] = "cut" /\ at[f] = "response") =>
                 Phases(f) = <<"api_request_start", "api_response_end">>
      BY DEF EventsInv
    <2>7. IsPrefix(Phases(f), Documented(f))
      BY <2>2, <2>3, <2>4, <2>5, <2>6
    <2>8. ASSUME Whole(f)
          PROVE  Phases(f) = IF Swallowed(f) THEN <<>> ELSE Documented(f)
      <3>1. at[f] = "response" /\ (Messages(f) => answer[f] \in {"stopped", "cut"})
        BY <2>8, KindTraits DEF Whole, Messages
      <3>2. Messages(f) => Streamed(f)
        BY DEF Messages, Streamed
      <3> QED
        BY <2>2, <2>5, <2>6, <3>1, <3>2
    <2> QED
      BY <2>7, <2>8
  <1> QED
    BY <1>1, <1>2, <1>3, PTL DEF Spec
=============================================================================
