-------------------------- MODULE SSEParser_proofs --------------------------
(***************************************************************************)
(* What holds of the parser of a stream for every number of blocks, all    *)
(* sizes and times, and any number of messages lost.                       *)
(***************************************************************************)
EXTENDS SSEParser, Sums, SequenceTheorems, TLAPS

\* A list, of whatever elements.
IsList(s) == \E S : s \in Seq(S)

Past == None..now

TimesOK == now \in 0..MaxTime /\ {started, thinkingEnd, firstToken, firstText, lastText, lastProgress} \subseteq Past

OpenOK == /\ open \in [Indexes -> [type : Types \cup {"none"}, start : 0..now]]
          /\ \A i \in Indexes : open[i].type = "none" => open[i] = Closed

TextOK == /\ chars \in [Indexes -> Nat] /\ sample \in [Indexes -> 0..SampleChars]
          /\ signed \in [Indexes -> BOOLEAN]

BlocksOK == /\ IsList(blocks)
            /\ \A m \in DOMAIN blocks : blocks[m].type \in Types /\ blocks[m].index \in Indexes

TotalOK == total \in [ms : Nat, chars : Nat, blocks : Nat, interrupted : BOOLEAN, out : Nat]

ServerOK ==
    /\ server \in [at : {"before", "between", "inside", "done"}, index : Nat,
                   type : Types \cup {"none"}, deltas : Nat]
    /\ server.at = "inside" => server.index \in Indexes /\ server.type \in Types
    /\ server.at = "before" => started = None
    /\ stopped => server.at = "done"

\* What each variable is.
BaseOK ==
    /\ TimesOK /\ OpenOK /\ TextOK /\ BlocksOK /\ TotalOK /\ ServerOK
    /\ stopped \in BOOLEAN /\ lost \in 0..MaxLost /\ IsList(out)

\* The server has not come to block i.
Ahead(i) == /\ server.at # "done" /\ i >= server.index
            /\ server.at = "inside" => i > server.index

-----------------------------------------------------------------------------
(* The steps.                                                              *)

Starts == /\ server.at = "before"
          /\ server' = [server EXCEPT !.at = "between"]
          /\ OnMessageStart
          /\ UNCHANGED <<now, lost>>

Begins(type) == /\ server.at = "between" /\ server.index \in Indexes
                /\ server' = [server EXCEPT !.at = "inside", !.type = type, !.deltas = 0]
                /\ OnBlockStart(server.index, type)
                /\ UNCHANGED <<now, lost>>

Continues(kind, n) ==
    /\ server.at = "inside"
    /\ kind = "thinking" => server.type = "thinking"
    /\ server.type = "thinking" => kind = "thinking" \/ n = 0
    /\ \E d \in Nat : server' = [server EXCEPT !.deltas = d]
    /\ OnBlockDelta(server.index, kind, n)
    /\ UNCHANGED <<now, lost>>

Closes == /\ server.at = "inside"
          /\ server' = [server EXCEPT !.at = "between", !.index = @ + 1]
          /\ OnBlockStop(server.index)
          /\ UNCHANGED <<now, lost>>

Finishes == /\ server.at \in {"between", "inside"}
            /\ server' = [server EXCEPT !.at = "done"]
            /\ OnMessageStop
            /\ UNCHANGED <<now, lost>>

\* The server sends its next message, whatever the parser makes of it.
Moves == /\ server.at # "done"
         /\ \E a \in {"between", "inside", "done"}, j \in Nat, t \in Types \cup {server.type}, d \in Nat :
               /\ server' = [at |-> a, index |-> j, type |-> t, deltas |-> d]
               /\ server.index <= j
               /\ server.at = "inside" /\ a = "between" => j = server.index + 1
               /\ a = "inside" => server.index \in Indexes /\ t \in Types /\ j = server.index

\* A message is lost, or the stop of a block that is not open comes, or time passes.
Quiet == /\ UNCHANGED <<tables, timeline, total, out>>
         /\ now' \in {now, now + 1} /\ now' <= MaxTime
         /\ lost' \in {lost, lost + 1} /\ lost' <= MaxLost
         /\ \/ server' = server
            \/ Moves /\ (lost' = lost + 1 \/ (server.at = "inside" /\ open[server.index] = Closed))

\* Each step is one of these.
LEMMA Cases ==
    ASSUME BaseOK, [Next]_vars
    PROVE  \/ Starts \/ Closes \/ Finishes \/ FeedReturns \/ Quiet
           \/ \E type \in Types : Begins(type)
           \/ \E kind \in Kinds, n \in Nat : Continues(kind, n)
  <1>0. /\ server = [at |-> server.at, index |-> server.index, type |-> server.type,
                     deltas |-> server.deltas]
        /\ server.index \in Nat /\ server.deltas \in Nat /\ server.type \in Types \cup {"none"}
        /\ server.at \in {"before", "between", "inside", "done"}
        /\ now \in Nat /\ now <= MaxTime /\ lost \in Nat /\ lost <= MaxLost
    BY BoundsAssumption DEF BaseOK, ServerOK, TimesOK
  <1>a. ASSUME Lose, UNCHANGED now, Moves  PROVE Quiet
    <2>1. /\ UNCHANGED <<tables, timeline, total, out>> /\ lost' = lost + 1 /\ lost < MaxLost
          /\ now' = now
      BY <1>a DEF Lose
    <2>2. lost' <= MaxLost
      BY <1>0, <2>1, BoundsAssumption
    <2> QED
      BY <1>0, <1>a, <2>1, <2>2 DEF Quiet
  <1>1. ASSUME MessageStart  PROVE Starts \/ Quiet
    <2>1. /\ server.at = "before" /\ server' = [server EXCEPT !.at = "between"]
          /\ (OnMessageStart /\ UNCHANGED lost) \/ Lose
          /\ UNCHANGED now
      BY <1>1 DEF MessageStart, Sent
    <2>2. server' = [at |-> "between", index |-> server.index, type |-> server.type,
                     deltas |-> server.deltas]
      BY <1>0, <2>1
    <2>3. Moves
      BY <1>0, <2>1, <2>2 DEF Moves
    <2> QED
      BY <1>a, <2>1, <2>3 DEF Starts
  <1>2. ASSUME NEW type \in Types, BlockStart(type)  PROVE Begins(type) \/ Quiet
    <2>1. /\ server.at = "between" /\ server.index \in Indexes
          /\ server' = [server EXCEPT !.at = "inside", !.type = type, !.deltas = 0]
          /\ (OnBlockStart(server.index, type) /\ UNCHANGED lost) \/ Lose
          /\ UNCHANGED now
      BY <1>2 DEF BlockStart, Sent
    <2>2. server' = [at |-> "inside", index |-> server.index, type |-> type, deltas |-> 0]
      BY <1>0, <2>1
    <2>3. 0 \in Nat /\ type \in Types \cup {server.type} /\ server.index <= server.index
      BY <1>0
    <2>4. Moves
      BY <1>0, <2>1, <2>2, <2>3 DEF Moves
    <2> QED
      BY <1>a, <2>1, <2>4 DEF Begins
  <1>3. ASSUME NEW kind \in Kinds, NEW n \in Sizes \cup {0}, BlockDelta(kind, n)
        PROVE  Quiet \/ (n \in Nat /\ Continues(kind, n))
    <2>1. n \in Nat
      BY SizesAssumption
    <2>2. PICK d \in Nat : server' = [server EXCEPT !.deltas = d]
      <3>1. MaxDeltas \in Nat /\ server.deltas + 1 \in Nat
        BY <1>0, BoundsAssumption
      <3> QED
        BY <1>3, <3>1 DEF BlockDelta
    <2>3. /\ server.at = "inside"
          /\ kind = "thinking" => server.type = "thinking"
          /\ server.type = "thinking" => kind = "thinking" \/ n = 0
      BY <1>3 DEF BlockDelta
    <2>4. /\ (OnBlockDelta(server.index, kind, n) /\ UNCHANGED lost) \/ Lose
          /\ UNCHANGED now
      BY <1>3 DEF BlockDelta, Sent
    <2>5. server' = [at |-> "inside", index |-> server.index, type |-> server.type, deltas |-> d]
      BY <1>0, <2>2, <2>3
    <2>6. server.index \in Indexes /\ server.type \in Types
      BY <2>3 DEF BaseOK, ServerOK
    <2>7. Moves
      BY <1>0, <2>3, <2>5, <2>6 DEF Moves
    <2> QED
      BY <1>a, <2>1, <2>2, <2>3, <2>4, <2>7 DEF Continues
  <1>4. ASSUME BlockStop  PROVE Closes \/ Quiet
    <2>1. /\ server.at = "inside"
          /\ server' = [server EXCEPT !.at = "between", !.index = @ + 1]
          /\ \/ OnBlockStop(server.index) /\ UNCHANGED lost
             \/ OnStrayStop(server.index) /\ UNCHANGED lost
             \/ Lose
          /\ UNCHANGED now
      BY <1>4 DEF BlockStop, Sent
    <2>2. server' = [at |-> "between", index |-> server.index + 1, type |-> server.type,
                     deltas |-> server.deltas]
      BY <1>0, <2>1
    <2>3. server.index + 1 \in Nat /\ server.index <= server.index + 1
      BY <1>0
    <2>4. Moves
      BY <1>0, <2>1, <2>2, <2>3 DEF Moves
    <2>5. CASE OnStrayStop(server.index) /\ UNCHANGED lost
      BY <1>0, <2>1, <2>4, <2>5 DEF OnStrayStop, Quiet
    <2> QED
      BY <1>a, <2>1, <2>4, <2>5 DEF Closes
  <1>5. ASSUME MessageStop  PROVE Finishes \/ Quiet
    <2>1. /\ server.at \in {"between", "inside"} /\ server' = [server EXCEPT !.at = "done"]
          /\ (OnMessageStop /\ UNCHANGED lost) \/ Lose
          /\ UNCHANGED now
      BY <1>5 DEF MessageStop, Sent
    <2>2. server' = [at |-> "done", index |-> server.index, type |-> server.type,
                     deltas |-> server.deltas]
      BY <1>0, <2>1
    <2>3. Moves
      BY <1>0, <2>1, <2>2 DEF Moves
    <2> QED
      BY <1>a, <2>1, <2>3 DEF Finishes
  <1>6. ASSUME Tick \/ UNCHANGED vars  PROVE Quiet
    <2>1. /\ UNCHANGED <<tables, timeline, total, out>> /\ server' = server
          /\ lost' = lost /\ (now' = now \/ (now' = now + 1 /\ now < MaxTime))
      BY <1>6 DEF Tick, vars
    <2>2. MaxTime \in Nat
      BY BoundsAssumption
    <2> QED
      BY <1>0, <2>1, <2>2 DEF Quiet
  <1> QED
    BY <1>1, <1>2, <1>3, <1>4, <1>5, <1>6 DEF Next

-----------------------------------------------------------------------------
(* Lists.                                                                  *)

\* The list t is the list s with one more element, e, or with the c elements of u.
OneMore(s, e, t) ==
    /\ IsList(t) /\ Len(s) \in Nat /\ Len(t) = Len(s) + 1
    /\ DOMAIN s = 1..Len(s) /\ DOMAIN t = 1..(Len(s) + 1)
    /\ \A k \in 1..Len(s) : t[k] = s[k]
    /\ t[Len(s) + 1] = e

More(s, c, u, t) ==
    /\ IsList(t) /\ Len(s) \in Nat /\ Len(t) = Len(s) + c
    /\ DOMAIN s = 1..Len(s) /\ DOMAIN t = 1..(Len(s) + c)
    /\ \A k \in 1..Len(s) : t[k] = s[k]
    /\ \A k \in 1..c : t[Len(s) + k] = u[k]

\* What a list is after one more element, ...
LEMMA Appended == ASSUME NEW s, IsList(s), NEW e PROVE OneMore(s, e, Append(s, e))
  <1>0. PICK t : t = Append(s, e)
    OBVIOUS
  <1>1. PICK S : s \in Seq(S)
    BY DEF IsList
  <1>2. PICK R : R = S \cup {e}
    OBVIOUS
  <1>3. s \in Seq(R) /\ e \in R
    <2>1. DOMAIN s = 1..Len(s) /\ Len(s) \in Nat /\ \A k \in 1..Len(s) : s[k] \in R
      BY <1>1, <1>2
    <2>2. s = [k \in 1..Len(s) |-> s[k]]
      BY <1>1
    <2> QED
      BY <1>2, <2>1, <2>2, SeqDef
  <1>4. t \in Seq(R)
    BY <1>0, <1>3
  <1>5. /\ Len(s) \in Nat /\ Len(t) = Len(s) + 1
        /\ DOMAIN s = 1..Len(s) /\ DOMAIN t = 1..(Len(s) + 1)
        /\ \A k \in 1..Len(s) : t[k] = s[k]
        /\ t[Len(s) + 1] = e
    BY <1>0, <1>3
  <1>6. IsList(t)
    BY <1>4 DEF IsList
  <1> QED
    BY <1>0, <1>5, <1>6 DEF OneMore

\* ... and after as many as another list has.
LEMMA Joined ==
    ASSUME NEW s, IsList(s), NEW c \in Nat, NEW u, u = [k \in 1..c |-> u[k]]
    PROVE  More(s, c, u, s \o u)
  <1>0. PICK t : t = s \o u
    OBVIOUS
  <1>1. PICK S : s \in Seq(S)
    BY DEF IsList
  <1>2. PICK R : R = S \cup {u[k] : k \in 1..c}
    OBVIOUS
  <1>3. s \in Seq(R)
    <2>1. DOMAIN s = 1..Len(s) /\ Len(s) \in Nat /\ \A k \in 1..Len(s) : s[k] \in R
      BY <1>1, <1>2
    <2>2. s = [k \in 1..Len(s) |-> s[k]]
      BY <1>1
    <2> QED
      BY <1>2, <2>1, <2>2, SeqDef
  <1>4. u \in Seq(R) /\ Len(u) = c
    <2>1. u \in [1..c -> R]
      BY <1>2
    <2> QED
      BY <2>1
  <1>5. /\ t \in Seq(R) /\ Len(t) = Len(s) + c
        /\ \A k \in 1..Len(t) : t[k] = IF k <= Len(s) THEN s[k] ELSE u[k - Len(s)]
    BY <1>0, <1>3, <1>4, ConcatProperties
  <1>6. DOMAIN s = 1..Len(s) /\ Len(s) \in Nat /\ DOMAIN t = 1..(Len(s) + c)
    BY <1>3, <1>5
  <1>7. IsList(t)
    BY <1>5 DEF IsList
  <1> HIDE DEF IsList
  <1> QED
    BY <1>0, <1>5, <1>6, <1>7 DEF More

\* The event e is emitted: where it is, and what of the others.
Emits(e) ==
    \E n \in Nat \ {0} :
        /\ DOMAIN out = 1..(n - 1) /\ DOMAIN out' = 1..n
        /\ \A k \in 1..(n - 1) : out'[k] = out[k]
        /\ out'[n] = e /\ Last(out') = e
        /\ \A p : At(p)' = IF e.phase = p THEN At(p) \cup {n} ELSE At(p)

\* One event is emitted by an Append.
LEMMA Emission ==
    ASSUME IsList(out), NEW e, out' = Append(out, e)
    PROVE  Emits(e) /\ IsList(out)'
  <1>1. PICK n : n = Len(out) + 1
    OBVIOUS
  <1>2. OneMore(out, e, out')
    BY Appended
  <1>3. /\ IsList(out') /\ Len(out') = n /\ n \in Nat \ {0}
        /\ DOMAIN out = 1..(n - 1) /\ DOMAIN out' = 1..n
    BY <1>1, <1>2 DEF OneMore
  <1>4. (\A k \in 1..(n - 1) : out'[k] = out[k]) /\ out'[n] = e
    BY <1>1, <1>2 DEF OneMore
  <1>5. Last(out') = e
    BY <1>3, <1>4 DEF Last
  <1>6. ASSUME NEW p  PROVE At(p)' = IF e.phase = p THEN At(p) \cup {n} ELSE At(p)
    <2>1. At(p)' = {k \in 1..n : out'[k].phase = p} /\ At(p) = {k \in 1..(n - 1) : out[k].phase = p}
      BY <1>3 DEF At
    <2>2. 1..n = 1..(n - 1) \cup {n}
      BY <1>3
    <2> QED
      BY <1>4, <2>1, <2>2
  <1> QED
    BY <1>3, <1>4, <1>5, <1>6 DEF Emits

\* The response ends: the end of each block of ids, then the summary r.
Concludes(ids, c, r) ==
    \E n \in Nat :
        /\ DOMAIN out = 1..n /\ DOMAIN out' = 1..(n + c + 1)
        /\ \A k \in 1..n : out'[k] = out[k]
        /\ \A k \in 1..c : out'[n + k] = ThinkingEnd(ids[k], TRUE)
        /\ out'[n + c + 1] = r /\ Last(out') = r
        /\ Ends' = Ends \cup {n + k : k \in 1..c}
        /\ \A p : p \notin {"thinking_end", "response_end"} => At(p)' = At(p)

\* The end of a response emits what still thinks and then the summary.
LEMMA Conclusion ==
    ASSUME IsList(out), NEW c \in Nat, NEW ids, DOMAIN ids = 1..c, NEW r, r.phase = "response_end",
           out' = Append(out \o [k \in DOMAIN ids |-> ThinkingEnd(ids[k], TRUE)], r)
    PROVE  Concludes(ids, c, r) /\ IsList(out)'
  <1>1. PICK u : u = [k \in 1..c |-> ThinkingEnd(ids[k], TRUE)]
    OBVIOUS
  <1>2. PICK t : t = out \o u
    OBVIOUS
  <1>3. out' = Append(t, r)
    BY <1>1, <1>2
  <1>4. PICK n : n = Len(out)
    OBVIOUS
  <1>5. \A k \in 1..c : u[k] = ThinkingEnd(ids[k], TRUE)
    BY <1>1
  <1>6. u = [k \in 1..c |-> u[k]]
    BY <1>1
  <1>7. /\ IsList(t) /\ n \in Nat /\ Len(t) = n + c /\ DOMAIN out = 1..n /\ DOMAIN t = 1..(n + c)
        /\ \A k \in 1..n : t[k] = out[k]
        /\ \A k \in 1..c : t[n + k] = u[k]
    <2>1. More(out, c, u, t)
      BY <1>2, <1>6, Joined
    <2> QED
      BY <1>4, <2>1 DEF More
  <1>8. PICK m \in Nat : m = n + c
    BY <1>7
  <1>9. /\ IsList(out') /\ Len(out') = m + 1 /\ DOMAIN out' = 1..(m + 1)
        /\ \A k \in 1..m : out'[k] = t[k]
        /\ out'[m + 1] = r
    <2>1. OneMore(t, r, out')
      BY <1>3, <1>7, Appended
    <2>2. Len(t) = m
      BY <1>7, <1>8
    <2> QED
      BY <2>1, <2>2 DEF OneMore
  <1>10. Last(out') = r
    BY <1>9 DEF Last
  <1>11. (\A k \in 1..n : out'[k] = out[k]) /\ \A k \in 1..c : out'[n + k] = ThinkingEnd(ids[k], TRUE)
    <2>1. \A k \in 1..n : k \in 1..m
      BY <1>7, <1>8
    <2>2. \A k \in 1..c : n + k \in 1..m
      BY <1>7, <1>8
    <2> QED
      BY <1>5, <1>7, <1>9, <2>1, <2>2
  <1>12. \A k \in 1..c : out'[n + k].phase = "thinking_end"
    <2>1. \A k \in 1..c : ThinkingEnd(ids[k], TRUE).phase = "thinking_end"
      BY DEF ThinkingEnd
    <2> QED
      BY <1>11, <2>1
  <1>13. \A k \in 1..(m + 1) : k \in 1..n \/ (\E j \in 1..c : k = n + j) \/ k = m + 1
    <2> SUFFICES ASSUME NEW k \in 1..(m + 1), k \notin 1..n, k # m + 1
                 PROVE  \E j \in 1..c : k = n + j
      OBVIOUS
    <2>1. k - n \in 1..c /\ k = n + (k - n)
      BY <1>7, <1>8
    <2> QED
      BY <2>1
  <1>14. /\ \A k \in 1..n : k \in 1..(m + 1)
         /\ \A j \in 1..c : n + j \in 1..(m + 1)
    BY <1>7, <1>8
  <1>15. Ends' = Ends \cup {n + k : k \in 1..c}
    <2>1. /\ Ends' = {k \in 1..(m + 1) : out'[k].phase = "thinking_end"}
          /\ Ends = {k \in 1..n : out[k].phase = "thinking_end"}
      BY <1>7, <1>9 DEF Ends, At
    <2>2. r.phase # "thinking_end"
      OBVIOUS
    <2>3. ASSUME NEW k \in Ends'  PROVE k \in Ends \cup {n + j : j \in 1..c}
      BY <1>9, <1>11, <1>13, <2>1, <2>2, <2>3
    <2>4. ASSUME NEW k \in Ends  PROVE k \in Ends'
      BY <1>11, <1>14, <2>1, <2>4
    <2>5. ASSUME NEW j \in 1..c  PROVE n + j \in Ends'
      BY <1>12, <1>14, <2>1, <2>5
    <2> QED
      BY <2>3, <2>4, <2>5
  <1>16. ASSUME NEW p, p \notin {"thinking_end", "response_end"}  PROVE At(p)' = At(p)
    <2>1. /\ At(p)' = {k \in 1..(m + 1) : out'[k].phase = p}
          /\ At(p) = {k \in 1..n : out[k].phase = p}
      BY <1>7, <1>9 DEF At
    <2>2. r.phase # p
      BY <1>16
    <2>3. ASSUME NEW k \in At(p)'  PROVE k \in At(p)
      <3>1. k \in 1..(m + 1) /\ out'[k].phase = p
        BY <2>1, <2>3
      <3>2. k # m + 1
        BY <1>9, <2>2, <3>1
      <3>3. \A j \in 1..c : k # n + j
        BY <1>12, <1>16, <3>1
      <3> QED
        BY <1>11, <1>13, <2>1, <3>1, <3>2, <3>3
    <2>4. ASSUME NEW k \in At(p)  PROVE k \in At(p)'
      BY <1>11, <1>14, <2>1, <2>4
    <2> QED
      BY <2>3, <2>4
  <1>17. m + 1 = n + c + 1
    BY <1>7, <1>8
  <1> QED
    BY <1>7, <1>9, <1>10, <1>11, <1>15, <1>16, <1>17 DEF Concludes

-----------------------------------------------------------------------------
(* What each variable is.                                                  *)

\* What BaseOK says of the parts that the arithmetic below needs.
LEMMA Typed ==
    ASSUME BaseOK
    PROVE  /\ now \in Nat /\ now <= MaxTime /\ MaxTime \in Nat /\ lost \in Nat
           /\ IsFiniteSet(Indexes) /\ Indexes \subseteq Nat /\ Cardinality(Indexes) = Blocks
           /\ \A i \in Indexes : /\ open[i] = [type |-> open[i].type, start |-> open[i].start]
                                 /\ open[i].start \in 0..now /\ now - open[i].start \in Nat
                                 /\ open[i].type \in Types \cup {"none"}
           /\ total = [ms |-> total.ms, chars |-> total.chars, blocks |-> total.blocks,
                       interrupted |-> total.interrupted, out |-> total.out]
           /\ total.ms \in Nat /\ total.chars \in Nat /\ total.blocks \in Nat
           /\ total.interrupted \in BOOLEAN /\ total.out \in Nat
  <1>1. IsFiniteSet(Indexes) /\ Cardinality(Indexes) = Blocks
    <2>1. Blocks \in Nat
      BY BoundsAssumption
    <2>2. CASE Blocks = 0
      BY <2>1, <2>2, FS_EmptySet DEF Indexes
    <2>3. CASE Blocks # 0
      <3>1. 0 \in Int /\ Blocks - 1 \in Int /\ ~(0 > Blocks - 1)
        BY <2>1, <2>3
      <3>2. IsFiniteSet(0..(Blocks - 1)) /\ Cardinality(0..(Blocks - 1)) = Blocks - 1 - 0 + 1
        BY <3>1, FS_Interval
      <3> QED
        BY <2>1, <3>2 DEF Indexes
    <2> QED
      BY <2>2, <2>3
  <1>2. now \in Nat /\ now <= MaxTime /\ MaxTime \in Nat /\ lost \in Nat /\ Indexes \subseteq Nat
    BY BoundsAssumption DEF BaseOK, TimesOK, Indexes
  <1>3. \A i \in Indexes : /\ open[i] = [type |-> open[i].type, start |-> open[i].start]
                           /\ open[i].start \in 0..now /\ now - open[i].start \in Nat
                           /\ open[i].type \in Types \cup {"none"}
    BY <1>2 DEF BaseOK, OpenOK
  <1>4. /\ total = [ms |-> total.ms, chars |-> total.chars, blocks |-> total.blocks,
                    interrupted |-> total.interrupted, out |-> total.out]
        /\ total.ms \in Nat /\ total.chars \in Nat /\ total.blocks \in Nat
        /\ total.interrupted \in BOOLEAN /\ total.out \in Nat
    BY DEF BaseOK, TotalOK
  <1> QED
    BY <1>1, <1>2, <1>3, <1>4

\* The counters, once the blocks E have ended.
LEMMA Counted ==
    ASSUME BaseOK, NEW E, E \subseteq Indexes
    PROVE  /\ IsFiniteSet(E) /\ Cardinality(E) \in Nat /\ SumFunctionOnSet(Elapsed, E) \in Nat
           /\ WithThinking(E) = [ms |-> total.ms + SumFunctionOnSet(Elapsed, E), chars |-> total.chars,
                                 blocks |-> total.blocks + Cardinality(E),
                                 interrupted |-> total.interrupted, out |-> total.out]
  <1>1. IsFiniteSet(E)
    BY Typed, FS_Subset
  <1>2. Cardinality(E) \in Nat
    BY <1>1, FS_CardinalityType
  <1>3. \A i \in E : Elapsed[i] \in Nat
    BY Typed DEF Elapsed
  <1>4. SumFunctionOnSet(Elapsed, E) \in Nat
    <2> HIDE DEF Elapsed
    <2> QED
      BY <1>1, <1>3, SumType
  <1>5. WithThinking(E) = [ms |-> total.ms + SumFunctionOnSet(Elapsed, E), chars |-> total.chars,
                           blocks |-> total.blocks + Cardinality(E),
                           interrupted |-> total.interrupted, out |-> total.out]
    <2>1. PICK a, b : a = SumFunctionOnSet(Elapsed, E) /\ b = Cardinality(E)
      OBVIOUS
    <2>2. WithThinking(E) = [total EXCEPT !.ms = @ + a, !.blocks = @ + b]
      BY <2>1 DEF WithThinking
    <2>3. WithThinking(E) = [ms |-> total.ms + a, chars |-> total.chars,
                             blocks |-> total.blocks + b,
                             interrupted |-> total.interrupted, out |-> total.out]
      BY <2>2, Typed
    <2> QED
      BY <2>1, <2>3
  <1> QED
    BY <1>1, <1>2, <1>4, <1>5

\* The smaller of two numbers is no more than the second.
LEMMA MinOfTwo ==
    ASSUME NEW a \in Nat, NEW b \in Nat
    PROVE  Min({a, b}) \in 0..b
  <1>1. \E x \in {a, b} : \A y \in {a, b} : x <= y
    OBVIOUS
  <1>2. Min({a, b}) \in {a, b} /\ \A y \in {a, b} : Min({a, b}) <= y
    BY <1>1 DEF Min
  <1> QED
    BY <1>2

\* How long one block has been open.
LEMMA ElapsedOfOne ==
    ASSUME BaseOK, NEW i \in Indexes
    PROVE  SumFunctionOnSet(Elapsed, {i}) = now - open[i].start
  <1>1. now - open[i].start \in Nat
    BY Typed
  <1>2. Elapsed[i] = now - open[i].start
    BY DEF Elapsed
  <1>3. Elapsed[i] \in Int
    BY <1>1, <1>2
  <1> HIDE DEF Elapsed
  <1> QED
    BY <1>2, <1>3, SumOne

\* What the stop of a block that is open does.
LEMMA Closing ==
    ASSUME BaseOK, Closes, NEW i, i = server.index
    PROVE  /\ i \in Indexes /\ open[i] # Closed /\ open[i].type \in Types
           /\ open' = [open EXCEPT ![i] = Closed]
           /\ blocks' = Append(blocks, [type |-> open[i].type, index |-> i, interrupted |-> FALSE])
           /\ open[i].type = "thinking" =>
                  /\ out' = Append(out, ThinkingEnd(i, FALSE))
                  /\ total' = [ms |-> total.ms + (now - open[i].start), chars |-> total.chars,
                               blocks |-> total.blocks + 1, interrupted |-> total.interrupted,
                               out |-> total.out]
                  /\ chars' = [chars EXCEPT ![i] = 0] /\ thinkingEnd' = now
                  /\ sample' = [sample EXCEPT ![i] = 0] /\ signed' = [signed EXCEPT ![i] = FALSE]
           /\ open[i].type # "thinking" =>
                  /\ out' = out \/ out' = Append(out, [phase |-> "generation_end", index |-> i])
                  /\ chars' = chars \/ chars' = [chars EXCEPT ![i] = 0]
                  /\ UNCHANGED <<signed, sample, thinkingEnd, total>>
           /\ server' = [server EXCEPT !.at = "between", !.index = @ + 1]
           /\ UNCHANGED <<timeline, now, lost>>
  <1>1. /\ i \in Indexes /\ OnBlockStop(i)
        /\ server' = [server EXCEPT !.at = "between", !.index = @ + 1]
        /\ UNCHANGED <<now, lost>>
    BY DEF Closes, BaseOK, ServerOK
  <1>2. /\ open[i] # Closed
        /\ blocks' = Append(blocks, [type |-> open[i].type, index |-> i, interrupted |-> FALSE])
        /\ UNCHANGED timeline
    BY <1>1 DEF OnBlockStop
  <1>3. open[i].type \in Types
    BY <1>1, <1>2, Typed DEF BaseOK, OpenOK
  <1>4. /\ open = [j \in Indexes |-> open[j]] /\ chars = [j \in Indexes |-> chars[j]]
        /\ sample = [j \in Indexes |-> sample[j]] /\ signed = [j \in Indexes |-> signed[j]]
    BY DEF BaseOK, OpenOK, TextOK
  <1>5. CASE open[i].type = "thinking"
    <2>1. ForgetThinking({i}) /\ total' = WithThinking({i}) /\ out' = Append(out, ThinkingEnd(i, FALSE))
      BY <1>1, <1>5 DEF OnBlockStop
    <2>2. /\ open' = [open EXCEPT ![i] = Closed]
          /\ chars' = [chars EXCEPT ![i] = 0] /\ thinkingEnd' = now
          /\ sample' = [sample EXCEPT ![i] = 0] /\ signed' = [signed EXCEPT ![i] = FALSE]
      BY <1>1, <1>4, <2>1 DEF ForgetThinking
    <2>3. SumFunctionOnSet(Elapsed, {i}) = now - open[i].start
      BY <1>1, ElapsedOfOne
    <2>4. Cardinality({i}) = 1
      BY FS_Singleton
    <2>5. total' = [ms |-> total.ms + (now - open[i].start), chars |-> total.chars,
                    blocks |-> total.blocks + 1, interrupted |-> total.interrupted,
                    out |-> total.out]
      BY <1>1, <2>1, <2>3, <2>4, Counted
    <2> QED
      BY <1>1, <1>2, <1>3, <1>5, <2>1, <2>2, <2>5
  <1>6. CASE open[i].type # "thinking"
    <2>1. /\ open' = [open EXCEPT ![i] = Closed]
          /\ out' = out \/ out' = Append(out, [phase |-> "generation_end", index |-> i])
          /\ chars' = chars \/ chars' = [chars EXCEPT ![i] = 0]
          /\ UNCHANGED <<signed, sample, thinkingEnd, total>>
      BY <1>1, <1>6 DEF OnBlockStop
    <2> QED
      BY <1>1, <1>2, <1>3, <1>6, <2>1
  <1> QED
    BY <1>5, <1>6

\* The summary that ends the response.
Response ==
    [phase |-> "response_end", ttfb |-> started, ttft |-> firstToken,
     generation |-> IF firstText # None /\ lastText # None THEN lastText - firstText ELSE None,
     total |-> now, thinking |-> total.ms + SumFunctionOnSet(Elapsed, StillThinking),
     blocks |-> total.blocks + Cardinality(StillThinking), tokens |-> total.chars \div 4,
     interrupted |-> total.interrupted \/ StillThinking # {}, content |-> blocks']

Listed(ids, c) == /\ c \in Nat /\ c = Cardinality(StillThinking) /\ DOMAIN ids = 1..c
                  /\ ids \in [1..c -> StillThinking] /\ Range(ids) = StillThinking
                  /\ \A j, k \in 1..c : j < k <=> ids[j] < ids[k]
                  /\ \A j, k \in 1..c : ids[j] = ids[k] => j = k

\* What message_stop does.
LEMMA Finishing ==
    ASSUME BaseOK, Finishes
    PROVE  /\ stopped' = TRUE /\ StillThinking \subseteq Indexes /\ IsFiniteSet(StillThinking)
           /\ open' = [i \in Indexes |-> IF i \in StillThinking THEN Closed ELSE open[i]]
           /\ chars' = [i \in Indexes |-> IF i \in StillThinking THEN 0 ELSE chars[i]]
           /\ signed' = [i \in Indexes |-> IF i \in StillThinking THEN FALSE ELSE signed[i]]
           /\ sample' = [i \in Indexes |-> IF i \in StillThinking THEN 0 ELSE sample[i]]
           /\ thinkingEnd' = IF StillThinking # {} THEN now ELSE thinkingEnd
           /\ total' = [ms |-> total.ms + SumFunctionOnSet(Elapsed, StillThinking),
                        chars |-> total.chars,
                        blocks |-> total.blocks + Cardinality(StillThinking),
                        interrupted |-> total.interrupted \/ StillThinking # {}, out |-> total.out]
           /\ UNCHANGED <<started, firstToken, firstText, lastText, lastProgress, now, lost>>
           /\ server.at \in {"between", "inside"} /\ server' = [server EXCEPT !.at = "done"]
           /\ IsList(out)'
           /\ \E ids, c : /\ Listed(ids, c) /\ Concludes(ids, c, Response)
                          /\ More(blocks, c, [k \in 1..c |-> [type |-> "thinking", index |-> ids[k],
                                                              interrupted |-> TRUE]], blocks')
  <1>1. StillThinking \subseteq Indexes
    BY DEF StillThinking
  <1>2. PICK c, w : c = Cardinality(StillThinking) /\ w = SumFunctionOnSet(Elapsed, StillThinking)
    OBVIOUS
  <1>3. /\ c \in Nat /\ w \in Nat /\ IsFiniteSet(StillThinking)
        /\ WithThinking(StillThinking)
               = [ms |-> total.ms + w, chars |-> total.chars, blocks |-> total.blocks + c,
                  interrupted |-> total.interrupted, out |-> total.out]
    BY <1>1, <1>2, Counted
  <1>4. OnMessageStop
    BY DEF Finishes
  <1>5. /\ stopped' = TRUE
        /\ ForgetThinking(StillThinking)
        /\ UNCHANGED <<started, firstToken, firstText, lastText, lastProgress>>
    BY <1>4 DEF OnMessageStop
  <1>6. total' = [ms |-> total.ms + w, chars |-> total.chars, blocks |-> total.blocks + c,
                  interrupted |-> total.interrupted \/ StillThinking # {}, out |-> total.out]
    <2>1. PICK z : z = WithThinking(StillThinking)
      OBVIOUS
    <2>2. total' = [z EXCEPT !.interrupted = total.interrupted \/ StillThinking # {}]
      BY <1>4, <2>1 DEF OnMessageStop
    <2>3. z = [ms |-> total.ms + w, chars |-> total.chars, blocks |-> total.blocks + c,
               interrupted |-> total.interrupted, out |-> total.out]
      BY <1>3, <2>1
    <2> QED
      BY <2>2, <2>3
  <1>7. Response = [phase |-> "response_end", ttfb |-> started, ttft |-> firstToken,
                    generation |-> IF firstText # None /\ lastText # None
                                   THEN lastText - firstText ELSE None,
                    total |-> now, thinking |-> WithThinking(StillThinking).ms,
                    blocks |-> WithThinking(StillThinking).blocks,
                    tokens |-> WithThinking(StillThinking).chars \div 4,
                    interrupted |-> total.interrupted \/ StillThinking # {}, content |-> blocks']
    <2>1. /\ WithThinking(StillThinking).ms = total.ms + w
          /\ WithThinking(StillThinking).blocks = total.blocks + c
          /\ WithThinking(StillThinking).chars = total.chars
      BY <1>3
    <2> QED
      BY <1>2, <2>1 DEF Response
  <1>8. PICK ids \in Ordered(StillThinking) :
            /\ blocks' = blocks \o [k \in DOMAIN ids |->
                             [type |-> "thinking", index |-> ids[k], interrupted |-> TRUE]]
            /\ out' = Append(out \o [k \in DOMAIN ids |-> ThinkingEnd(ids[k], TRUE)], Response)
    BY <1>4, <1>7 DEF OnMessageStop
  <1>9. Listed(ids, c)
    <2>1. /\ DOMAIN ids = 1..c /\ ids \in [1..c -> StillThinking] /\ Range(ids) = StillThinking
          /\ \A j, k \in 1..c : j < k => ids[j] < ids[k]
      BY <1>2, <1>8 DEF Ordered
    <2>2. \A k \in 1..c : ids[k] \in Nat
      BY <1>1, <2>1, Typed
    <2>3. \A j, k \in 1..c : (j < k <=> ids[j] < ids[k]) /\ (ids[j] = ids[k] => j = k)
      <3> SUFFICES ASSUME NEW j \in 1..c, NEW k \in 1..c
                   PROVE  (j < k <=> ids[j] < ids[k]) /\ (ids[j] = ids[k] => j = k)
        OBVIOUS
      <3>1. (j < k => ids[j] < ids[k]) /\ (k < j => ids[k] < ids[j]) /\ ids[j] \in Nat /\ ids[k] \in Nat
        BY <2>1, <2>2
      <3>2. j < k \/ k < j \/ j = k
        BY <1>3
      <3>3. j \in Nat /\ k \in Nat
        BY <1>3
      <3> QED
        BY <3>1, <3>2, <3>3
    <2> QED
      BY <1>2, <1>3, <2>1, <2>3 DEF Listed
  <1>10. Concludes(ids, c, Response) /\ IsList(out)'
    <2>1. IsList(out) /\ DOMAIN ids = 1..c /\ Response.phase = "response_end"
      BY <1>9 DEF BaseOK, Listed, Response
    <2> HIDE DEF Response
    <2> QED
      BY <1>3, <1>8, <2>1, Conclusion
  <1>11. More(blocks, c, [k \in 1..c |-> [type |-> "thinking", index |-> ids[k], interrupted |-> TRUE]],
              blocks')
    <2>1. PICK u : u = [k \in 1..c |-> [type |-> "thinking", index |-> ids[k], interrupted |-> TRUE]]
      OBVIOUS
    <2>2. IsList(blocks) /\ DOMAIN ids = 1..c
      BY <1>9 DEF BaseOK, BlocksOK, Listed
    <2>3. u = [k \in 1..c |-> u[k]] /\ blocks' = blocks \o u
      BY <1>8, <2>1, <2>2
    <2> QED
      BY <1>3, <2>1, <2>2, <2>3, Joined
  <1>12. /\ open' = [i \in Indexes |-> IF i \in StillThinking THEN Closed ELSE open[i]]
         /\ chars' = [i \in Indexes |-> IF i \in StillThinking THEN 0 ELSE chars[i]]
         /\ signed' = [i \in Indexes |-> IF i \in StillThinking THEN FALSE ELSE signed[i]]
         /\ sample' = [i \in Indexes |-> IF i \in StillThinking THEN 0 ELSE sample[i]]
         /\ thinkingEnd' = IF StillThinking # {} THEN now ELSE thinkingEnd
    BY <1>5 DEF ForgetThinking
  <1>13. /\ server.at \in {"between", "inside"} /\ server' = [server EXCEPT !.at = "done"]
         /\ UNCHANGED <<now, lost>>
    BY DEF Finishes
  <1>14. \E ids1, c1 : /\ Listed(ids1, c1) /\ Concludes(ids1, c1, Response)
                       /\ More(blocks, c1, [k \in 1..c1 |-> [type |-> "thinking", index |-> ids1[k],
                                                            interrupted |-> TRUE]], blocks')
    BY <1>9, <1>10, <1>11
  <1> QED
    BY <1>1, <1>2, <1>3, <1>5, <1>6, <1>10, <1>12, <1>13, <1>14

\* The initial state has the types and the relations of BaseOK, ...
LEMMA BaseInit == Init => BaseOK
  <1> SUFFICES ASSUME Init  PROVE BaseOK
    OBVIOUS
  <1>1. MaxTime \in Nat /\ MaxLost \in Nat /\ SampleChars \in Nat
    BY BoundsAssumption
  <1>2. IsList(<<>>) /\ DOMAIN <<>> = {}
    BY DEF IsList
  <1>3. TimesOK
    BY <1>1 DEF Init, TimesOK, Past, None
  <1>4. OpenOK
    BY DEF Init, OpenOK, Closed
  <1>5. TextOK
    BY <1>1 DEF Init, TextOK
  <1>6. BlocksOK
    BY <1>2 DEF Init, BlocksOK
  <1>7. TotalOK
    BY DEF Init, TotalOK
  <1>8. ServerOK
    BY DEF Init, ServerOK
  <1>9. stopped \in BOOLEAN /\ lost \in 0..MaxLost /\ IsList(out)
    <2>1. IsList(out)
      BY DEF Init, IsList
    <2>2. 0 \in 0..MaxLost
      BY <1>1
    <2> QED
      BY <2>1, <2>2 DEF Init
  <1> QED
    BY <1>3, <1>4, <1>5, <1>6, <1>7, <1>8, <1>9 DEF BaseOK

\* ... and every step keeps them.
LEMMA BaseStep == ASSUME BaseOK, [Next]_vars PROVE BaseOK'
  <1>0. /\ now \in Nat /\ now <= MaxTime /\ MaxTime \in Nat /\ lost \in Nat
        /\ now \in Past /\ None \in Past /\ IsList(out) /\ IsList(blocks)
        /\ stopped \in BOOLEAN /\ lost \in 0..MaxLost
    BY Typed DEF BaseOK, BlocksOK, Past, None
  <1>s. /\ server = [at |-> server.at, index |-> server.index, type |-> server.type,
                     deltas |-> server.deltas]
        /\ server.index \in Nat /\ server.deltas \in Nat /\ server.type \in Types \cup {"none"}
        /\ server.at = "inside" => server.index \in Indexes /\ server.type \in Types
        /\ server.at = "before" => started = None
        /\ stopped => server.at = "done"
    BY DEF BaseOK, ServerOK
  <1>1. CASE Starts
    <2>1. /\ started' = now /\ out' = Append(out, [phase |-> "request_start", ttfb |-> now])
          /\ UNCHANGED <<tables, firstToken, firstText, lastText, lastProgress, stopped, total, now, lost>>
          /\ server' = [server EXCEPT !.at = "between"] /\ server.at = "before"
      BY <1>1 DEF Starts, OnMessageStart
    <2>2. IsList(out)'
      BY <1>0, <2>1, Emission
    <2>3. TimesOK'
      BY <1>0, <2>1 DEF BaseOK, TimesOK, Past, tables
    <2>4. OpenOK' /\ TextOK' /\ BlocksOK' /\ TotalOK'
      BY <2>1 DEF BaseOK, OpenOK, TextOK, BlocksOK, TotalOK, tables
    <2>5. ServerOK'
      <3>1. server' = [at |-> "between", index |-> server.index, type |-> server.type,
                       deltas |-> server.deltas]
        BY <1>s, <2>1
      <3> QED
        BY <1>s, <2>1, <3>1 DEF ServerOK
    <2> QED
      BY <1>0, <2>1, <2>2, <2>3, <2>4, <2>5 DEF BaseOK
  <1>2. CASE \E type \in Types : Begins(type)
    <2>0. PICK type \in Types : Begins(type)
      BY <1>2
    <2>1. PICK i : i = server.index
      OBVIOUS
    <2>2. /\ server.at = "between" /\ i \in Indexes
          /\ server' = [server EXCEPT !.at = "inside", !.type = type, !.deltas = 0]
          /\ open' = [open EXCEPT ![i] = [type |-> type, start |-> now]]
          /\ thinkingEnd' \in {thinkingEnd, None}
          /\ out' = out \o Started(i, type, Gap(type))
          /\ UNCHANGED <<chars, signed, sample, blocks, timeline, total, now, lost>>
      BY <2>0, <2>1 DEF Begins, OnBlockStart
    <2>3. IsList(out)'
      <3>1. PICK c, u : c \in Nat /\ Started(i, type, Gap(type)) = u /\ u = [k \in 1..c |-> u[k]]
        <4>1. type \in AllTypes
          BY TypesAssumption
        <4>2. CASE type = "other"
          <5>1. Started(i, type, Gap(type)) = <<>>
            BY <4>2 DEF Started
          <5>2. 0 \in Nat /\ <<>> = [k \in 1..0 |-> <<>>[k]]
            OBVIOUS
          <5> QED
            BY <5>1, <5>2
        <4>3. CASE type # "other"
          <5>1. PICK e : Started(i, type, Gap(type)) = <<e>>
            BY <4>1, <4>3 DEF Started, AllTypes
          <5>2. <<e>> = [k \in 1..1 |-> <<e>>[k]]
            OBVIOUS
          <5> QED
            BY <5>1, <5>2
        <4> QED
          BY <4>2, <4>3
      <3>2. More(out, c, u, out')
        BY <1>0, <2>2, <3>1, Joined
      <3> QED
        BY <3>2 DEF More
    <2>4. TimesOK'
      BY <1>0, <2>2 DEF BaseOK, TimesOK, Past, timeline
    <2>5. OpenOK'
      <3>1. [type |-> type, start |-> now] \in [type : Types \cup {"none"}, start : 0..now]
        BY <1>0
      <3>2. open' \in [Indexes -> [type : Types \cup {"none"}, start : 0..now]]
        BY <2>2, <3>1 DEF BaseOK, OpenOK
      <3>3. type # "none"
        BY TypesAssumption DEF AllTypes
      <3>4. ASSUME NEW j \in Indexes, open'[j].type = "none"  PROVE open'[j] = Closed
        BY <2>2, <3>3, <3>4 DEF BaseOK, OpenOK
      <3> QED
        BY <2>2, <3>2, <3>4 DEF OpenOK
    <2>6. TextOK' /\ BlocksOK' /\ TotalOK'
      BY <2>2 DEF BaseOK, TextOK, BlocksOK, TotalOK
    <2>7. ServerOK'
      <3>1. server' = [at |-> "inside", index |-> server.index, type |-> type, deltas |-> 0]
        BY <1>s, <2>2
      <3> QED
        BY <1>s, <2>1, <2>2, <3>1 DEF ServerOK, timeline
    <2> QED
      BY <1>0, <2>2, <2>3, <2>4, <2>5, <2>6, <2>7 DEF BaseOK, timeline
  <1>3. CASE \E kind \in Kinds, n \in Nat : Continues(kind, n)
    <2>0. PICK kind \in Kinds, n \in Nat : Continues(kind, n)
      BY <1>3
    <2>1. PICK i : i = server.index
      OBVIOUS
    <2>2. PICK d \in Nat : server' = [server EXCEPT !.deltas = d]
      BY <2>0 DEF Continues
    <2>3. /\ server.at = "inside" /\ i \in Indexes
          /\ firstToken' \in {firstToken, now} /\ firstText' \in {firstText, now}
          /\ lastText' \in {lastText, now}
          /\ out' = out \/ out' = Append(out, [phase |-> "first_token", ttft |-> now])
          /\ chars' = [chars EXCEPT ![i] = @ + n]
          /\ total' = [total EXCEPT !.out = @ + n,
                                    !.chars = IF kind = "thinking" THEN @ + n ELSE @]
          /\ sample' = [sample EXCEPT ![i] = IF kind = "thinking" THEN Min({@ + n, SampleChars}) ELSE @]
          /\ signed' = [signed EXCEPT ![i] = @ \/ kind = "signature"]
          /\ UNCHANGED <<open, blocks, thinkingEnd, started, lastProgress, stopped, now, lost>>
      BY <1>s, <2>0, <2>1 DEF Continues, OnBlockDelta
    <2>4. IsList(out)'
      BY <1>0, <2>3, Emission
    <2>5. TimesOK'
      BY <1>0, <2>3 DEF BaseOK, TimesOK, Past
    <2>6. OpenOK' /\ BlocksOK'
      BY <2>3 DEF BaseOK, OpenOK, BlocksOK
    <2>7. TextOK'
      <3>1. chars \in [Indexes -> Nat] /\ sample \in [Indexes -> 0..SampleChars]
            /\ signed \in [Indexes -> BOOLEAN] /\ SampleChars \in Nat
        BY BoundsAssumption DEF BaseOK, TextOK
      <3>2. chars' \in [Indexes -> Nat]
        BY <2>3, <3>1
      <3>3. signed' \in [Indexes -> BOOLEAN]
        <4>1. (signed[i] \/ kind = "signature") \in BOOLEAN
          OBVIOUS
        <4> QED
          BY <2>3, <3>1, <4>1
      <3>4. sample[i] + n \in Nat
        BY <2>3, <3>1
      <3>5. Min({sample[i] + n, SampleChars}) \in 0..SampleChars
        BY <3>1, <3>4, MinOfTwo
      <3>6. sample' \in [Indexes -> 0..SampleChars]
        <4>1. PICK v : v = Min({sample[i] + n, SampleChars})
          OBVIOUS
        <4>2. sample' = [sample EXCEPT ![i] = IF kind = "thinking" THEN v ELSE sample[i]]
          BY <2>3, <4>1
        <4>3. v \in 0..SampleChars
          BY <3>5, <4>1
        <4> QED
          BY <3>1, <4>2, <4>3
      <3> QED
        BY <3>2, <3>3, <3>6 DEF TextOK
    <2>8. TotalOK'
      <3>1. total' = [ms |-> total.ms, chars |-> IF kind = "thinking" THEN total.chars + n ELSE total.chars,
                      blocks |-> total.blocks, interrupted |-> total.interrupted,
                      out |-> total.out + n]
        BY <2>3, Typed
      <3>2. total.chars + n \in Nat /\ total.out + n \in Nat
        BY Typed
      <3> QED
        BY <3>1, <3>2, Typed DEF TotalOK
    <2>9. ServerOK'
      <3>1. server' = [at |-> "inside", index |-> server.index, type |-> server.type, deltas |-> d]
        BY <1>s, <2>2, <2>3
      <3> QED
        BY <1>s, <2>3, <3>1 DEF ServerOK
    <2> QED
      BY <1>0, <2>3, <2>4, <2>5, <2>6, <2>7, <2>8, <2>9 DEF BaseOK
  <1>4. CASE Closes
    <2>1. PICK i : i = server.index
      OBVIOUS
    <2>2. /\ i \in Indexes /\ open[i].type \in Types
          /\ open' = [open EXCEPT ![i] = Closed]
          /\ blocks' = Append(blocks, [type |-> open[i].type, index |-> i, interrupted |-> FALSE])
          /\ open[i].type = "thinking" =>
                  /\ out' = Append(out, ThinkingEnd(i, FALSE))
                  /\ total' = [ms |-> total.ms + (now - open[i].start), chars |-> total.chars,
                               blocks |-> total.blocks + 1, interrupted |-> total.interrupted,
                               out |-> total.out]
                  /\ chars' = [chars EXCEPT ![i] = 0] /\ thinkingEnd' = now
                  /\ sample' = [sample EXCEPT ![i] = 0] /\ signed' = [signed EXCEPT ![i] = FALSE]
          /\ open[i].type # "thinking" =>
                  /\ out' = out \/ out' = Append(out, [phase |-> "generation_end", index |-> i])
                  /\ chars' = chars \/ chars' = [chars EXCEPT ![i] = 0]
                  /\ UNCHANGED <<signed, sample, thinkingEnd, total>>
          /\ server' = [server EXCEPT !.at = "between", !.index = @ + 1]
          /\ UNCHANGED <<timeline, now, lost>>
      BY <1>4, <2>1, Closing
    <2>3. IsList(out)'
      <3>1. CASE open[i].type = "thinking"
        BY <1>0, <2>2, <3>1, Emission
      <3>2. CASE open[i].type # "thinking"
        BY <1>0, <2>2, <3>2, Emission
      <3> QED
        BY <3>1, <3>2
    <2>4. TimesOK'
      BY <1>0, <2>2 DEF BaseOK, TimesOK, Past, timeline
    <2>5. OpenOK'
      <3>1. Closed \in [type : Types \cup {"none"}, start : 0..now]
        BY <1>0 DEF Closed
      <3> QED
        BY <2>2, <3>1 DEF BaseOK, OpenOK
    <2>6. TextOK'
      <3>1. SampleChars \in Nat
        BY BoundsAssumption
      <3>2. chars \in [Indexes -> Nat] /\ sample \in [Indexes -> 0..SampleChars]
            /\ signed \in [Indexes -> BOOLEAN]
        BY DEF BaseOK, TextOK
      <3>3. CASE open[i].type = "thinking"
        <4>1. /\ chars' = [chars EXCEPT ![i] = 0]
              /\ sample' = [sample EXCEPT ![i] = 0] /\ signed' = [signed EXCEPT ![i] = FALSE]
          BY <2>2, <3>3
        <4>2. chars' \in [Indexes -> Nat]
          BY <3>2, <4>1
        <4>3. sample' \in [Indexes -> 0..SampleChars]
          <5>1. PICK R : R = 0..SampleChars /\ 0 \in R
            BY <3>1
          <5>2. sample' \in [Indexes -> R]
            BY <3>2, <4>1, <5>1
          <5> QED
            BY <5>1, <5>2
        <4>4. signed' \in [Indexes -> BOOLEAN]
          BY <3>2, <4>1
        <4> QED
          BY <4>2, <4>3, <4>4 DEF TextOK
      <3>4. CASE open[i].type # "thinking"
        <4>1. chars' = chars \/ chars' = [chars EXCEPT ![i] = 0]
          BY <2>2, <3>4
        <4>2. signed' = signed /\ sample' = sample
          BY <2>2, <3>4
        <4> QED
          BY <3>1, <3>2, <4>1, <4>2 DEF TextOK
      <3> QED
        BY <3>3, <3>4
    <2>7. BlocksOK'
      <3>1. OneMore(blocks, [type |-> open[i].type, index |-> i, interrupted |-> FALSE], blocks')
        BY <1>0, <2>2, Appended
      <3>2. /\ IsList(blocks') /\ Len(blocks) \in Nat /\ DOMAIN blocks = 1..Len(blocks)
            /\ DOMAIN blocks' = 1..(Len(blocks) + 1)
            /\ \A k \in 1..Len(blocks) : blocks'[k] = blocks[k]
            /\ blocks'[Len(blocks) + 1] = [type |-> open[i].type, index |-> i, interrupted |-> FALSE]
        BY <3>1 DEF OneMore
      <3>3. ASSUME NEW m \in DOMAIN blocks'  PROVE blocks'[m].type \in Types /\ blocks'[m].index \in Indexes
        <4>1. CASE m \in DOMAIN blocks
          BY <3>2, <4>1 DEF BaseOK, BlocksOK
        <4>2. CASE m = Len(blocks) + 1
          BY <2>2, <3>2, <4>2
        <4> QED
          BY <3>2, <4>1, <4>2
      <3> QED
        BY <3>2, <3>3 DEF BlocksOK
    <2>8. TotalOK'
      <3>1. PICK w \in Nat : w = now - open[i].start
        BY <2>2, Typed
      <3>2. CASE open[i].type = "thinking"
        <4>1. total' = [ms |-> total.ms + w, chars |-> total.chars, blocks |-> total.blocks + 1,
                        interrupted |-> total.interrupted, out |-> total.out]
          BY <2>2, <3>1, <3>2
        <4> QED
          BY <4>1, Typed DEF TotalOK
      <3>3. CASE open[i].type # "thinking"
        <4>1. total' = total
          BY <2>2, <3>3
        <4> QED
          BY <4>1 DEF BaseOK, TotalOK
      <3> QED
        BY <3>2, <3>3
    <2>9. ServerOK'
      <3>1. server' = [at |-> "between", index |-> server.index + 1, type |-> server.type,
                       deltas |-> server.deltas]
        BY <1>s, <2>2
      <3>2. server.at = "inside"
        BY <1>4 DEF Closes
      <3> QED
        BY <1>s, <2>2, <3>1, <3>2 DEF ServerOK, timeline
    <2> QED
      BY <1>0, <2>2, <2>3, <2>4, <2>5, <2>6, <2>7, <2>8, <2>9 DEF BaseOK, timeline
  <1>5. CASE Finishes
    <2>1. PICK w, p : w = SumFunctionOnSet(Elapsed, StillThinking) /\ p = Cardinality(StillThinking)
      OBVIOUS
    <2>2. /\ stopped' = TRUE /\ StillThinking \subseteq Indexes
          /\ open' = [i \in Indexes |-> IF i \in StillThinking THEN Closed ELSE open[i]]
          /\ chars' = [i \in Indexes |-> IF i \in StillThinking THEN 0 ELSE chars[i]]
          /\ signed' = [i \in Indexes |-> IF i \in StillThinking THEN FALSE ELSE signed[i]]
          /\ sample' = [i \in Indexes |-> IF i \in StillThinking THEN 0 ELSE sample[i]]
          /\ thinkingEnd' = IF StillThinking # {} THEN now ELSE thinkingEnd
          /\ total' = [ms |-> total.ms + w, chars |-> total.chars, blocks |-> total.blocks + p,
                       interrupted |-> total.interrupted \/ StillThinking # {}, out |-> total.out]
          /\ UNCHANGED <<started, firstToken, firstText, lastText, lastProgress, now, lost>>
          /\ server.at \in {"between", "inside"} /\ server' = [server EXCEPT !.at = "done"]
          /\ IsList(out)'
      BY <1>5, <2>1, Finishing
    <2>3. PICK ids, c : /\ Listed(ids, c)
                        /\ More(blocks, c, [k \in 1..c |-> [type |-> "thinking", index |-> ids[k],
                                                            interrupted |-> TRUE]], blocks')
      BY <1>5, Finishing
    <2>4. TimesOK'
      BY <1>0, <2>2 DEF BaseOK, TimesOK, Past
    <2>5. OpenOK'
      <3>1. Closed \in [type : Types \cup {"none"}, start : 0..now]
        BY <1>0 DEF Closed
      <3>2. open \in [Indexes -> [type : Types \cup {"none"}, start : 0..now]]
            /\ \A i \in Indexes : open[i].type = "none" => open[i] = Closed
        BY DEF BaseOK, OpenOK
      <3>3. open' \in [Indexes -> [type : Types \cup {"none"}, start : 0..now]]
        BY <2>2, <3>1, <3>2
      <3>4. \A i \in Indexes : open'[i].type = "none" => open'[i] = Closed
        BY <2>2, <3>2
      <3> QED
        BY <2>2, <3>3, <3>4 DEF OpenOK
    <2>6. TextOK'
      <3>1. SampleChars \in Nat /\ 0 \in 0..SampleChars
        BY BoundsAssumption
      <3>2. chars \in [Indexes -> Nat] /\ sample \in [Indexes -> 0..SampleChars]
            /\ signed \in [Indexes -> BOOLEAN]
        BY DEF BaseOK, TextOK
      <3>3. chars' \in [Indexes -> Nat]
        BY <2>2, <3>2
      <3>4. sample' \in [Indexes -> 0..SampleChars]
        BY <2>2, <3>1, <3>2
      <3>5. signed' \in [Indexes -> BOOLEAN]
        BY <2>2, <3>2
      <3> QED
        BY <3>3, <3>4, <3>5 DEF TextOK
    <2>7. BlocksOK'
      <3>1. PICK u : u = [k \in 1..c |-> [type |-> "thinking", index |-> ids[k], interrupted |-> TRUE]]
        OBVIOUS
      <3>2. /\ IsList(blocks') /\ Len(blocks) \in Nat /\ DOMAIN blocks = 1..Len(blocks)
            /\ DOMAIN blocks' = 1..(Len(blocks) + c)
            /\ \A k \in 1..Len(blocks) : blocks'[k] = blocks[k]
            /\ \A k \in 1..c : blocks'[Len(blocks) + k] = u[k]
        BY <2>3, <3>1 DEF More
      <3>3. c \in Nat /\ \A k \in 1..c : ids[k] \in StillThinking
        BY <2>3 DEF Listed
      <3>4. \A k \in 1..c : "thinking" \in Types /\ ids[k] \in Indexes
        BY <2>2, <3>3, Typed DEF StillThinking
      <3>5. ASSUME NEW m \in DOMAIN blocks'  PROVE blocks'[m].type \in Types /\ blocks'[m].index \in Indexes
        <4>1. CASE m \in DOMAIN blocks
          BY <3>2, <4>1 DEF BaseOK, BlocksOK
        <4>2. CASE m \notin DOMAIN blocks
          <5>1. m - Len(blocks) \in 1..c /\ m = Len(blocks) + (m - Len(blocks))
            BY <3>2, <3>3, <4>2
          <5>2. blocks'[m] = [type |-> "thinking", index |-> ids[m - Len(blocks)], interrupted |-> TRUE]
            BY <3>1, <3>2, <5>1
          <5> QED
            BY <3>4, <5>1, <5>2
        <4> QED
          BY <4>1, <4>2
      <3> QED
        BY <3>2, <3>5 DEF BlocksOK
    <2>8. TotalOK'
      <3>1. w \in Nat /\ p \in Nat
        BY <2>1, <2>2, Counted
      <3>2. total.ms + w \in Nat /\ total.blocks + p \in Nat
        BY <3>1, Typed
      <3> QED
        BY <2>2, <3>2, Typed DEF TotalOK
    <2>9. ServerOK'
      <3>1. server' = [at |-> "done", index |-> server.index, type |-> server.type,
                       deltas |-> server.deltas]
        BY <1>s, <2>2
      <3> QED
        BY <1>s, <2>2, <3>1 DEF ServerOK
    <2> QED
      BY <1>0, <2>2, <2>4, <2>5, <2>6, <2>7, <2>8, <2>9 DEF BaseOK
  <1>6. CASE FeedReturns
    <2>1. PICK e : out' = Append(out, e)
      BY <1>6 DEF FeedReturns
    <2>2. IsList(out)'
      BY <1>0, <2>1, Emission
    <2>3. /\ lastProgress' = now
          /\ UNCHANGED <<now, tables, started, firstToken, firstText, lastText, stopped, total,
                         server, lost>>
      BY <1>6 DEF FeedReturns
    <2>4. TimesOK'
      BY <1>0, <2>3 DEF BaseOK, TimesOK, Past, tables
    <2>5. OpenOK' /\ TextOK' /\ BlocksOK' /\ TotalOK' /\ ServerOK'
      BY <2>3 DEF BaseOK, OpenOK, TextOK, BlocksOK, TotalOK, ServerOK, tables
    <2> QED
      BY <1>0, <2>2, <2>3, <2>4, <2>5 DEF BaseOK
  <1>7. CASE Quiet
    <2>1. /\ UNCHANGED <<tables, timeline, total, out>>
          /\ now' \in {now, now + 1} /\ now' <= MaxTime
          /\ lost' \in {lost, lost + 1} /\ lost' <= MaxLost
          /\ server' = server \/ Moves
      BY <1>7 DEF Quiet
    <2>2. now' \in Nat /\ now <= now' /\ MaxLost \in Nat
      BY <1>0, <2>1, BoundsAssumption
    <2>3. TimesOK'
      <3>1. \A t \in Past : t \in None..now'
        BY <1>0, <2>2 DEF Past, None
      <3>2. {started, thinkingEnd, firstToken, firstText, lastText, lastProgress} \subseteq Past
        BY DEF BaseOK, TimesOK
      <3> QED
        BY <1>0, <2>1, <2>2, <3>1, <3>2 DEF TimesOK, Past, tables, timeline
    <2>4. OpenOK'
      <3>1. \A t \in 0..now : t \in 0..now'
        BY <1>0, <2>2
      <3> QED
        BY <2>1, <3>1 DEF BaseOK, OpenOK, tables
    <2>5. TextOK' /\ BlocksOK' /\ TotalOK'
      BY <2>1 DEF BaseOK, TextOK, BlocksOK, TotalOK, tables
    <2>6. ServerOK'
      <3>1. CASE server' = server
        BY <2>1, <3>1 DEF BaseOK, ServerOK, timeline
      <3>2. CASE Moves
        <4>1. PICK a \in {"between", "inside", "done"}, j \in Nat, t \in Types \cup {server.type}, d \in Nat :
                 /\ server' = [at |-> a, index |-> j, type |-> t, deltas |-> d]
                 /\ a = "inside" => server.index \in Indexes /\ t \in Types /\ j = server.index
          BY <3>2 DEF Moves
        <4>2. server.at # "done" /\ started' = started /\ stopped' = stopped
          BY <2>1, <3>2 DEF Moves, timeline
        <4> QED
          BY <1>s, <4>1, <4>2 DEF ServerOK
      <3> QED
        BY <2>1, <3>1, <3>2
    <2> QED
      BY <1>0, <2>1, <2>2, <2>3, <2>4, <2>5, <2>6 DEF BaseOK, timeline
  <1> QED
    BY <1>1, <1>2, <1>3, <1>4, <1>5, <1>6, <1>7, Cases

-----------------------------------------------------------------------------
(* What is emitted.                                                        *)

\* What the start of a block does.
LEMMA Beginning ==
    ASSUME BaseOK, NEW type \in Types, Begins(type), NEW i, i = server.index
    PROVE  /\ i \in Indexes /\ server.at = "between"
           /\ open' = [open EXCEPT ![i] = [type |-> type, start |-> now]]
           /\ thinkingEnd' = IF Gap(type) # None THEN None ELSE thinkingEnd
           /\ type = "thinking" => Emits([phase |-> "thinking_start", index |-> i])
           /\ type \in {"text", "tool_use"} =>
                  Emits([phase |-> "generation_start", index |-> i, ts |-> now, gap |-> Gap(type)])
           /\ type = "other" => out' = out
           /\ type \in {"thinking", "text", "tool_use", "other"}
           /\ server'.at = "inside" /\ server'.index = i /\ server'.type = type
           /\ UNCHANGED <<chars, signed, sample, blocks, timeline, total, now, lost>>
  <1>1. /\ i \in Indexes /\ server.at = "between"
        /\ open' = [open EXCEPT ![i] = [type |-> type, start |-> now]]
        /\ thinkingEnd' = IF Gap(type) # None THEN None ELSE thinkingEnd
        /\ out' = out \o Started(i, type, Gap(type))
        /\ UNCHANGED <<chars, signed, sample, blocks, timeline, total, now, lost>>
    BY DEF Begins, OnBlockStart
  <1>2. type \in {"thinking", "text", "tool_use", "other"}
    BY TypesAssumption DEF AllTypes
  <1>3. server'.at = "inside" /\ server'.index = i /\ server'.type = type
    <2>1. server = [at |-> server.at, index |-> server.index, type |-> server.type,
                    deltas |-> server.deltas]
      BY DEF BaseOK, ServerOK
    <2>2. server' = [at |-> "inside", index |-> i, type |-> type, deltas |-> 0]
      BY <2>1 DEF Begins
    <2> QED
      BY <2>2
  <1>4. IsList(out)
    BY DEF BaseOK
  <1>5. ASSUME NEW e, Started(i, type, Gap(type)) = <<e>>  PROVE Emits(e)
    <2>1. out' = Append(out, e)
      <3>1. PICK S : out \in Seq(S)
        BY <1>4 DEF IsList
      <3>2. OneMore(out, e, Append(out, e))
        BY <1>4, Appended
      <3>3. <<e>> = [k \in 1..1 |-> e]
        OBVIOUS
      <3>4. PICK u : u = <<e>>
        OBVIOUS
      <3>5. u = [k \in 1..1 |-> u[k]] /\ u[1] = e
        BY <3>3, <3>4
      <3>6. More(out, 1, u, out')
        BY <1>1, <1>4, <1>5, <3>4, <3>5, Joined
      <3>7. PICK t : t = Append(out, e)
        OBVIOUS
      <3>8. PICK n : n = Len(out)
        OBVIOUS
      <3>9. /\ n \in Nat /\ Len(t) = n + 1 /\ Len(out') = n + 1
            /\ DOMAIN t = 1..(n + 1) /\ DOMAIN out' = 1..(n + 1)
            /\ \A k \in 1..n : t[k] = out[k] /\ out'[k] = out[k]
            /\ t[n + 1] = e /\ out'[n + 1] = e
            /\ IsList(t) /\ IsList(out')
        BY <3>2, <3>5, <3>6, <3>7, <3>8 DEF OneMore, More
      <3>10. PICK m : m = n + 1 /\ \A k \in 1..m : k \in 1..n \/ k = m
        BY <3>9
      <3>11. \A k \in 1..m : out'[k] = t[k]
        BY <3>9, <3>10
      <3>12. out' = [k \in 1..m |-> out'[k]] /\ t = [k \in 1..m |-> t[k]]
        <4>1. PICK T, U : t \in Seq(T) /\ out' \in Seq(U)
          BY <3>9 DEF IsList
        <4>2. Len(t) = m /\ Len(out') = m
          BY <3>9, <3>10
        <4> QED
          BY <4>1, <4>2
      <3> QED
        BY <3>7, <3>11, <3>12
    <2> QED
      BY <1>4, <2>1, Emission
  <1>6. CASE type = "thinking"
    <2>1. Started(i, type, Gap(type)) = <<[phase |-> "thinking_start", index |-> i]>>
      BY <1>6 DEF Started
    <2> QED
      BY <1>1, <1>2, <1>3, <1>5, <1>6, <2>1
  <1>7. CASE type \in {"text", "tool_use"}
    <2>1. Started(i, type, Gap(type))
              = <<[phase |-> "generation_start", index |-> i, ts |-> now, gap |-> Gap(type)]>>
      BY <1>7 DEF Started
    <2> QED
      BY <1>1, <1>2, <1>3, <1>5, <1>7, <2>1
  <1>8. CASE type = "other"
    <2>1. Started(i, type, Gap(type)) = <<>>
      BY <1>8 DEF Started
    <2>2. out' = out
      BY <1>1, <1>4, <2>1 DEF IsList
    <2> QED
      BY <1>1, <1>2, <1>3, <1>8, <2>2
  <1> QED
    BY <1>2, <1>6, <1>7, <1>8

\* What a progress event shows.
LEMMA Progressing ==
    ASSUME BaseOK, FeedReturns
    PROVE  \E e : /\ Emits(e) /\ e.phase = "progress" /\ e.ts = now /\ e.chars = total.out
                  /\ out' = Append(out, e)
  <1>1. PICK s : s = IF "thinking" \in {open[i].type : i \in Indexes} \ {"none"} THEN "thinking"
                     ELSE IF {open[i].type : i \in Indexes} \ {"none"} # {} THEN "responding"
                     ELSE "waiting"
    OBVIOUS
  <1>2. PICK e : e = [phase |-> "progress", ts |-> now, chars |-> total.out, state |-> s]
    OBVIOUS
  <1>3. out' = Append(out, e)
    BY <1>1, <1>2 DEF FeedReturns
  <1>4. e.phase = "progress" /\ e.ts = now /\ e.chars = total.out
    BY <1>2
  <1>5. Emits(e)
    BY <1>3, Emission DEF BaseOK
  <1> QED
    BY <1>3, <1>4, <1>5

\* The events of phase p are what they were.
Keeps(p) == At(p)' = At(p) /\ \A k \in At(p) : out'[k] = out[k]

\* A step that emits no event of a phase keeps those it has.
LEMMA Kept ==
    ASSUME NEW p, out' = out \/ \E e : Emits(e) /\ e.phase # p
    PROVE  Keeps(p)
  <1>1. CASE out' = out
    BY <1>1 DEF Keeps, At
  <1>2. CASE \E e : Emits(e) /\ e.phase # p
    <2>1. PICK e : Emits(e) /\ e.phase # p
      BY <1>2
    <2>2. PICK n \in Nat \ {0} :
             /\ DOMAIN out = 1..(n - 1) /\ \A k \in 1..(n - 1) : out'[k] = out[k]
             /\ At(p)' = IF e.phase = p THEN At(p) \cup {n} ELSE At(p)
      BY <2>1 DEF Emits
    <2>3. At(p) \subseteq DOMAIN out
      BY DEF At
    <2> QED
      BY <2>1, <2>2, <2>3 DEF Keeps
  <1> QED
    BY <1>1, <1>2

\* No step but these emits one of these events, and none changes an earlier one.
LEMMA Keeping ==
    ASSUME BaseOK, [Next]_vars
    PROVE  /\ Keeps("thinking_start") \/ ("thinking" \in Types /\ Begins("thinking"))
           /\ Keeps("thinking_end") \/ Finishes \/ (Closes /\ open[server.index].type = "thinking")
           /\ Keeps("progress") \/ FeedReturns
  <1>0. IsList(out)
    BY DEF BaseOK
  <1>1. CASE Starts
    <2>1. Emits([phase |-> "request_start", ttfb |-> now])
      BY <1>0, <1>1, Emission DEF Starts, OnMessageStart
    <2> QED
      BY <2>1, Kept
  <1>2. CASE \E type \in Types : Begins(type)
    <2>1. PICK type \in Types : Begins(type)
      BY <1>2
    <2>2. PICK i : i = server.index
      OBVIOUS
    <2>3. CASE type = "thinking"
      <3>1. Emits([phase |-> "thinking_start", index |-> i])
        BY <2>1, <2>2, <2>3, Beginning
      <3>2. Keeps("thinking_end") /\ Keeps("progress")
        BY <3>1, Kept
      <3> QED
        BY <2>1, <2>3, <3>2
    <2>4. CASE type \in {"text", "tool_use"}
      <3>1. Emits([phase |-> "generation_start", index |-> i, ts |-> now, gap |-> Gap(type)])
        BY <2>1, <2>2, <2>4, Beginning
      <3> QED
        BY <3>1, Kept
    <2>5. CASE type = "other"
      <3>1. out' = out
        BY <2>1, <2>2, <2>5, Beginning
      <3> QED
        BY <3>1, Kept
    <2> QED
      BY <2>1, <2>2, <2>3, <2>4, <2>5, Beginning
  <1>3. CASE \E kind \in Kinds, n \in Nat : Continues(kind, n)
    <2>1. out' = out \/ out' = Append(out, [phase |-> "first_token", ttft |-> now])
      BY <1>3 DEF Continues, OnBlockDelta
    <2>2. out' = out \/ Emits([phase |-> "first_token", ttft |-> now])
      BY <1>0, <2>1, Emission
    <2> QED
      BY <2>2, Kept
  <1>4. CASE Closes
    <2>1. PICK i : i = server.index
      OBVIOUS
    <2>2. CASE open[i].type = "thinking"
      <3>1. out' = Append(out, ThinkingEnd(i, FALSE))
        BY <1>4, <2>1, <2>2, Closing
      <3>2. Emits(ThinkingEnd(i, FALSE)) /\ ThinkingEnd(i, FALSE).phase = "thinking_end"
        BY <1>0, <3>1, Emission DEF ThinkingEnd
      <3>3. Keeps("thinking_start") /\ Keeps("progress")
        BY <3>2, Kept
      <3> QED
        BY <1>4, <2>1, <2>2, <3>3
    <2>3. CASE open[i].type # "thinking"
      <3>1. out' = out \/ out' = Append(out, [phase |-> "generation_end", index |-> i])
        BY <1>4, <2>1, <2>3, Closing
      <3>2. out' = out \/ Emits([phase |-> "generation_end", index |-> i])
        BY <1>0, <3>1, Emission
      <3> QED
        BY <3>2, Kept
    <2> QED
      BY <2>2, <2>3
  <1>5. CASE Finishes
    <2>1. PICK ids, c : Concludes(ids, c, Response)
      BY <1>5, Finishing
    <2>2. PICK n \in Nat :
              /\ DOMAIN out = 1..n /\ \A k \in 1..n : out'[k] = out[k]
              /\ \A p : p \notin {"thinking_end", "response_end"} => At(p)' = At(p)
      BY <2>1 DEF Concludes
    <2>3. At("thinking_start")' = At("thinking_start") /\ At("progress")' = At("progress")
      BY <2>2
    <2>4. At("thinking_start") \subseteq 1..n /\ At("progress") \subseteq 1..n
      BY <2>2 DEF At
    <2> QED
      BY <1>5, <2>2, <2>3, <2>4 DEF Keeps
  <1>6. CASE FeedReturns
    <2>1. PICK e : Emits(e) /\ e.phase = "progress"
      BY <1>6, Progressing
    <2>2. Emits(e)
      BY <2>1
    <2>3. Keeps("thinking_start") /\ Keeps("thinking_end")
      BY <2>1, <2>2, Kept
    <2> QED
      BY <1>6, <2>3
  <1>7. CASE Quiet
    <2>1. out' = out
      BY <1>7 DEF Quiet
    <2> QED
      BY <2>1, Kept
  <1> QED
    BY <1>1, <1>2, <1>3, <1>4, <1>5, <1>6, <1>7, Cases

\* The server moves forward, and the parser touches no block before its time.
LEMMA Untouched ==
    ASSUME BaseOK, [Next]_vars, NEW i \in Indexes, Ahead(i)'
    PROVE  /\ Ahead(i) /\ open'[i] = open[i] /\ chars'[i] = chars[i] /\ ~Finishes
           /\ Closes \/ (\E type \in Types : Begins(type)) => i # server.index
  <1>0. /\ server = [at |-> server.at, index |-> server.index, type |-> server.type,
                     deltas |-> server.deltas]
        /\ server.index \in Nat /\ i \in Nat
        /\ open \in [Indexes -> [type : Types \cup {"none"}, start : 0..now]]
        /\ chars \in [Indexes -> Nat]
    BY Typed DEF BaseOK, ServerOK, OpenOK, TextOK
  <1>s. server'.at # "done" /\ i >= server'.index /\ (server'.at = "inside" => i > server'.index)
    BY DEF Ahead
  <1>f. ~Finishes
    <2>1. ASSUME Finishes  PROVE FALSE
      <3>1. server' = [at |-> "done", index |-> server.index, type |-> server.type,
                       deltas |-> server.deltas]
        BY <1>0, <2>1 DEF Finishes
      <3> QED
        BY <1>s, <3>1
    <2> QED
      BY <2>1
  <1>1. CASE Starts
    <2>1. /\ server' = [at |-> "between", index |-> server.index, type |-> server.type,
                        deltas |-> server.deltas]
          /\ server.at = "before" /\ open' = open /\ chars' = chars
      BY <1>0, <1>1 DEF Starts, OnMessageStart, tables
    <2>2. server'.index = server.index
      BY <2>1
    <2> QED
      BY <1>f, <1>s, <2>1, <2>2 DEF Ahead, Closes, Begins
  <1>2. CASE \E type \in Types : Begins(type)
    <2>1. PICK type \in Types : Begins(type)
      BY <1>2
    <2>2. PICK m : m = server.index
      OBVIOUS
    <2>3. /\ server.at = "between" /\ open' = [open EXCEPT ![m] = [type |-> type, start |-> now]]
          /\ chars' = chars /\ server'.at = "inside" /\ server'.index = m
      BY <2>1, <2>2, Beginning
    <2>4. i > m /\ m \in Nat
      BY <1>0, <1>s, <2>2, <2>3
    <2>5. i # m /\ i >= m
      BY <1>0, <2>4
    <2>6. open'[i] = open[i]
      BY <1>0, <2>3, <2>5
    <2> QED
      BY <1>f, <2>2, <2>3, <2>5, <2>6 DEF Ahead
  <1>3. CASE \E kind \in Kinds, n \in Nat : Continues(kind, n)
    <2>1. PICK kind \in Kinds, n \in Nat : Continues(kind, n)
      BY <1>3
    <2>2. PICK m, d : m = server.index /\ server' = [server EXCEPT !.deltas = d]
      BY <2>1 DEF Continues
    <2>3. /\ server.at = "inside" /\ open' = open /\ chars' = [chars EXCEPT ![m] = @ + n]
      BY <2>1, <2>2 DEF Continues, OnBlockDelta
    <2>4. server' = [at |-> "inside", index |-> m, type |-> server.type, deltas |-> d]
      BY <1>0, <2>2, <2>3
    <2>5. i > m /\ m \in Nat
      BY <1>0, <1>s, <2>2, <2>4
    <2>6. i # m /\ i >= m
      BY <1>0, <2>5
    <2>7. chars'[i] = chars[i]
      BY <1>0, <2>3, <2>6
    <2> QED
      BY <1>f, <2>2, <2>3, <2>5, <2>6, <2>7 DEF Ahead
  <1>4. CASE Closes
    <2>1. PICK m : m = server.index
      OBVIOUS
    <2>2. /\ server.at = "inside" /\ open' = [open EXCEPT ![m] = Closed]
          /\ chars' = chars \/ chars' = [chars EXCEPT ![m] = 0]
          /\ server' = [server EXCEPT !.at = "between", !.index = @ + 1]
      <3>1. server.at = "inside"
        BY <1>4 DEF Closes
      <3>2. CASE open[m].type = "thinking"
        BY <1>4, <2>1, <3>1, <3>2, Closing
      <3>3. CASE open[m].type # "thinking"
        BY <1>4, <2>1, <3>1, <3>3, Closing
      <3> QED
        BY <3>2, <3>3
    <2>3. server' = [at |-> "between", index |-> m + 1, type |-> server.type,
                     deltas |-> server.deltas]
      BY <1>0, <2>1, <2>2
    <2>4. i >= m + 1 /\ m \in Nat
      BY <1>0, <1>s, <2>1, <2>3
    <2>5. i # m /\ i >= m /\ i > m
      BY <1>0, <2>4
    <2>6. open'[i] = open[i] /\ chars'[i] = chars[i]
      BY <1>0, <2>2, <2>5
    <2> QED
      BY <1>f, <2>1, <2>2, <2>5, <2>6 DEF Ahead
  <1>5. CASE Finishes
    BY <1>5, <1>f
  <1>6. CASE FeedReturns
    <2>1. server' = server /\ open' = open /\ chars' = chars
      BY <1>6 DEF FeedReturns, tables
    <2>2. ~Closes /\ ~ \E type \in Types : Begins(type)
      <3>3. ~Closes
        <4>1. ASSUME Closes  PROVE FALSE
          <5>1. server' = [at |-> "between", index |-> server.index + 1, type |-> server.type,
                           deltas |-> server.deltas]
            BY <1>0, <4>1 DEF Closes
          <5>2. server'.at = "between" /\ server.at = "inside"
            BY <4>1, <5>1 DEF Closes
          <5> QED
            BY <2>1, <5>2
        <4> QED
          BY <4>1
      <3>4. ASSUME NEW type \in Types, Begins(type)  PROVE FALSE
        BY <2>1, <3>4, Beginning
      <3> QED
        BY <3>3, <3>4
    <2> QED
      BY <1>f, <1>s, <2>1, <2>2 DEF Ahead
  <1>7. CASE Quiet
    <2>1. open' = open /\ chars' = chars
      BY <1>7 DEF Quiet, tables
    <2>2. Ahead(i)
      <3>1. CASE server' = server
        BY <1>s, <3>1 DEF Ahead
      <3>2. CASE Moves
        <4>1. PICK a \in {"between", "inside", "done"}, j \in Nat, t \in Types \cup {server.type}, d \in Nat :
                 /\ server' = [at |-> a, index |-> j, type |-> t, deltas |-> d]
                 /\ server.index <= j
                 /\ server.at = "inside" /\ a = "between" => j = server.index + 1
                 /\ a = "inside" => j = server.index
          BY <3>2 DEF Moves
        <4>2. server.at # "done" /\ server'.at = a /\ server'.index = j
          BY <3>2, <4>1 DEF Moves
        <4>3. a \in {"between", "inside"} /\ i >= j /\ (a = "inside" => i > j)
          BY <1>s, <4>1, <4>2
        <4>4. i >= server.index
          BY <1>0, <4>1, <4>3
        <4>5. server.at = "inside" => i > server.index
          BY <1>0, <4>1, <4>3
        <4> QED
          BY <4>2, <4>4, <4>5 DEF Ahead
      <3> QED
        BY <1>7, <3>1, <3>2 DEF Quiet
    <2>4. ASSUME Closes  PROVE i # server.index
      <3>1. server.at = "inside"
        BY <2>4 DEF Closes
      <3> QED
        BY <1>0, <2>2, <3>1 DEF Ahead
    <2>5. ASSUME NEW type \in Types, Begins(type)  PROVE i # server.index
      <3>1. server'.at = "inside" /\ server'.index = server.index
        BY <2>5, Beginning
      <3> QED
        BY <1>0, <1>s, <3>1
    <2> QED
      BY <1>f, <2>1, <2>2, <2>4, <2>5
  <1> QED
    BY <1>1, <1>2, <1>3, <1>4, <1>5, <1>6, <1>7, Cases

-----------------------------------------------------------------------------
(* A thinking block ends once.                                             *)

Begun(i) == \E j \in At("thinking_start") : out[j].index = i
Ended(i) == \E k \in Ends : out[k].index = i

PairsOK ==
    /\ \A j, k \in Ends : out[j].index = out[k].index => j = k
    /\ \A k \in Ends : /\ out[k].index \in Indexes
                       /\ \E j \in At("thinking_start") : j < k /\ out[j].index = out[k].index
    /\ \A j \in At("thinking_start") : out[j].index \in Indexes
    /\ \A i \in Indexes : Begun(i) => open[i].type = "thinking" \/ Ended(i)
    /\ \A i \in Indexes : open[i].type = "thinking" => Begun(i) /\ ~Ended(i)
    /\ \A i \in Indexes : Ahead(i) => open[i] = Closed /\ ~Begun(i)
    /\ stopped => \A i \in Indexes : open[i].type # "thinking"

\* Which blocks are thinking changes only where events tell of it.
LEMMA SameThinking ==
    ASSUME BaseOK, PairsOK, [Next]_vars, ~Finishes,
           ~("thinking" \in Types /\ Begins("thinking")),
           ~(Closes /\ open[server.index].type = "thinking")
    PROVE  /\ \A i \in Indexes : open'[i].type = "thinking" <=> open[i].type = "thinking"
           /\ \A i \in Indexes : open[i].type = "thinking" => open'[i] = open[i]
           /\ stopped' = stopped
  <1>0. open \in [Indexes -> [type : Types \cup {"none"}, start : 0..now]]
    BY DEF BaseOK, OpenOK
  <1>1. CASE open' = open /\ stopped' = stopped
    BY <1>1
  <1>2. CASE \E type \in Types : Begins(type)
    <2>1. PICK type \in Types : Begins(type)
      BY <1>2
    <2>2. PICK i : i = server.index
      OBVIOUS
    <2>3. /\ i \in Indexes /\ server.at = "between" /\ type # "thinking"
          /\ open' = [open EXCEPT ![i] = [type |-> type, start |-> now]] /\ stopped' = stopped
      BY <2>1, <2>2, Beginning DEF timeline
    <2>4. i \in Nat /\ i >= i
      BY <2>3, Typed
    <2>5. Ahead(i)
      BY <2>2, <2>3, <2>4 DEF Ahead
    <2>6. open[i].type = "none"
      BY <2>3, <2>5 DEF PairsOK, Closed
    <2> QED
      BY <1>0, <2>3, <2>6
  <1>3. CASE Closes
    <2>1. PICK i : i = server.index
      OBVIOUS
    <2>2. open[i].type # "thinking"
      BY <1>3, <2>1
    <2>3. i \in Indexes /\ open' = [open EXCEPT ![i] = Closed] /\ stopped' = stopped
      BY <1>3, <2>1, <2>2, Closing DEF timeline
    <2>4. Closed.type # "thinking"
      BY DEF Closed
    <2> QED
      BY <1>0, <2>2, <2>3, <2>4
  <1>4. ASSUME \E kind \in Kinds, n \in Nat : Continues(kind, n)
        PROVE  open' = open /\ stopped' = stopped
    BY <1>4 DEF Continues, OnBlockDelta
  <1>5. ASSUME Starts \/ FeedReturns \/ Quiet  PROVE open' = open /\ stopped' = stopped
    BY <1>5 DEF Starts, OnMessageStart, FeedReturns, Quiet, tables, timeline
  <1> QED
    BY <1>1, <1>2, <1>3, <1>4, <1>5, Cases

\* No thinking is open at the start, ...
LEMMA PairsInit == Init => PairsOK
  <1> SUFFICES ASSUME Init  PROVE PairsOK
    OBVIOUS
  <1>1. DOMAIN out = {}
    BY DEF Init
  <1>2. Ends = {} /\ At("thinking_start") = {}
    BY <1>1 DEF Ends, At
  <1>3. \A i \in Indexes : open[i] = Closed /\ open[i].type # "thinking"
    BY DEF Init, Closed
  <1> QED
    BY <1>2, <1>3 DEF PairsOK, Begun

\* ... and every step keeps starts and ends in pairs.
LEMMA PairsStep == ASSUME BaseOK, PairsOK, [Next]_vars PROVE PairsOK'
  <1>0. open \in [Indexes -> [type : Types \cup {"none"}, start : 0..now]] /\ Indexes \subseteq Nat
    BY Typed DEF BaseOK, OpenOK
  <1>1. CASE /\ ~Finishes /\ ~("thinking" \in Types /\ Begins("thinking"))
             /\ ~(Closes /\ open[server.index].type = "thinking")
    <2>1. Keeps("thinking_start") /\ Keeps("thinking_end")
      BY <1>1, Keeping
    <2>2. /\ At("thinking_start")' = At("thinking_start") /\ Ends' = Ends
          /\ \A k \in At("thinking_start") : out'[k] = out[k]
          /\ \A k \in Ends : out'[k] = out[k]
      BY <2>1 DEF Keeps, Ends
    <2>3. \A i : (Begun(i)' <=> Begun(i)) /\ (Ended(i)' <=> Ended(i))
      BY <2>2 DEF Begun, Ended
    <2>4. /\ \A i \in Indexes : open'[i].type = "thinking" <=> open[i].type = "thinking"
          /\ stopped' = stopped
      BY <1>1, SameThinking
    <2>5. \A i \in Indexes : Ahead(i)' => Ahead(i) /\ open'[i] = open[i]
      BY Untouched
    <2>6. \A j, k \in Ends' : out'[j].index = out'[k].index => j = k
      BY <2>2 DEF PairsOK
    <2>7. \A k \in Ends' : /\ out'[k].index \in Indexes
                           /\ \E j \in At("thinking_start")' : j < k /\ out'[j].index = out'[k].index
      BY <2>2 DEF PairsOK
    <2>8. /\ \A j \in At("thinking_start")' : out'[j].index \in Indexes
          /\ \A i \in Indexes : Begun(i)' => open'[i].type = "thinking" \/ Ended(i)'
      BY <2>2, <2>3, <2>4 DEF PairsOK
    <2>9. \A i \in Indexes : open'[i].type = "thinking" => Begun(i)' /\ ~Ended(i)'
      BY <2>3, <2>4 DEF PairsOK
    <2>10. \A i \in Indexes : Ahead(i)' => open'[i] = Closed /\ ~Begun(i)'
      BY <2>3, <2>5 DEF PairsOK
    <2> QED
      BY <2>4, <2>6, <2>7, <2>8, <2>9, <2>10 DEF PairsOK
  <1>2. CASE "thinking" \in Types /\ Begins("thinking")
    <2>1. PICK i : i = server.index
      OBVIOUS
    <2>2. /\ i \in Indexes /\ server.at = "between"
          /\ open' = [open EXCEPT ![i] = [type |-> "thinking", start |-> now]]
          /\ Emits([phase |-> "thinking_start", index |-> i]) /\ stopped' = stopped
      BY <1>2, <2>1, Beginning DEF timeline
    <2>3. PICK n \in Nat \ {0} :
              /\ DOMAIN out = 1..(n - 1) /\ DOMAIN out' = 1..n
              /\ \A k \in 1..(n - 1) : out'[k] = out[k]
              /\ out'[n] = [phase |-> "thinking_start", index |-> i]
              /\ At("thinking_start")' = At("thinking_start") \cup {n}
              /\ At("thinking_end")' = At("thinking_end")
      BY <2>2 DEF Emits
    <2>4. Ends \subseteq 1..(n - 1) /\ At("thinking_start") \subseteq 1..(n - 1) /\ Ends' = Ends
      BY <2>3 DEF Ends, At
    <2>5. i \in Nat /\ i >= i
      BY <1>0, <2>2
    <2>6. Ahead(i)
      BY <2>1, <2>2, <2>5 DEF Ahead
    <2>7. ~Begun(i)
      BY <2>2, <2>6 DEF PairsOK
    <2>8. ~Ended(i)
      BY <2>7 DEF PairsOK, Ended, Begun
    <2>9. \A j : Ended(j)' <=> Ended(j)
      BY <2>3, <2>4 DEF Ended
    <2>10. \A j : Begun(j)' <=> Begun(j) \/ j = i
      BY <2>3, <2>4 DEF Begun
    <2>11. /\ open'[i].type = "thinking"
           /\ \A j \in Indexes : j # i => open'[j] = open[j]
      BY <1>0, <2>2
    <2>12. \A j, k \in Ends' : out'[j].index = out'[k].index => j = k
      BY <2>3, <2>4 DEF PairsOK
    <2>13. \A k \in Ends' : /\ out'[k].index \in Indexes
                            /\ \E j \in At("thinking_start")' : j < k /\ out'[j].index = out'[k].index
      BY <2>3, <2>4 DEF PairsOK
    <2>14. /\ \A j \in At("thinking_start")' : out'[j].index \in Indexes
           /\ \A j \in Indexes : Begun(j)' => open'[j].type = "thinking" \/ Ended(j)'
      <3>1. \A j \in At("thinking_start") : out'[j].index \in Indexes
        BY <2>3, <2>4 DEF PairsOK
      <3>2. out'[n].index \in Indexes
        BY <2>2, <2>3
      <3> QED
        BY <2>3, <2>9, <2>10, <2>11, <3>1, <3>2 DEF PairsOK
    <2>15. \A j \in Indexes : open'[j].type = "thinking" => Begun(j)' /\ ~Ended(j)'
      BY <2>8, <2>9, <2>10, <2>11 DEF PairsOK
    <2>16. \A j \in Indexes : Ahead(j)' => Ahead(j) /\ open'[j] = open[j] /\ j # i
      BY <1>2, <2>1, Untouched
    <2>17. \A j \in Indexes : Ahead(j)' => open'[j] = Closed /\ ~Begun(j)'
      BY <2>10, <2>16 DEF PairsOK
    <2>18. ~stopped'
      BY <2>2 DEF BaseOK, ServerOK
    <2> QED
      BY <2>12, <2>13, <2>14, <2>15, <2>17, <2>18 DEF PairsOK
  <1>3. CASE Closes /\ open[server.index].type = "thinking"
    <2>1. PICK i : i = server.index
      OBVIOUS
    <2>2. /\ i \in Indexes /\ open[i].type = "thinking"
          /\ open' = [open EXCEPT ![i] = Closed]
          /\ out' = Append(out, ThinkingEnd(i, FALSE)) /\ stopped' = stopped
      BY <1>3, <2>1, Closing DEF timeline
    <2>3. PICK e : e = ThinkingEnd(i, FALSE)
      OBVIOUS
    <2>4. e.phase = "thinking_end" /\ e.index = i
      BY <2>3 DEF ThinkingEnd
    <2>5. Emits(e)
      BY <2>2, <2>3, Emission DEF BaseOK
    <2>6. PICK n \in Nat \ {0} :
              /\ DOMAIN out = 1..(n - 1) /\ DOMAIN out' = 1..n
              /\ \A k \in 1..(n - 1) : out'[k] = out[k]
              /\ out'[n] = e
              /\ At("thinking_start")' = At("thinking_start")
              /\ At("thinking_end")' = At("thinking_end") \cup {n}
      BY <2>4, <2>5 DEF Emits
    <2>7. /\ Ends \subseteq 1..(n - 1) /\ At("thinking_start") \subseteq 1..(n - 1)
          /\ Ends' = Ends \cup {n}
      BY <2>6 DEF Ends, At
    <2>8. Begun(i) /\ ~Ended(i)
      BY <2>2 DEF PairsOK
    <2>9. \A j : Ended(j)' <=> Ended(j) \/ j = i
      BY <2>4, <2>6, <2>7 DEF Ended
    <2>10. \A j : Begun(j)' <=> Begun(j)
      BY <2>6, <2>7 DEF Begun
    <2>11. /\ open'[i].type # "thinking"
           /\ \A j \in Indexes : j # i => open'[j] = open[j]
      BY <1>0, <2>2 DEF Closed
    <2>12. \A j, k \in Ends' : out'[j].index = out'[k].index => j = k
      <3>1. \A j \in Ends : out'[j] = out[j] /\ out[j].index # i
        BY <2>6, <2>7, <2>8 DEF Ended
      <3> QED
        BY <2>4, <2>6, <2>7, <3>1 DEF PairsOK
    <2>13. ASSUME NEW k \in Ends'
           PROVE  /\ out'[k].index \in Indexes
                  /\ \E j \in At("thinking_start")' : j < k /\ out'[j].index = out'[k].index
      <3>1. CASE k \in Ends
        BY <2>6, <2>7, <3>1 DEF PairsOK
      <3>2. CASE k = n
        <4>1. PICK j \in At("thinking_start") : out[j].index = i
          BY <2>8 DEF Begun
        <4>2. j \in 1..(n - 1) /\ j < n
          BY <2>7, <4>1
        <4> QED
          BY <2>2, <2>4, <2>6, <3>2, <4>1, <4>2
      <3> QED
        BY <2>7, <3>1, <3>2
    <2>14. /\ \A j \in At("thinking_start")' : out'[j].index \in Indexes
           /\ \A j \in Indexes : Begun(j)' => open'[j].type = "thinking" \/ Ended(j)'
      <3>1. \A j \in At("thinking_start") : out'[j].index \in Indexes
        BY <2>6, <2>7 DEF PairsOK
      <3> QED
        BY <2>6, <2>9, <2>10, <2>11, <3>1 DEF PairsOK
    <2>15. \A j \in Indexes : open'[j].type = "thinking" => Begun(j)' /\ ~Ended(j)'
      BY <2>9, <2>10, <2>11 DEF PairsOK
    <2>16. \A j \in Indexes : Ahead(j)' => Ahead(j) /\ open'[j] = open[j]
      BY Untouched
    <2>17. \A j \in Indexes : Ahead(j)' => open'[j] = Closed /\ ~Begun(j)'
      BY <2>10, <2>16 DEF PairsOK
    <2>18. ~stopped'
      <3>1. server.at = "inside"
        BY <1>3 DEF Closes
      <3> QED
        BY <2>2, <3>1 DEF BaseOK, ServerOK
    <2> QED
      BY <2>12, <2>13, <2>14, <2>15, <2>17, <2>18 DEF PairsOK
  <1>4. CASE Finishes
    <2>1. PICK ids, c : Listed(ids, c) /\ Concludes(ids, c, Response)
      BY <1>4, Finishing
    <2>2. PICK n \in Nat :
              /\ DOMAIN out = 1..n /\ DOMAIN out' = 1..(n + c + 1)
              /\ \A k \in 1..n : out'[k] = out[k]
              /\ \A k \in 1..c : out'[n + k] = ThinkingEnd(ids[k], TRUE)
              /\ Ends' = Ends \cup {n + k : k \in 1..c}
              /\ At("thinking_start")' = At("thinking_start")
      BY <2>1 DEF Concludes
    <2>3. /\ c \in Nat /\ \A k \in 1..c : ids[k] \in StillThinking
          /\ \A j, k \in 1..c : ids[j] = ids[k] => j = k
          /\ \A i \in StillThinking : \E k \in 1..c : ids[k] = i
      BY <2>1 DEF Listed, Range
    <2>4. Ends \subseteq 1..n /\ At("thinking_start") \subseteq 1..n
      BY <2>2 DEF Ends, At
    <2>5. \A k \in 1..c : out'[n + k].index = ids[k] /\ n + k > n /\ n + k \in Nat
      <3>1. \A k \in 1..c : ThinkingEnd(ids[k], TRUE).index = ids[k]
        BY DEF ThinkingEnd
      <3>2. \A k \in 1..c : out'[n + k].index = ids[k]
        BY <2>2, <3>1
      <3>3. \A k \in 1..c : n + k > n /\ n + k \in Nat
        BY <2>3
      <3> QED
        BY <3>2, <3>3
    <2>6. \A i \in StillThinking : i \in Indexes /\ Begun(i) /\ ~Ended(i)
      BY DEF StillThinking, PairsOK
    <2>7. \A i : Ended(i)' <=> Ended(i) \/ i \in StillThinking
      <3> SUFFICES ASSUME NEW i  PROVE Ended(i)' <=> Ended(i) \/ i \in StillThinking
        OBVIOUS
      <3>1. ASSUME Ended(i)'  PROVE Ended(i) \/ i \in StillThinking
        <4>1. PICK k \in Ends' : out'[k].index = i
          BY <3>1 DEF Ended
        <4>2. CASE k \in Ends
          BY <2>2, <2>4, <4>1, <4>2 DEF Ended
        <4>3. CASE \E m \in 1..c : k = n + m
          BY <2>3, <2>5, <4>1, <4>3
        <4> QED
          BY <2>2, <4>2, <4>3
      <3>2. ASSUME Ended(i)  PROVE Ended(i)'
        BY <2>2, <2>4, <3>2 DEF Ended
      <3>3. ASSUME i \in StillThinking  PROVE Ended(i)'
        BY <2>2, <2>3, <2>5, <3>3 DEF Ended
      <3> QED
        BY <3>1, <3>2, <3>3
    <2>8. \A i : Begun(i)' <=> Begun(i)
      BY <2>2, <2>4 DEF Begun
    <2>9. \A i \in Indexes : open'[i].type # "thinking"
      <3>1. open' = [i \in Indexes |-> IF i \in StillThinking THEN Closed ELSE open[i]]
        BY <1>4, Finishing
      <3> QED
        BY <3>1 DEF StillThinking, Closed
    <2>10. \A j, k \in Ends' : out'[j].index = out'[k].index => j = k
      <3>1. \A j \in Ends : out'[j] = out[j] /\ out[j].index \notin StillThinking
        BY <2>2, <2>4, <2>6 DEF Ended
      <3>2. \A j, k \in Ends : out'[j].index = out'[k].index => j = k
        BY <3>1 DEF PairsOK
      <3>3. \A j \in Ends, k \in 1..c : out'[j].index # out'[n + k].index
        BY <2>3, <2>5, <3>1
      <3>4. \A j, k \in 1..c : out'[n + j].index = out'[n + k].index => n + j = n + k
        BY <2>3, <2>5
      <3>5. \A k \in Ends' : k \in Ends \/ \E m \in 1..c : k = n + m
        BY <2>2
      <3> SUFFICES ASSUME NEW j \in Ends', NEW k \in Ends', out'[j].index = out'[k].index
                   PROVE  j = k
        OBVIOUS
      <3>6. CASE j \in Ends /\ k \in Ends
        BY <3>2, <3>6
      <3>7. CASE j \in Ends /\ \E m \in 1..c : k = n + m
        BY <3>3, <3>7
      <3>8. CASE k \in Ends /\ \E m \in 1..c : j = n + m
        BY <3>3, <3>8
      <3>9. CASE (\E m \in 1..c : j = n + m) /\ (\E m \in 1..c : k = n + m)
        BY <3>4, <3>9
      <3> QED
        BY <3>5, <3>6, <3>7, <3>8, <3>9
    <2>11. ASSUME NEW k \in Ends'
           PROVE  /\ out'[k].index \in Indexes
                  /\ \E j \in At("thinking_start")' : j < k /\ out'[j].index = out'[k].index
      <3>1. CASE k \in Ends
        <4>1. out'[k] = out[k]
          BY <2>2, <2>4, <3>1
        <4>2. /\ out[k].index \in Indexes
              /\ \E j \in At("thinking_start") : j < k /\ out[j].index = out[k].index
          BY <3>1 DEF PairsOK
        <4>3. \A j \in At("thinking_start") : out'[j] = out[j]
          BY <2>2, <2>4
        <4> QED
          BY <2>2, <4>1, <4>2, <4>3
      <3>2. CASE \E m \in 1..c : k = n + m
        <4>1. PICK m \in 1..c : k = n + m
          BY <3>2
        <4>2. ids[m] \in Indexes /\ Begun(ids[m])
          BY <2>3, <2>6
        <4>3. PICK j \in At("thinking_start") : out[j].index = ids[m]
          BY <4>2 DEF Begun
        <4>4. j \in 1..n /\ j < k
          BY <2>3, <2>4, <2>5, <4>1, <4>3
        <4> QED
          BY <2>2, <2>5, <4>1, <4>2, <4>3, <4>4
      <3> QED
        BY <2>2, <3>1, <3>2
    <2>12. /\ \A j \in At("thinking_start")' : out'[j].index \in Indexes
           /\ \A i \in Indexes : Begun(i)' => Ended(i)'
      <3>1. \A j \in At("thinking_start") : out'[j].index \in Indexes
        BY <2>2, <2>4 DEF PairsOK
      <3> QED
        BY <2>2, <2>7, <2>8, <3>1 DEF PairsOK, StillThinking
    <2>13. \A i \in Indexes : ~Ahead(i)'
      BY <1>4, Untouched
    <2> QED
      BY <2>9, <2>10, <2>11, <2>12, <2>13 DEF PairsOK
  <1> QED
    BY <1>1, <1>2, <1>3, <1>4

\* Every thinking block that was started ends once: _emit_thinking_end takes the
\* block out of _block_open, and _on_message_stop ends those left there.
THEOREM ThinkingEndsOnceThm == Spec => []ThinkingEndsOnce
  <1>1. Init => BaseOK /\ PairsOK
    BY BaseInit, PairsInit
  <1>2. BaseOK /\ PairsOK /\ [Next]_vars => (BaseOK /\ PairsOK)'
    BY BaseStep, PairsStep
  <1>3. BaseOK /\ PairsOK => ThinkingEndsOnce
    BY DEF PairsOK, ThinkingEndsOnce, Begun, Ended
  <1> QED
    BY <1>1, <1>2, <1>3, PTL DEF Spec

-----------------------------------------------------------------------------
(* Progress is paced.                                                      *)

ProgressOK ==
    /\ lastProgress # None => started # None /\ lastProgress >= started + Interval
    /\ \A k \in At("progress") : /\ out[k].ts \in Nat /\ out[k].chars \in Nat
                                 /\ lastProgress # None /\ out[k].ts <= lastProgress
                                 /\ out[k].ts >= started + Interval /\ out[k].chars <= total.out
    /\ \A j, k \in At("progress") :
           j < k => out[k].ts >= out[j].ts + Interval /\ out[j].chars <= out[k].chars
    /\ stopped => Last(out).phase = "response_end"

\* Nothing was reported at the start, ...
LEMMA ProgressInit == Init => ProgressOK
  <1> SUFFICES ASSUME Init  PROVE ProgressOK
    OBVIOUS
  <1>1. DOMAIN out = {} /\ lastProgress = None /\ stopped = FALSE
    BY DEF Init
  <1>2. At("progress") = {}
    BY <1>1 DEF At
  <1> QED
    BY <1>1, <1>2 DEF ProgressOK

\* What no step but FeedReturns changes.
LEMMA SamePace ==
    ASSUME BaseOK, [Next]_vars, ~FeedReturns
    PROVE  /\ lastProgress' = lastProgress /\ total'.out >= total.out
           /\ started' = started \/ started = None
           /\ stopped => stopped' /\ out' = out
           /\ stopped' => stopped \/ Finishes
  <1>0. total.out \in Nat
    BY Typed
  <1>s. stopped => server.at = "done"
    BY DEF BaseOK, ServerOK
  <1>1. CASE Starts
    BY <1>0, <1>1, <1>s DEF Starts, OnMessageStart, BaseOK, ServerOK
  <1>2. CASE \E type \in Types : Begins(type)
    BY <1>0, <1>2, <1>s DEF Begins, OnBlockStart, timeline
  <1>3. CASE \E kind \in Kinds, n \in Nat : Continues(kind, n)
    <2>1. PICK kind \in Kinds, n \in Nat : Continues(kind, n)
      BY <1>3
    <2>2. /\ total' = [total EXCEPT !.out = @ + n,
                                    !.chars = IF kind = "thinking" THEN @ + n ELSE @]
          /\ UNCHANGED <<started, lastProgress, stopped>> /\ server.at = "inside"
      BY <2>1 DEF Continues, OnBlockDelta
    <2>3. total' = [ms |-> total.ms, chars |-> IF kind = "thinking" THEN total.chars + n ELSE total.chars,
                    blocks |-> total.blocks, interrupted |-> total.interrupted,
                    out |-> total.out + n]
      BY <2>2, Typed
    <2> QED
      BY <1>0, <1>s, <2>2, <2>3
  <1>4. CASE Closes
    <2>1. PICK i : i = server.index
      OBVIOUS
    <2>2. UNCHANGED timeline /\ server.at = "inside"
      BY <1>4, <2>1, Closing DEF Closes
    <2>3. total'.out = total.out
      <3>1. CASE open[i].type = "thinking"
        <4>1. total' = [ms |-> total.ms + (now - open[i].start), chars |-> total.chars,
                        blocks |-> total.blocks + 1, interrupted |-> total.interrupted,
                        out |-> total.out]
          BY <1>4, <2>1, <3>1, Closing
        <4> QED
          BY <4>1
      <3>2. CASE open[i].type # "thinking"
        BY <1>4, <2>1, <3>2, Closing
      <3> QED
        BY <3>1, <3>2
    <2> QED
      BY <1>0, <1>s, <2>2, <2>3 DEF timeline
  <1>5. CASE Finishes
    <2>1. PICK w, p : w = SumFunctionOnSet(Elapsed, StillThinking) /\ p = Cardinality(StillThinking)
      OBVIOUS
    <2>2. /\ total' = [ms |-> total.ms + w, chars |-> total.chars, blocks |-> total.blocks + p,
                       interrupted |-> total.interrupted \/ StillThinking # {}, out |-> total.out]
          /\ UNCHANGED <<started, lastProgress>> /\ server.at \in {"between", "inside"}
      BY <1>5, <2>1, Finishing
    <2> QED
      BY <1>0, <1>5, <1>s, <2>2
  <1>6. CASE Quiet
    BY <1>0, <1>6 DEF Quiet, timeline
  <1> QED
    BY <1>1, <1>2, <1>3, <1>4, <1>5, <1>6, Cases

\* ... and every step keeps reports of progress apart.
LEMMA ProgressStep == ASSUME BaseOK, ProgressOK, [Next]_vars PROVE ProgressOK'
  <1>0. /\ now \in Nat /\ total.out \in Nat /\ Interval \in Nat
        /\ started \in None..now /\ lastProgress \in None..now
    BY Typed, BoundsAssumption DEF BaseOK, TimesOK, Past
  <1>1. CASE FeedReturns
    <2>1. PICK e : Emits(e) /\ e.phase = "progress" /\ e.ts = now /\ e.chars = total.out
      BY <1>1, Progressing
    <2>2. PICK n \in Nat \ {0} :
              /\ DOMAIN out = 1..(n - 1)
              /\ \A k \in 1..(n - 1) : out'[k] = out[k]
              /\ out'[n] = e
              /\ At("progress")' = At("progress") \cup {n}
      BY <2>1 DEF Emits
    <2>3. At("progress") \subseteq 1..(n - 1)
      BY <2>2 DEF At
    <2>4. /\ lastProgress' = now /\ started' = started /\ total' = total
          /\ started # None /\ ~stopped'
          /\ lastProgress = None => now - started >= Interval
          /\ lastProgress # None => now - lastProgress >= Interval
      BY <1>1 DEF FeedReturns, Live, SinceProgress
    <2>5. now # None /\ now >= started + Interval
      <3>1. CASE lastProgress = None
        BY <1>0, <2>4, <3>1 DEF None
      <3>2. CASE lastProgress # None
        BY <1>0, <2>4, <3>2 DEF None, ProgressOK
      <3> QED
        BY <3>1, <3>2
    <2>6. ASSUME NEW k \in At("progress")
          PROVE  /\ out'[k] = out[k] /\ k \in Nat /\ k < n
                 /\ out[k].ts \in Nat /\ out[k].chars \in Nat
                 /\ out[k].ts <= now /\ out[k].ts >= started + Interval
                 /\ now >= out[k].ts + Interval /\ out[k].chars <= total.out
      <3>1. k \in 1..(n - 1) /\ out'[k] = out[k]
        BY <2>2, <2>3
      <3>2. k \in Nat /\ k < n
        BY <2>2, <3>1
      <3>3. /\ out[k].ts \in Nat /\ out[k].chars \in Nat
            /\ lastProgress # None /\ out[k].ts <= lastProgress
            /\ out[k].ts >= started + Interval /\ out[k].chars <= total.out
        BY DEF ProgressOK
      <3>4. lastProgress \in Nat
        BY <1>0, <3>3 DEF None
      <3>5. \A t, l, m, i \in Nat : t <= l /\ m - l >= i => t <= m /\ m >= t + i
        OBVIOUS
      <3>6. out[k].ts <= now /\ now >= out[k].ts + Interval
        BY <1>0, <2>4, <3>3, <3>4, <3>5
      <3> QED
        BY <3>1, <3>2, <3>3, <3>6
    <2>7. ASSUME NEW k \in At("progress")'
          PROVE  /\ out'[k].ts \in Nat /\ out'[k].chars \in Nat
                 /\ lastProgress' # None /\ out'[k].ts <= lastProgress'
                 /\ out'[k].ts >= started' + Interval /\ out'[k].chars <= total'.out
      <3>1. CASE k = n
        BY <1>0, <2>1, <2>2, <2>4, <2>5, <3>1
      <3>2. CASE k \in At("progress")
        BY <2>4, <2>5, <2>6, <3>2
      <3> QED
        BY <2>2, <3>1, <3>2
    <2>8. ASSUME NEW j \in At("progress")', NEW k \in At("progress")', j < k
          PROVE  out'[k].ts >= out'[j].ts + Interval /\ out'[j].chars <= out'[k].chars
      <3>1. CASE j \in At("progress") /\ k \in At("progress")
        BY <2>6, <2>8, <3>1 DEF ProgressOK
      <3>2. CASE j \in At("progress") /\ k = n
        BY <2>1, <2>2, <2>6, <3>2
      <3>3. CASE j = n
        <4>1. k \in Nat /\ k <= n
          BY <2>2, <2>6
        <4> QED
          BY <2>2, <2>8, <3>3, <4>1
      <3> QED
        BY <2>2, <3>1, <3>2, <3>3
    <2> QED
      BY <2>4, <2>5, <2>7, <2>8 DEF ProgressOK
  <1>2. CASE ~FeedReturns
    <2>1. /\ lastProgress' = lastProgress /\ total'.out >= total.out
          /\ started' = started \/ started = None
          /\ stopped => stopped' /\ out' = out
          /\ stopped' => stopped \/ Finishes
      BY <1>2, SamePace
    <2>2. At("progress")' = At("progress") /\ \A k \in At("progress") : out'[k] = out[k]
      BY <1>2, Keeping DEF Keeps
    <2>3. BaseOK'
      BY BaseStep
    <2>4. total'.out \in Nat
      BY <2>3 DEF BaseOK, TotalOK
    <2>5. lastProgress # None => started' = started
      BY <2>1 DEF ProgressOK
    <2>6. lastProgress' # None => started' # None /\ lastProgress' >= started' + Interval
      BY <2>1, <2>5 DEF ProgressOK
    <2>7. ASSUME NEW k \in At("progress")'
          PROVE  /\ out'[k].ts \in Nat /\ out'[k].chars \in Nat
                 /\ lastProgress' # None /\ out'[k].ts <= lastProgress'
                 /\ out'[k].ts >= started' + Interval /\ out'[k].chars <= total'.out
      <3>1. /\ out[k].ts \in Nat /\ out[k].chars \in Nat
            /\ lastProgress # None /\ out[k].ts <= lastProgress
            /\ out[k].ts >= started + Interval /\ out[k].chars <= total.out
            /\ out'[k] = out[k]
        BY <2>2 DEF ProgressOK
      <3>2. out[k].chars <= total'.out
        BY <1>0, <2>1, <2>4, <3>1
      <3> QED
        BY <2>1, <2>5, <3>1, <3>2
    <2>8. \A j, k \in At("progress")' :
              j < k => out'[k].ts >= out'[j].ts + Interval /\ out'[j].chars <= out'[k].chars
      BY <2>2 DEF ProgressOK
    <2>9. stopped' => Last(out').phase = "response_end"
      <3>1. ASSUME Finishes  PROVE Last(out').phase = "response_end"
        <4>1. PICK ids, c : Concludes(ids, c, Response)
          BY <3>1, Finishing
        <4> QED
          BY <4>1 DEF Concludes, Response
      <3>2. CASE stopped
        BY <2>1, <3>2 DEF ProgressOK
      <3> QED
        BY <2>1, <3>1, <3>2
    <2> QED
      BY <2>6, <2>7, <2>8, <2>9 DEF ProgressOK
  <1> QED
    BY <1>1, <1>2

\* Progress events are an interval apart, and none follows the end of the response.
THEOREM ProgressIsPacedThm == Spec => []ProgressIsPaced
  <1>1. Init => BaseOK /\ ProgressOK
    BY BaseInit, ProgressInit
  <1>2. BaseOK /\ ProgressOK /\ [Next]_vars => (BaseOK /\ ProgressOK)'
    BY BaseStep, ProgressStep
  <1>3. BaseOK /\ ProgressOK => ProgressIsPaced
    BY DEF ProgressOK, ProgressIsPaced
  <1> QED
    BY <1>1, <1>2, <1>3, PTL DEF Spec

-----------------------------------------------------------------------------
(* A gap is measured once.                                                 *)

\* The event m leaves the end of the latest thinking block to be measured from.
Plain(m) == /\ out[m].phase # "thinking_end"
            /\ out[m].phase = "generation_start" => out[m].gap = None

Latest(t) ==
    \E j \in DOMAIN out : /\ out[j].phase = "thinking_end" /\ out[j].ts = t
                          /\ \A m \in DOMAIN out : m > j => Plain(m)

GapOK == GapMeasuredOnce /\ (thinkingEnd # None => Latest(thinkingEnd))

\* Events are added to the list, those from n on.
Longer(n, l) == /\ n \in Nat /\ l \in Nat /\ n <= l
                /\ DOMAIN out = 1..n /\ DOMAIN out' = 1..l
                /\ \A k \in 1..n : out'[k] = out[k]

\* One more event, at the end.
LEMMA EmitsLonger ==
    ASSUME NEW e, Emits(e)
    PROVE  \E n, l : Longer(n, l) /\ out'[l] = e /\ l = n + 1
  <1>1. PICK n \in Nat \ {0} : /\ DOMAIN out = 1..(n - 1) /\ DOMAIN out' = 1..n
                               /\ \A k \in 1..(n - 1) : out'[k] = out[k]
                               /\ out'[n] = e
    BY DEF Emits
  <1>2. n - 1 \in Nat /\ n - 1 <= n /\ n = (n - 1) + 1
    OBVIOUS
  <1> QED
    BY <1>1, <1>2 DEF Longer

\* Events that measure no gap keep it measured once at most.
LEMMA GapsKept ==
    ASSUME GapMeasuredOnce, NEW n, NEW l, Longer(n, l),
           \A k \in (n + 1)..l : out'[k].phase = "generation_start" => out'[k].gap = None
    PROVE  GapMeasuredOnce'
  <1> SUFFICES ASSUME NEW k \in DOMAIN out', out'[k].phase = "generation_start", out'[k].gap # None
               PROVE  \E j \in 1..(k - 1) :
                          /\ out'[j].phase = "thinking_end"
                          /\ out'[k].gap = out'[k].ts - out'[j].ts
                          /\ \A m \in (j + 1)..(k - 1) :
                                 /\ out'[m].phase # "thinking_end"
                                 /\ out'[m].phase = "generation_start" => out'[m].gap = None
    BY DEF GapMeasuredOnce
  <1>1. k \in 1..n
    BY DEF Longer
  <1>2. out'[k] = out[k] /\ k \in DOMAIN out
    BY <1>1 DEF Longer
  <1>3. PICK j \in 1..(k - 1) :
            /\ out[j].phase = "thinking_end"
            /\ out[k].gap = out[k].ts - out[j].ts
            /\ \A m \in (j + 1)..(k - 1) :
                   /\ out[m].phase # "thinking_end"
                   /\ out[m].phase = "generation_start" => out[m].gap = None
    BY <1>2 DEF GapMeasuredOnce
  <1>4. j \in 1..n /\ \A m \in (j + 1)..(k - 1) : m \in 1..n
    BY <1>1 DEF Longer
  <1>5. out'[j] = out[j] /\ \A m \in (j + 1)..(k - 1) : out'[m] = out[m]
    BY <1>4 DEF Longer
  <1> QED
    BY <1>2, <1>3, <1>5

\* Plain events leave the latest end of thinking where it was.
LEMMA LatestKept ==
    ASSUME NEW t, Latest(t), NEW n, NEW l, Longer(n, l), \A k \in (n + 1)..l : Plain(k)'
    PROVE  Latest(t)'
  <1>1. PICK j \in DOMAIN out : /\ out[j].phase = "thinking_end" /\ out[j].ts = t
                                /\ \A m \in DOMAIN out : m > j => Plain(m)
    BY DEF Latest
  <1>2. j \in DOMAIN out' /\ out'[j] = out[j]
    BY <1>1 DEF Longer
  <1>3. ASSUME NEW m \in DOMAIN out', m > j  PROVE Plain(m)'
    <2>1. CASE m \in 1..n
      <3>1. m \in DOMAIN out /\ out'[m] = out[m]
        BY <2>1 DEF Longer
      <3>2. Plain(m)
        BY <1>1, <1>3, <3>1
      <3> QED
        BY <3>1, <3>2 DEF Plain
    <2>2. CASE m \notin 1..n
      <3>1. m \in (n + 1)..l
        BY <2>2 DEF Longer
      <3> QED
        BY <3>1
    <2> QED
      BY <2>1, <2>2
  <1> QED
    BY <1>1, <1>2, <1>3 DEF Latest

\* One event that is neither the end of a thinking block nor has a gap.
LEMMA GapOneMore ==
    ASSUME GapOK, NEW e, Emits(e), thinkingEnd' = thinkingEnd,
           e.phase # "thinking_end", e.phase = "generation_start" => e.gap = None
    PROVE  GapOK'
  <1>1. PICK n, l : Longer(n, l) /\ out'[l] = e /\ l = n + 1
    BY EmitsLonger
  <1>2. \A k \in (n + 1)..l : out'[k] = e
    BY <1>1 DEF Longer
  <1>3. GapMeasuredOnce'
    BY <1>1, <1>2, GapsKept DEF GapOK
  <1>4. \A k \in (n + 1)..l : Plain(k)'
    BY <1>2 DEF Plain
  <1>5. ASSUME thinkingEnd' # None  PROVE Latest(thinkingEnd)'
    <2>1. PICK t : t = thinkingEnd
      OBVIOUS
    <2>2. Latest(t)
      BY <1>5, <2>1 DEF GapOK
    <2>3. Latest(t)'
      BY <1>1, <1>4, <2>2, LatestKept
    <2> QED
      BY <2>1, <2>3 DEF Latest
  <1> QED
    BY <1>3, <1>5 DEF GapOK

\* Every step keeps the gap one between the end of thinking and the next start.
LEMMA GapStep == ASSUME BaseOK, GapOK, [Next]_vars PROVE GapOK'
  <1>0. /\ now \in Nat /\ IsList(out)
        /\ thinkingEnd \in None..now
    BY Typed DEF BaseOK, TimesOK, Past
  <1>1. CASE Starts
    <2>1. PICK e : e = [phase |-> "request_start", ttfb |-> now]
      OBVIOUS
    <2>2. out' = Append(out, e) /\ thinkingEnd' = thinkingEnd
      BY <1>1, <2>1 DEF Starts, OnMessageStart, tables
    <2>3. Emits(e) /\ e.phase = "request_start"
      BY <1>0, <2>1, <2>2, Emission
    <2> QED
      BY <2>2, <2>3, GapOneMore
  <1>2. CASE \E type \in Types : Begins(type)
    <2>1. PICK type \in Types : Begins(type)
      BY <1>2
    <2>2. PICK i : i = server.index
      OBVIOUS
    <2>3. thinkingEnd' = IF Gap(type) # None THEN None ELSE thinkingEnd
      BY <2>1, <2>2, Beginning
    <2>4. CASE type = "thinking"
      <3>1. PICK e : e = [phase |-> "thinking_start", index |-> i]
        OBVIOUS
      <3>2. Emits(e) /\ e.phase = "thinking_start"
        BY <2>1, <2>2, <2>4, <3>1, Beginning
      <3>3. thinkingEnd' = thinkingEnd
        BY <2>3, <2>4 DEF Gap
      <3> QED
        BY <3>2, <3>3, GapOneMore
    <2>5. CASE type \in {"text", "tool_use"}
      <3>1. PICK e : e = [phase |-> "generation_start", index |-> i, ts |-> now, gap |-> Gap(type)]
        OBVIOUS
      <3>2. Emits(e) /\ e.phase = "generation_start" /\ e.gap = Gap(type) /\ e.ts = now
        BY <2>1, <2>2, <2>5, <3>1, Beginning
      <3>3. CASE Gap(type) = None
        <4>1. thinkingEnd' = thinkingEnd
          BY <2>3, <3>3
        <4> QED
          BY <3>2, <3>3, <4>1, GapOneMore
      <3>4. CASE Gap(type) # None
        <4>1. thinkingEnd # None /\ Gap(type) = now - thinkingEnd /\ thinkingEnd' = None
          BY <2>3, <3>4 DEF Gap
        <4>2. PICK j \in DOMAIN out :
                  /\ out[j].phase = "thinking_end" /\ out[j].ts = thinkingEnd
                  /\ \A m \in DOMAIN out : m > j => Plain(m)
          BY <4>1 DEF GapOK, Latest
        <4>3. PICK n, l : Longer(n, l) /\ out'[l] = e /\ l = n + 1
          BY <3>2, EmitsLonger
        <4>4. /\ n \in Nat /\ DOMAIN out = 1..n /\ DOMAIN out' = 1..l
              /\ \A k \in 1..n : out'[k] = out[k]
          BY <4>3 DEF Longer
        <4>5. \A m \in (j + 1)..(l - 1) : /\ out'[m].phase # "thinking_end"
                                          /\ out'[m].phase = "generation_start" => out'[m].gap = None
          <5>1. \A m \in (j + 1)..(l - 1) : m \in 1..n /\ m > j
            BY <4>2, <4>3, <4>4
          <5> QED
            BY <4>2, <4>4, <5>1 DEF Plain
        <4>6. /\ out'[j].phase = "thinking_end" /\ out'[l].gap = out'[l].ts - out'[j].ts
              /\ j \in 1..(l - 1)
          BY <3>2, <4>1, <4>2, <4>3, <4>4
        <4>7. \A k \in DOMAIN out' : k \in 1..n \/ k = l
          BY <4>3, <4>4
        <4>8. GapMeasuredOnce'
          <5> SUFFICES ASSUME NEW k \in DOMAIN out', out'[k].phase = "generation_start", out'[k].gap # None
                       PROVE  \E i1 \in 1..(k - 1) :
                                /\ out'[i1].phase = "thinking_end"
                                /\ out'[k].gap = out'[k].ts - out'[i1].ts
                                /\ \A m \in (i1 + 1)..(k - 1) :
                                       /\ out'[m].phase # "thinking_end"
                                       /\ out'[m].phase = "generation_start" => out'[m].gap = None
            BY DEF GapMeasuredOnce
          <5>1. CASE k = l
            BY <4>5, <4>6, <5>1
          <5>2. CASE k \in 1..n
            <6>1. PICK i1 \in 1..(k - 1) :
                      /\ out[i1].phase = "thinking_end"
                      /\ out[k].gap = out[k].ts - out[i1].ts
                      /\ \A m \in (i1 + 1)..(k - 1) :
                             /\ out[m].phase # "thinking_end"
                             /\ out[m].phase = "generation_start" => out[m].gap = None
              BY <4>4, <5>2 DEF GapOK, GapMeasuredOnce
            <6>2. i1 \in 1..n /\ \A m \in (i1 + 1)..(k - 1) : m \in 1..n
              BY <4>4, <5>2
            <6> QED
              BY <4>4, <5>2, <6>1, <6>2
          <5> QED
            BY <4>7, <5>1, <5>2
        <4> QED
          BY <4>1, <4>8 DEF GapOK
      <3> QED
        BY <3>3, <3>4
    <2>6. CASE type = "other"
      <3>1. out' = out /\ thinkingEnd' = thinkingEnd
        BY <2>1, <2>2, <2>3, <2>6, Beginning DEF Gap
      <3> QED
        BY <3>1 DEF GapOK, GapMeasuredOnce, Latest, Plain
    <2> QED
      BY <2>1, <2>2, <2>4, <2>5, <2>6, Beginning
  <1>3. CASE \E kind \in Kinds, n \in Nat : Continues(kind, n)
    <2>1. PICK e : e = [phase |-> "first_token", ttft |-> now]
      OBVIOUS
    <2>2. (out' = out \/ out' = Append(out, e)) /\ thinkingEnd' = thinkingEnd
      BY <1>3, <2>1 DEF Continues, OnBlockDelta
    <2>3. CASE out' = out
      BY <2>2, <2>3 DEF GapOK, GapMeasuredOnce, Latest, Plain
    <2>4. CASE out' = Append(out, e)
      <3>1. Emits(e) /\ e.phase = "first_token"
        BY <1>0, <2>1, <2>4, Emission
      <3> QED
        BY <2>2, <3>1, GapOneMore
    <2> QED
      BY <2>2, <2>3, <2>4
  <1>4. CASE Closes
    <2>1. PICK i : i = server.index
      OBVIOUS
    <2>2. CASE open[i].type = "thinking"
      <3>1. PICK e : e = ThinkingEnd(i, FALSE)
        OBVIOUS
      <3>2. out' = Append(out, e) /\ thinkingEnd' = now
        BY <1>4, <2>1, <2>2, <3>1, Closing
      <3>3. Emits(e) /\ e.phase = "thinking_end" /\ e.ts = now
        BY <1>0, <3>1, <3>2, Emission DEF ThinkingEnd
      <3>4. PICK n, l : Longer(n, l) /\ out'[l] = e /\ l = n + 1
        BY <3>3, EmitsLonger
      <3>5. /\ l \in DOMAIN out' /\ ~ \E m \in DOMAIN out' : m > l
            /\ \A k \in (n + 1)..l : k = l
        BY <3>4 DEF Longer
      <3>6. GapMeasuredOnce'
        BY <3>3, <3>4, <3>5, GapsKept DEF GapOK
      <3>7. Latest(thinkingEnd)'
        BY <3>2, <3>3, <3>4, <3>5 DEF Latest
      <3> QED
        BY <3>6, <3>7 DEF GapOK
    <2>3. CASE open[i].type # "thinking"
      <3>1. PICK e : e = [phase |-> "generation_end", index |-> i]
        OBVIOUS
      <3>2. (out' = out \/ out' = Append(out, e)) /\ thinkingEnd' = thinkingEnd
        BY <1>4, <2>1, <2>3, <3>1, Closing
      <3>3. CASE out' = out
        BY <3>2, <3>3 DEF GapOK, GapMeasuredOnce, Latest, Plain
      <3>4. CASE out' = Append(out, e)
        <4>1. Emits(e) /\ e.phase = "generation_end"
          BY <1>0, <3>1, <3>4, Emission
        <4> QED
          BY <3>2, <4>1, GapOneMore
      <3> QED
        BY <3>2, <3>3, <3>4
    <2> QED
      BY <2>2, <2>3
  <1>5. CASE Finishes
    <2>1. PICK ids, c : Listed(ids, c) /\ Concludes(ids, c, Response)
      BY <1>5, Finishing
    <2>2. c \in Nat /\ c = Cardinality(StillThinking) /\ \A k \in 1..c : ids[k] \in StillThinking
      BY <2>1 DEF Listed
    <2>3. PICK n \in Nat :
              /\ DOMAIN out = 1..n /\ DOMAIN out' = 1..(n + c + 1)
              /\ \A k \in 1..n : out'[k] = out[k]
              /\ \A k \in 1..c : out'[n + k] = ThinkingEnd(ids[k], TRUE)
              /\ out'[n + c + 1] = Response
      BY <2>1 DEF Concludes
    <2>4. PICK l : l = n + c + 1
      OBVIOUS
    <2>5. Longer(n, l) /\ out'[l].phase = "response_end" /\ l \in Nat
      <3>1. l \in Nat /\ n <= l
        BY <2>2, <2>3, <2>4
      <3>2. Longer(n, l)
        BY <2>3, <2>4, <3>1 DEF Longer
      <3>3. Response.phase = "response_end"
        BY DEF Response
      <3> QED
        BY <2>3, <2>4, <3>1, <3>2, <3>3
    <2>6. \A k \in (n + 1)..l : out'[k].phase = "thinking_end" \/ k = l
      <3>1. \A k \in (n + 1)..l : k = l \/ (k - n \in 1..c /\ k = n + (k - n))
        BY <2>2, <2>3, <2>4
      <3>2. \A k \in 1..c : ThinkingEnd(ids[k], TRUE).phase = "thinking_end"
        BY DEF ThinkingEnd
      <3>3. \A k \in 1..c : out'[n + k].phase = "thinking_end"
        BY <2>3, <3>2
      <3> QED
        BY <3>1, <3>3
    <2>7. GapMeasuredOnce'
      BY <2>5, <2>6, GapsKept DEF GapOK
    <2>8. thinkingEnd' = IF StillThinking # {} THEN now ELSE thinkingEnd
      BY <1>5, Finishing
    <2>9. CASE StillThinking = {}
      <3>1. c = 0
        BY <2>2, <2>9, FS_EmptySet
      <3>2. \A k \in (n + 1)..l : k = l
        BY <2>3, <2>4, <3>1
      <3>3. \A k \in (n + 1)..l : Plain(k)'
        BY <2>5, <3>2 DEF Plain
      <3>4. thinkingEnd' = thinkingEnd
        BY <2>8, <2>9
      <3>5. ASSUME thinkingEnd' # None  PROVE Latest(thinkingEnd)'
        <4>1. PICK t : t = thinkingEnd
          OBVIOUS
        <4>2. Latest(t)
          BY <3>4, <3>5, <4>1 DEF GapOK
        <4>3. Latest(t)'
          BY <2>5, <3>3, <4>2, LatestKept
        <4> QED
          BY <3>4, <4>1, <4>3 DEF Latest
      <3> QED
        BY <2>7, <3>5 DEF GapOK
    <2>10. CASE StillThinking # {}
      <3>1. c # 0
        <4>1. IsFiniteSet(StillThinking)
          BY <1>5, Finishing
        <4> QED
          BY <2>2, <2>10, <4>1, FS_EmptySet
      <3>2. c \in 1..c /\ n + c \in DOMAIN out'
        BY <2>2, <2>3, <3>1
      <3>3. out'[n + c] = ThinkingEnd(ids[c], TRUE)
        BY <2>3, <3>2
      <3>4. out'[n + c].phase = "thinking_end" /\ out'[n + c].ts = now
        BY <3>3 DEF ThinkingEnd
      <3>5. \A m \in DOMAIN out' : m > n + c => m = l
        BY <2>2, <2>3, <2>4
      <3>6. \A m \in DOMAIN out' : m > n + c => Plain(m)'
        BY <2>5, <3>5 DEF Plain
      <3>7. thinkingEnd' = now
        BY <2>8, <2>10
      <3>8. Latest(thinkingEnd)'
        BY <3>2, <3>4, <3>6, <3>7 DEF Latest
      <3> QED
        BY <2>7, <3>8 DEF GapOK
    <2> QED
      BY <2>9, <2>10
  <1>6. CASE FeedReturns
    <2>1. PICK e : Emits(e) /\ e.phase = "progress"
      BY <1>6, Progressing
    <2>2. thinkingEnd' = thinkingEnd
      BY <1>6 DEF FeedReturns, tables
    <2> QED
      BY <2>1, <2>2, GapOneMore
  <1>7. CASE Quiet
    <2>1. out' = out /\ thinkingEnd' = thinkingEnd
      BY <1>7 DEF Quiet, tables
    <2> QED
      BY <2>1 DEF GapOK, GapMeasuredOnce, Latest, Plain
  <1> QED
    BY <1>1, <1>2, <1>3, <1>4, <1>5, <1>6, <1>7, Cases

\* The end of a thinking block is the start of one gap, for _on_block_start
\* clears _last_thinking_end_ts.
THEOREM GapMeasuredOnceThm == Spec => []GapMeasuredOnce
  <1>1. Init => BaseOK /\ GapOK
    <2>1. ASSUME Init  PROVE GapOK
      <3>1. DOMAIN out = {} /\ thinkingEnd = None
        BY <2>1 DEF Init
      <3> QED
        BY <3>1 DEF GapOK, GapMeasuredOnce
    <2> QED
      BY <2>1, BaseInit
  <1>2. BaseOK /\ GapOK /\ [Next]_vars => (BaseOK /\ GapOK)'
    BY BaseStep, GapStep
  <1>3. GapOK => GapMeasuredOnce
    BY DEF GapOK
  <1> QED
    BY <1>1, <1>2, <1>3, PTL DEF Spec

-----------------------------------------------------------------------------
(* The latencies nest.                                                     *)

\* As long as no message is lost, the parser is where the server is.
WholeOK ==
    lost = 0 =>
        /\ server.at # "before" => started # None
        /\ server.at = "inside" => open[server.index].type = server.type
        /\ \A i \in Indexes : open[i].type # "none" => server.at \in {"inside", "done"} /\ i = server.index
        /\ server.at = "done" => stopped

\* No message is lost now, and none was.
LEMMA NoneLost ==
    ASSUME BaseOK, WholeOK, [Next]_vars, lost' = 0
    PROVE  lost = 0 /\ (Quiet => server' = server)
  <1>0. lost \in Nat
    BY Typed
  <1>1. lost = 0
    <2>1. lost' \in {lost, lost + 1}
      <3>1. lost' = lost \/ Quiet
        BY Cases DEF Starts, Closes, Finishes, FeedReturns, Begins, Continues
      <3> QED
        BY <3>1 DEF Quiet
    <2> QED
      BY <1>0, <2>1
  <1>2. ASSUME Quiet, server' # server  PROVE FALSE
    <2>1. Moves /\ (lost' = lost + 1 \/ (server.at = "inside" /\ open[server.index] = Closed))
      BY <1>2 DEF Quiet
    <2>2. server.at = "inside" /\ open[server.index].type = "none"
      BY <1>0, <1>1, <2>1 DEF Closed
    <2>3. server.type \in Types /\ open[server.index].type = server.type
      BY <1>1, <2>2 DEF BaseOK, ServerOK, WholeOK
    <2> QED
      BY <2>2, <2>3, TypesAssumption DEF AllTypes
  <1> QED
    BY <1>1, <1>2

\* Every step keeps the parser where the server is, unless a message was lost.
LEMMA WholeStep == ASSUME BaseOK, PairsOK, WholeOK, [Next]_vars PROVE WholeOK'
  <1> SUFFICES ASSUME lost' = 0
               PROVE  /\ server'.at # "before" => started' # None
                      /\ server'.at = "inside" => open'[server'.index].type = server'.type
                      /\ \A i \in Indexes : open'[i].type # "none" =>
                             server'.at \in {"inside", "done"} /\ i = server'.index
                      /\ server'.at = "done" => stopped'
    BY DEF WholeOK
  <1>0. lost = 0 /\ (Quiet => server' = server)
    BY NoneLost
  <1>w. /\ server.at # "before" => started # None
        /\ server.at = "inside" => open[server.index].type = server.type
        /\ \A i \in Indexes : open[i].type # "none" => server.at \in {"inside", "done"} /\ i = server.index
        /\ server.at = "done" => stopped
    BY <1>0 DEF WholeOK
  <1>s. /\ server = [at |-> server.at, index |-> server.index, type |-> server.type,
                     deltas |-> server.deltas]
        /\ now \in Nat /\ Indexes \subseteq Nat
        /\ open \in [Indexes -> [type : Types \cup {"none"}, start : 0..now]]
    BY Typed DEF BaseOK, ServerOK, OpenOK
  <1>1. CASE Starts
    <2>1. /\ started' = now /\ open' = open /\ server.at = "before"
          /\ server' = [server EXCEPT !.at = "between"]
      BY <1>1 DEF Starts, OnMessageStart, tables
    <2>2. server' = [at |-> "between", index |-> server.index, type |-> server.type,
                     deltas |-> server.deltas]
      BY <1>s, <2>1
    <2>3. now # None
      BY <1>s DEF None
    <2> QED
      BY <1>w, <2>1, <2>2, <2>3
  <1>2. CASE \E type \in Types : Begins(type)
    <2>1. PICK type \in Types : Begins(type)
      BY <1>2
    <2>2. PICK i : i = server.index
      OBVIOUS
    <2>3. /\ i \in Indexes /\ server.at = "between"
          /\ open' = [open EXCEPT ![i] = [type |-> type, start |-> now]]
          /\ server'.at = "inside" /\ server'.index = i /\ server'.type = type
          /\ started' = started
      BY <2>1, <2>2, Beginning DEF timeline
    <2> QED
      BY <1>s, <1>w, <2>3
  <1>3. CASE \E kind \in Kinds, n \in Nat : Continues(kind, n)
    <2>1. PICK d : server' = [server EXCEPT !.deltas = d]
      BY <1>3 DEF Continues
    <2>2. server' = [at |-> server.at, index |-> server.index, type |-> server.type, deltas |-> d]
      BY <1>s, <2>1
    <2>3. open' = open /\ started' = started /\ stopped' = stopped
      BY <1>3 DEF Continues, OnBlockDelta
    <2> QED
      BY <1>w, <2>2, <2>3
  <1>4. CASE Closes
    <2>1. PICK i : i = server.index
      OBVIOUS
    <2>2. /\ i \in Indexes /\ open' = [open EXCEPT ![i] = Closed] /\ server.at = "inside"
          /\ server' = [server EXCEPT !.at = "between", !.index = @ + 1] /\ started' = started
      BY <1>4, <2>1, Closing DEF Closes, timeline
    <2>3. server'.at = "between"
      <3>1. server' = [at |-> "between", index |-> server.index + 1, type |-> server.type,
                       deltas |-> server.deltas]
        BY <1>s, <2>2
      <3> QED
        BY <3>1
    <2> QED
      BY <1>s, <1>w, <2>1, <2>2, <2>3 DEF Closed
  <1>5. CASE Finishes
    <2>1. /\ open' = [i \in Indexes |-> IF i \in StillThinking THEN Closed ELSE open[i]]
          /\ started' = started /\ stopped' = TRUE /\ server.at \in {"between", "inside"}
          /\ server' = [server EXCEPT !.at = "done"]
      BY <1>5, Finishing
    <2>2. server' = [at |-> "done", index |-> server.index, type |-> server.type,
                     deltas |-> server.deltas]
      BY <1>s, <2>1
    <2> QED
      BY <1>w, <2>1, <2>2 DEF Closed
  <1>6. CASE FeedReturns
    BY <1>6, <1>w DEF FeedReturns, tables
  <1>7. CASE Quiet
    BY <1>0, <1>7, <1>w DEF Quiet, tables, timeline
  <1> QED
    BY <1>1, <1>2, <1>3, <1>4, <1>5, <1>6, <1>7, Cases

LatencyOK ==
    lost = 0 =>
        /\ firstToken # None => started # None /\ started <= firstToken
        /\ firstText # None => /\ firstToken # None /\ firstToken <= firstText
                               /\ lastText # None /\ firstText <= lastText
        /\ server.at = "before" => total.ms = 0 /\ firstToken = None
        /\ server.at # "before" => total.ms + started <= now
        /\ server.at = "inside" => total.ms + started <= open[server.index].start
        /\ LatenciesNest

\* Nothing was measured at the start, ...
LEMMA LatencyInit == Init => WholeOK /\ LatencyOK
  <1> SUFFICES ASSUME Init  PROVE WholeOK /\ LatencyOK
    OBVIOUS
  <1>1. WholeOK
    BY DEF Init, WholeOK, Closed
  <1>2. LatenciesNest
    BY DEF Init, LatenciesNest
  <1> QED
    BY <1>1, <1>2 DEF Init, LatencyOK

\* ... and every step keeps the latencies nested.
LEMMA LatencyStep == ASSUME BaseOK, PairsOK, WholeOK, LatencyOK, [Next]_vars PROVE LatencyOK'
  <1> SUFFICES ASSUME lost' = 0
               PROVE  /\ firstToken' # None => started' # None /\ started' <= firstToken'
                      /\ firstText' # None => /\ firstToken' # None /\ firstToken' <= firstText'
                                              /\ lastText' # None /\ firstText' <= lastText'
                      /\ server'.at = "before" => total'.ms = 0 /\ firstToken' = None
                      /\ server'.at # "before" => total'.ms + started' <= now'
                      /\ server'.at = "inside" => total'.ms + started' <= open'[server'.index].start
                      /\ LatenciesNest'
    BY DEF LatencyOK
  <1>0. lost = 0 /\ (Quiet => server' = server)
    BY NoneLost
  <1>w. /\ server.at # "before" => started # None
        /\ server.at = "inside" => open[server.index].type = server.type
        /\ \A i \in Indexes : open[i].type # "none" => server.at \in {"inside", "done"} /\ i = server.index
        /\ server.at = "done" => stopped
    BY <1>0 DEF WholeOK
  <1>l. /\ firstToken # None => started # None /\ started <= firstToken
        /\ firstText # None => /\ firstToken # None /\ firstToken <= firstText
                               /\ lastText # None /\ firstText <= lastText
        /\ server.at = "before" => total.ms = 0 /\ firstToken = None
        /\ server.at # "before" => total.ms + started <= now
        /\ server.at = "inside" => total.ms + started <= open[server.index].start
        /\ LatenciesNest
    BY <1>0 DEF LatencyOK
  <1>s. /\ server = [at |-> server.at, index |-> server.index, type |-> server.type,
                     deltas |-> server.deltas]
        /\ now \in Nat /\ now # None /\ total.ms \in Nat
        /\ {started, firstToken, firstText, lastText} \subseteq None..now
        /\ server.at = "before" => started = None
        /\ stopped => server.at = "done"
        /\ open \in [Indexes -> [type : Types \cup {"none"}, start : 0..now]]
        /\ server.at = "inside" => server.index \in Indexes
    BY Typed DEF BaseOK, ServerOK, OpenOK, TimesOK, Past, None
  <1>n. ASSUME ~Finishes, ~FeedReturns  PROVE LatenciesNest'
    <2>1. (stopped => out' = out) /\ (stopped' => stopped)
      BY <1>n, SamePace
    <2> QED
      BY <1>0, <1>l, <2>1 DEF LatenciesNest, Summary
  <1>1. CASE Starts
    <2>1. /\ started' = now /\ server.at = "before" /\ now' = now /\ total' = total
          /\ UNCHANGED <<firstToken, firstText>>
          /\ server' = [server EXCEPT !.at = "between"]
      BY <1>1 DEF Starts, OnMessageStart
    <2>2. server'.at = "between"
      BY <1>s, <2>1
    <2>3. LatenciesNest'
      BY <1>1, <1>n, <2>1, <2>2 DEF Finishes, FeedReturns
    <2> QED
      BY <1>l, <1>s, <2>1, <2>2, <2>3
  <1>2. CASE \E type \in Types : Begins(type)
    <2>1. PICK type \in Types : Begins(type)
      BY <1>2
    <2>2. PICK i : i = server.index
      OBVIOUS
    <2>3. /\ i \in Indexes /\ server.at = "between"
          /\ open' = [open EXCEPT ![i] = [type |-> type, start |-> now]]
          /\ server'.at = "inside" /\ server'.index = i
          /\ UNCHANGED <<started, firstToken, firstText, lastText, total, now>>
      BY <2>1, <2>2, Beginning DEF timeline
    <2>4. open'[i].start = now
      BY <1>s, <2>3
    <2>5. ~Finishes
      <3>1. ASSUME Finishes  PROVE FALSE
        <4>1. server' = [at |-> "done", index |-> server.index, type |-> server.type,
                         deltas |-> server.deltas]
          BY <1>s, <3>1 DEF Finishes
        <4> QED
          BY <2>3, <4>1
      <3> QED
        BY <3>1
    <2>6. ~FeedReturns
      BY <2>3 DEF FeedReturns
    <2>7. LatenciesNest'
      BY <1>n, <2>5, <2>6
    <2> QED
      BY <1>l, <1>s, <2>3, <2>4, <2>7
  <1>3. CASE \E kind \in Kinds, n \in Nat : Continues(kind, n)
    <2>1. PICK kind \in Kinds, n \in Nat : Continues(kind, n)
      BY <1>3
    <2>2. PICK d : server' = [server EXCEPT !.deltas = d]
      BY <2>1 DEF Continues
    <2>3. server' = [at |-> "inside", index |-> server.index, type |-> server.type, deltas |-> d]
          /\ server.at = "inside"
      BY <1>s, <2>1, <2>2 DEF Continues
    <2>4. /\ firstToken' = IF firstToken = None THEN now ELSE firstToken
          /\ firstText' = IF kind = "text" /\ firstText = None THEN now ELSE firstText
          /\ lastText' = IF kind \in {"text", "input_json"} THEN now ELSE lastText
          /\ total' = [total EXCEPT !.out = @ + n,
                                    !.chars = IF kind = "thinking" THEN @ + n ELSE @]
          /\ UNCHANGED <<open, started, now, stopped>>
      BY <2>1 DEF Continues, OnBlockDelta
    <2>5. total'.ms = total.ms
      <3>1. total' = [ms |-> total.ms, chars |-> IF kind = "thinking" THEN total.chars + n ELSE total.chars,
                      blocks |-> total.blocks, interrupted |-> total.interrupted,
                      out |-> total.out + n]
        BY <2>4, Typed
      <3> QED
        BY <3>1
    <2>6. started # None /\ started <= firstToken' /\ firstToken' # None
      BY <1>l, <1>s, <1>w, <2>3, <2>4 DEF None
    <2>7. firstText' # None => /\ firstToken' <= firstText'
                               /\ lastText' # None /\ firstText' <= lastText'
      BY <1>l, <1>s, <2>4 DEF None
    <2>8. LatenciesNest'
      <3>1. ~stopped'
        BY <1>s, <2>3, <2>4
      <3> QED
        BY <3>1 DEF LatenciesNest
    <2> QED
      BY <1>l, <2>3, <2>4, <2>5, <2>6, <2>7, <2>8
  <1>4. CASE Closes
    <2>1. PICK i : i = server.index
      OBVIOUS
    <2>2. /\ i \in Indexes /\ server.at = "inside"
          /\ server' = [server EXCEPT !.at = "between", !.index = @ + 1]
          /\ UNCHANGED <<started, firstToken, firstText, lastText, now, stopped>>
      BY <1>4, <2>1, Closing DEF Closes, timeline
    <2>3. server'.at = "between"
      <3>1. server' = [at |-> "between", index |-> server.index + 1, type |-> server.type,
                       deltas |-> server.deltas]
        BY <1>s, <2>2
      <3> QED
        BY <3>1
    <2>4. total'.ms + started <= now
      <3>1. CASE open[i].type = "thinking"
        <4>1. total' = [ms |-> total.ms + (now - open[i].start), chars |-> total.chars,
                        blocks |-> total.blocks + 1, interrupted |-> total.interrupted,
                        out |-> total.out]
          BY <1>4, <2>1, <3>1, Closing
        <4>2. total'.ms = total.ms + (now - open[i].start)
          BY <4>1
        <4>3. total.ms + started <= open[i].start /\ open[i].start \in Int /\ started \in Int
          BY <1>l, <1>s, <2>1, <2>2 DEF None
        <4> QED
          BY <1>s, <4>2, <4>3
      <3>2. CASE open[i].type # "thinking"
        <4>1. total' = total
          BY <1>4, <2>1, <3>2, Closing
        <4> QED
          BY <1>l, <2>2, <4>1
      <3> QED
        BY <3>1, <3>2
    <2>5. LatenciesNest'
      <3>1. ~stopped'
        BY <1>s, <2>2
      <3> QED
        BY <3>1 DEF LatenciesNest
    <2> QED
      BY <1>l, <2>2, <2>3, <2>4, <2>5
  <1>5. CASE Finishes
    <2>1. PICK w, p : w = SumFunctionOnSet(Elapsed, StillThinking) /\ p = Cardinality(StillThinking)
      OBVIOUS
    <2>2. /\ total' = [ms |-> total.ms + w, chars |-> total.chars, blocks |-> total.blocks + p,
                       interrupted |-> total.interrupted \/ StillThinking # {}, out |-> total.out]
          /\ UNCHANGED <<started, firstToken, firstText, lastText, now>>
          /\ server.at \in {"between", "inside"}
          /\ server' = [server EXCEPT !.at = "done"]
      BY <1>5, <2>1, Finishing
    <2>3. server'.at = "done" /\ total'.ms = total.ms + w
      <3>1. server' = [at |-> "done", index |-> server.index, type |-> server.type,
                       deltas |-> server.deltas]
        BY <1>s, <2>2
      <3> QED
        BY <2>2, <3>1
    <2>4. started # None
      BY <1>w, <2>2
    <2>5. total.ms + w + started <= now /\ w \in Nat
      <3>1. CASE StillThinking = {}
        <4>1. w = 0
          BY <2>1, <3>1, SumEmpty
        <4> QED
          BY <1>l, <1>s, <2>2, <4>1
      <3>2. CASE StillThinking # {}
        <4>1. \A i \in StillThinking : i \in Indexes /\ server.at = "inside" /\ i = server.index
          <5>1. \A i \in StillThinking : i \in Indexes /\ open[i].type # "none"
            BY DEF StillThinking
          <5> QED
            BY <1>w, <2>2, <5>1
        <4>2. PICK i \in Indexes : StillThinking = {i} /\ server.at = "inside" /\ i = server.index
          BY <3>2, <4>1
        <4>3. w = now - open[i].start /\ now - open[i].start \in Nat
          BY <2>1, <4>2, ElapsedOfOne, Typed
        <4>4. total.ms + started <= open[i].start /\ open[i].start \in Int /\ started \in Int
          BY <1>l, <1>s, <4>2 DEF None
        <4> QED
          BY <1>s, <4>3, <4>4
      <3> QED
        BY <3>1, <3>2
    <2>6. LatenciesNest'
      <3>1. PICK ids, c : Concludes(ids, c, Response)
        BY <1>5, Finishing
      <3>2. Summary' = Response
        BY <3>1 DEF Concludes, Summary
      <3>3. /\ Response.ttfb = started /\ Response.ttft = firstToken /\ Response.total = now
            /\ Response.generation = IF firstText # None /\ lastText # None
                                     THEN lastText - firstText ELSE None
            /\ Response.thinking = total.ms + w
        BY <2>1 DEF Response
      <3>4. 0 <= started
        BY <1>s, <2>4 DEF None
      <3>5. firstToken # None => started <= firstToken /\ firstToken <= now
        BY <1>l, <1>s
      <3>6. Response.generation # None =>
               0 <= Response.generation /\ Response.ttft + Response.generation <= now
        BY <1>l, <1>s, <3>3 DEF None
      <3>7. total.ms + w + started <= now
        BY <2>5
      <3>8. /\ 0 <= Summary'.ttfb
            /\ Summary'.ttft # None => Summary'.ttfb <= Summary'.ttft /\ Summary'.ttft <= Summary'.total
            /\ Summary'.generation # None =>
                   0 <= Summary'.generation /\ Summary'.ttft + Summary'.generation <= Summary'.total
            /\ Summary'.thinking + Summary'.ttfb <= Summary'.total
        BY <3>2, <3>3, <3>4, <3>5, <3>6, <3>7
      <3> QED
        BY <3>8 DEF LatenciesNest
    <2> QED
      BY <1>l, <1>s, <2>2, <2>3, <2>5, <2>6
  <1>6. CASE FeedReturns
    <2>1. ~stopped' /\ UNCHANGED <<now, tables, started, firstToken, firstText, lastText, total, server>>
      BY <1>6 DEF FeedReturns, Live
    <2>2. LatenciesNest'
      BY <2>1 DEF LatenciesNest
    <2> QED
      BY <1>l, <2>1, <2>2 DEF tables
  <1>7. CASE Quiet
    <2>1. /\ server' = server /\ total' = total /\ open' = open
          /\ UNCHANGED <<started, firstToken, firstText, lastText>>
          /\ now <= now' /\ now' \in Nat
      BY <1>0, <1>7, <1>s DEF Quiet, tables, timeline
    <2>2. LatenciesNest'
      <3>1. stopped' = stopped /\ out' = out
        BY <1>7 DEF Quiet, timeline
      <3> QED
        BY <1>0, <1>l, <3>1 DEF LatenciesNest, Summary
    <2>3. server.at # "before" => total.ms + started <= now'
      BY <1>l, <1>s, <2>1 DEF None
    <2> QED
      BY <1>l, <2>1, <2>2, <2>3
  <1> QED
    BY <1>1, <1>2, <1>3, <1>4, <1>5, <1>6, <1>7, Cases

\* The latencies of a response of which every message was decoded nest in one another.
THEOREM LatenciesNestThm == Spec => []LatenciesNest
  <1>1. Init => BaseOK /\ PairsOK /\ WholeOK /\ LatencyOK
    BY BaseInit, PairsInit, LatencyInit
  <1>2. BaseOK /\ PairsOK /\ WholeOK /\ LatencyOK /\ [Next]_vars
            => (BaseOK /\ PairsOK /\ WholeOK /\ LatencyOK)'
    BY BaseStep, PairsStep, WholeStep, LatencyStep
  <1>3. LatencyOK => LatenciesNest
    BY DEF LatencyOK, LatenciesNest
  <1> QED
    BY <1>1, <1>2, <1>3, PTL DEF Spec

-----------------------------------------------------------------------------
(* The summary adds up.                                                    *)

Durations == [k \in Ends |-> out[k].dur]
Lengths == [k \in Ends |-> out[k].chars]
Tokens == [k \in Ends |-> out[k].tokens]

\* The thinking blocks among the completed ones.
Completed == {m \in DOMAIN blocks : blocks[m].type = "thinking"}

Aligned == \A m, n \in Completed, j, k \in Ends :
               blocks[m].index = out[j].index /\ blocks[n].index = out[k].index => (m < n <=> j < k)

CountsOK ==
    /\ IsFiniteSet(Ends)
    /\ \A k \in Ends : /\ out[k].dur \in Nat /\ out[k].chars \in Nat
                       /\ out[k].tokens = out[k].chars \div 4
    /\ total.blocks = Cardinality(Ends)
    /\ total.ms = SumFunctionOnSet(Durations, Ends)
    /\ total.interrupted <=> \E k \in Ends : out[k].interrupted
    /\ {<<blocks[m].index, blocks[m].interrupted>> : m \in Completed}
           = {<<out[k].index, out[k].interrupted>> : k \in Ends}
    /\ Aligned

\* The blocks S end, in the order ids: c ends are emitted, and c blocks completed.
Ending(S, ids, c, cut) ==
    /\ S \subseteq Indexes /\ c \in Nat /\ ids \in [1..c -> S] /\ Range(ids) = S
    /\ \A j, k \in 1..c : ids[j] = ids[k] => j = k
    /\ \A i \in S : open[i].type = "thinking"
    /\ total'.ms = total.ms + SumFunctionOnSet(Elapsed, S) /\ total'.blocks = total.blocks + c
    /\ total'.interrupted <=> total.interrupted \/ (cut /\ S # {})
    /\ \E n, l \in Nat :
           /\ Ends \subseteq 1..n /\ Ends' = Ends \cup {n + k : k \in 1..c}
           /\ \A k \in Ends : out'[k] = out[k]
           /\ \A k \in 1..c : out'[n + k] = ThinkingEnd(ids[k], cut)
           /\ Completed \subseteq 1..l /\ Completed' = Completed \cup {l + k : k \in 1..c}
           /\ \A m \in Completed : blocks'[m] = blocks[m]
           /\ \A k \in 1..c : blocks'[l + k] = [type |-> "thinking", index |-> ids[k], interrupted |-> cut]

\* A block that closes ends one thinking, ...
LEMMA ClosingEnds ==
    ASSUME BaseOK, Closes, NEW i, i = server.index, open[i].type = "thinking"
    PROVE  Ending({i}, [k \in 1..1 |-> i], 1, FALSE) /\ Ends' # Ends
  <1>1. /\ i \in Indexes
        /\ blocks' = Append(blocks, [type |-> open[i].type, index |-> i, interrupted |-> FALSE])
        /\ out' = Append(out, ThinkingEnd(i, FALSE))
        /\ total' = [ms |-> total.ms + (now - open[i].start), chars |-> total.chars,
                     blocks |-> total.blocks + 1, interrupted |-> total.interrupted,
                     out |-> total.out]
    BY Closing
  <1>2. PICK e, b : e = ThinkingEnd(i, FALSE) /\ b = [type |-> "thinking", index |-> i, interrupted |-> FALSE]
    OBVIOUS
  <1>3. Emits(e) /\ e.phase = "thinking_end"
    BY <1>1, <1>2, Emission DEF BaseOK, ThinkingEnd
  <1>4. PICK p \in Nat \ {0} :
            /\ DOMAIN out = 1..(p - 1) /\ \A k \in 1..(p - 1) : out'[k] = out[k]
            /\ out'[p] = e /\ At("thinking_end")' = At("thinking_end") \cup {p}
    BY <1>3 DEF Emits
  <1>5. PICK n \in Nat : n = p - 1 /\ p = n + 1
    BY <1>4
  <1>6. /\ \A k \in 1..1 : k = 1
        /\ \A m \in Nat : {m + k : k \in 1..1} = {m + 1}
    <2>1. (\A k \in 1..1 : k = 1) /\ 1 \in 1..1
      OBVIOUS
    <2>2. ASSUME NEW m \in Nat  PROVE {m + k : k \in 1..1} = {m + 1}
      <3>1. \A x : (\E k \in 1..1 : x = m + k) <=> x = m + 1
        BY <2>1
      <3> QED
        BY <3>1
    <2> QED
      BY <2>1, <2>2
  <1>7. /\ Ends \subseteq 1..n /\ Ends' = Ends \cup {n + k : k \in 1..1}
        /\ \A k \in Ends : out'[k] = out[k]
        /\ \A k \in 1..1 : out'[n + k] = e
        /\ Ends' # Ends
    <2>1. Ends \subseteq 1..n /\ Ends' = Ends \cup {p}
      BY <1>4, <1>5 DEF Ends, At
    <2>2. p \notin Ends
      BY <1>5, <2>1
    <2> QED
      BY <1>4, <1>5, <1>6, <2>1, <2>2
  <1>8. OneMore(blocks, b, blocks')
    BY <1>1, <1>2, Appended DEF BaseOK, BlocksOK
  <1>9. PICK l : l = Len(blocks)
    OBVIOUS
  <1>10. /\ l \in Nat /\ DOMAIN blocks = 1..l /\ DOMAIN blocks' = 1..(l + 1)
         /\ \A m \in 1..l : blocks'[m] = blocks[m]
         /\ blocks'[l + 1] = b
    BY <1>8, <1>9 DEF OneMore
  <1>11. {l + k : k \in 1..1} = {l + 1}
    BY <1>6, <1>10
  <1>12. Completed' = Completed \cup {l + 1}
    <2>1. 1..(l + 1) = 1..l \cup {l + 1}
      BY <1>10
    <2>2. b.type = "thinking"
      BY <1>2
    <2>3. Completed' = {m \in 1..(l + 1) : blocks'[m].type = "thinking"}
          /\ Completed = {m \in 1..l : blocks[m].type = "thinking"}
      BY <1>10 DEF Completed
    <2> QED
      BY <1>10, <2>1, <2>2, <2>3
  <1>13. /\ Completed \subseteq 1..l /\ Completed' = Completed \cup {l + k : k \in 1..1}
         /\ \A m \in Completed : blocks'[m] = blocks[m]
         /\ \A k \in 1..1 : blocks'[l + k] = b
    BY <1>6, <1>10, <1>11, <1>12 DEF Completed
  <1>14. /\ total'.ms = total.ms + SumFunctionOnSet(Elapsed, {i}) /\ total'.blocks = total.blocks + 1
         /\ total'.interrupted <=> total.interrupted
    <2>1. SumFunctionOnSet(Elapsed, {i}) = now - open[i].start
      BY <1>1, ElapsedOfOne
    <2> QED
      BY <1>1, <2>1
  <1>15. PICK ids : ids = [k \in 1..1 |-> i]
    OBVIOUS
  <1>16. /\ ids \in [1..1 -> {i}] /\ Range(ids) = {i} /\ {i} \subseteq Indexes
         /\ \A j, k \in 1..1 : ids[j] = ids[k] => j = k
    <2>1. (\A k \in 1..1 : ids[k] = i) /\ DOMAIN ids = 1..1 /\ 1 \in 1..1
      BY <1>15
    <2>2. ids \in [1..1 -> {i}] /\ {ids[k] : k \in 1..1} = {i}
      BY <1>15, <2>1
    <2> QED
      BY <1>1, <1>6, <2>1, <2>2 DEF Range
  <1>17. \A k \in 1..1 : /\ out'[n + k] = ThinkingEnd(ids[k], FALSE)
                         /\ blocks'[l + k] = [type |-> "thinking", index |-> ids[k], interrupted |-> FALSE]
    BY <1>2, <1>7, <1>13, <1>15
  <1> HIDE DEF Ends, Completed, Range, Indexes, Elapsed
  <1>18. Ending({i}, ids, 1, FALSE)
    <2>1. \A j \in {i} : open[j].type = "thinking"
      OBVIOUS
    <2>2. total'.interrupted <=> total.interrupted \/ (FALSE /\ {i} # {})
      BY <1>14
    <2>3. /\ \A k \in 1..1 : out'[n + k] = ThinkingEnd(ids[k], FALSE)
          /\ \A k \in 1..1 : blocks'[l + k] = [type |-> "thinking", index |-> ids[k], interrupted |-> FALSE]
      BY <1>17
    <2>4. 1 \in Nat /\ l \in Nat
      BY <1>10
    <2> QED
      BY <1>7, <1>13, <1>14, <1>16, <2>1, <2>2, <2>3, <2>4 DEF Ending
  <1> QED
    BY <1>7, <1>15, <1>18

\* ... and the end of the response ends all that are left.
LEMMA FinishingEnds ==
    ASSUME BaseOK, Finishes
    PROVE  \E ids, c : Ending(StillThinking, ids, c, TRUE)
  <1>1. PICK ids, c : /\ Listed(ids, c) /\ Concludes(ids, c, Response)
                      /\ More(blocks, c, [k \in 1..c |-> [type |-> "thinking", index |-> ids[k],
                                                          interrupted |-> TRUE]], blocks')
    BY Finishing
  <1>2. /\ c \in Nat /\ c = Cardinality(StillThinking)
        /\ ids \in [1..c -> StillThinking] /\ Range(ids) = StillThinking
        /\ \A j, k \in 1..c : ids[j] = ids[k] => j = k
    BY <1>1 DEF Listed
  <1>3. PICK n \in Nat : /\ DOMAIN out = 1..n /\ \A k \in 1..n : out'[k] = out[k]
                         /\ \A k \in 1..c : out'[n + k] = ThinkingEnd(ids[k], TRUE)
                         /\ Ends' = Ends \cup {n + k : k \in 1..c}
    BY <1>1 DEF Concludes
  <1>4. Ends \subseteq 1..n /\ \A k \in Ends : out'[k] = out[k]
    BY <1>3 DEF Ends, At
  <1>5. PICK u : u = [k \in 1..c |-> [type |-> "thinking", index |-> ids[k], interrupted |-> TRUE]]
    OBVIOUS
  <1>6. PICK l : l = Len(blocks)
    OBVIOUS
  <1>7. /\ l \in Nat /\ DOMAIN blocks = 1..l /\ DOMAIN blocks' = 1..(l + c)
        /\ \A m \in 1..l : blocks'[m] = blocks[m]
        /\ \A k \in 1..c : blocks'[l + k] = u[k]
    BY <1>1, <1>5, <1>6 DEF More
  <1>8. \A k \in 1..c : /\ blocks'[l + k] = [type |-> "thinking", index |-> ids[k], interrupted |-> TRUE]
                        /\ blocks'[l + k].type = "thinking"
    BY <1>5, <1>7
  <1>9. Completed' = Completed \cup {l + k : k \in 1..c}
    <2>1. /\ \A m \in 1..l : m \in 1..(l + c)
          /\ \A k \in 1..c : l + k \in 1..(l + c)
      BY <1>2, <1>7
    <2>2. \A m \in 1..(l + c) : m \in 1..l \/ \E k \in 1..c : m = l + k
      <3> SUFFICES ASSUME NEW m \in 1..(l + c), m \notin 1..l
                   PROVE  \E k \in 1..c : m = l + k
        OBVIOUS
      <3>1. m - l \in 1..c /\ m = l + (m - l)
        BY <1>2, <1>7
      <3> QED
        BY <3>1
    <2>3. Completed' = {m \in 1..(l + c) : blocks'[m].type = "thinking"}
          /\ Completed = {m \in 1..l : blocks[m].type = "thinking"}
      BY <1>7 DEF Completed
    <2>4. ASSUME NEW m \in Completed'  PROVE m \in Completed \cup {l + k : k \in 1..c}
      BY <1>7, <2>2, <2>3
    <2>5. ASSUME NEW m \in Completed  PROVE m \in Completed'
      BY <1>7, <2>1, <2>3
    <2>6. ASSUME NEW k \in 1..c  PROVE l + k \in Completed'
      BY <1>8, <2>1, <2>3
    <2> QED
      BY <2>4, <2>5, <2>6
  <1>10. Completed \subseteq 1..l /\ \A m \in Completed : blocks'[m] = blocks[m]
    BY <1>7 DEF Completed
  <1>14. \E m, k \in Nat :
           /\ Ends \subseteq 1..m /\ Ends' = Ends \cup {m + j : j \in 1..c}
           /\ \A j \in Ends : out'[j] = out[j]
           /\ \A j \in 1..c : out'[m + j] = ThinkingEnd(ids[j], TRUE)
           /\ Completed \subseteq 1..k /\ Completed' = Completed \cup {k + j : j \in 1..c}
           /\ \A j \in Completed : blocks'[j] = blocks[j]
           /\ \A j \in 1..c : blocks'[k + j] = [type |-> "thinking", index |-> ids[j], interrupted |-> TRUE]
    <2> HIDE DEF Ends, Completed
    <2> QED
      BY <1>3, <1>4, <1>7, <1>8, <1>9, <1>10
  <1>11. /\ total'.ms = total.ms + SumFunctionOnSet(Elapsed, StillThinking)
         /\ total'.blocks = total.blocks + c
         /\ total'.interrupted <=> total.interrupted \/ (TRUE /\ StillThinking # {})
         /\ StillThinking \subseteq Indexes
    <2>1. /\ total' = [ms |-> total.ms + SumFunctionOnSet(Elapsed, StillThinking),
                       chars |-> total.chars,
                       blocks |-> total.blocks + Cardinality(StillThinking),
                       interrupted |-> total.interrupted \/ StillThinking # {}, out |-> total.out]
          /\ StillThinking \subseteq Indexes
      BY Finishing
    <2> HIDE DEF StillThinking, Elapsed
    <2> QED
      BY <1>2, <2>1
  <1>12. \A i \in StillThinking : open[i].type = "thinking"
    BY DEF StillThinking
  <1> HIDE DEF Ends, Completed, Range, Indexes, Elapsed, StillThinking
  <1>13. Ending(StillThinking, ids, c, TRUE)
    BY <1>2, <1>11, <1>12, <1>14 DEF Ending
  <1> QED
    BY <1>13

\* Ends of thinking add their time and blocks to the totals.
LEMMA CountsMore ==
    ASSUME BaseOK, PairsOK, CountsOK, NEW S, NEW ids, NEW c, NEW cut \in BOOLEAN, Ending(S, ids, c, cut)
    PROVE  CountsOK'
  <1>1. /\ S \subseteq Indexes /\ c \in Nat /\ ids \in [1..c -> S] /\ Range(ids) = S
        /\ \A j, k \in 1..c : ids[j] = ids[k] => j = k
        /\ \A i \in S : open[i].type = "thinking"
        /\ total'.ms = total.ms + SumFunctionOnSet(Elapsed, S) /\ total'.blocks = total.blocks + c
        /\ total'.interrupted <=> total.interrupted \/ (cut /\ S # {})
    BY DEF Ending
  <1>2. PICK n, l \in Nat :
           /\ Ends \subseteq 1..n /\ Ends' = Ends \cup {n + k : k \in 1..c}
           /\ \A k \in Ends : out'[k] = out[k]
           /\ \A k \in 1..c : out'[n + k] = ThinkingEnd(ids[k], cut)
           /\ Completed \subseteq 1..l /\ Completed' = Completed \cup {l + k : k \in 1..c}
           /\ \A m \in Completed : blocks'[m] = blocks[m]
           /\ \A k \in 1..c : blocks'[l + k] = [type |-> "thinking", index |-> ids[k], interrupted |-> cut]
    BY DEF Ending
  <1>3. IsFiniteSet(S) /\ \A i \in S : chars[i] \in Nat /\ Elapsed[i] \in Nat /\ Elapsed[i] = now - open[i].start
    <2>1. IsFiniteSet(S)
      BY <1>1, Typed, FS_Subset
    <2>2. \A i \in S : i \in Indexes /\ now - open[i].start \in Nat
      BY <1>1, Typed
    <2> QED
      BY <2>1, <2>2 DEF BaseOK, TextOK, Elapsed
  <1>4. \A k \in 1..c : /\ ids[k] \in S /\ n + k \in Ends' /\ l + k \in Completed'
                        /\ out'[n + k].index = ids[k] /\ out'[n + k].interrupted = cut
                        /\ out'[n + k].dur = Elapsed[ids[k]] /\ out'[n + k].chars = chars[ids[k]]
                        /\ out'[n + k].tokens = chars[ids[k]] \div 4
                        /\ blocks'[l + k].index = ids[k] /\ blocks'[l + k].interrupted = cut
    <2> HIDE DEF Ends, Completed
    <2>1. \A k \in 1..c : ids[k] \in S /\ n + k \in Ends' /\ l + k \in Completed'
      BY <1>1, <1>2
    <2>2. ASSUME NEW k \in 1..c
          PROVE  /\ out'[n + k].index = ids[k] /\ out'[n + k].interrupted = cut
                 /\ out'[n + k].dur = now - open[ids[k]].start /\ out'[n + k].chars = chars[ids[k]]
                 /\ out'[n + k].tokens = chars[ids[k]] \div 4
      <3>1. PICK e, i : e = out'[n + k] /\ i = ids[k]
        OBVIOUS
      <3>2. e = ThinkingEnd(i, cut)
        BY <1>2, <3>1
      <3>3. /\ e.index = i /\ e.interrupted = cut /\ e.dur = now - open[i].start
            /\ e.chars = chars[i] /\ e.tokens = chars[i] \div 4
        BY ONLY <3>2 DEF ThinkingEnd
      <3> QED
        BY ONLY <3>1, <3>3
    <2>3. ASSUME NEW k \in 1..c
          PROVE  blocks'[l + k].index = ids[k] /\ blocks'[l + k].interrupted = cut
      <3>1. PICK b, i : b = blocks'[l + k] /\ i = ids[k]
        OBVIOUS
      <3>2. b = [type |-> "thinking", index |-> i, interrupted |-> cut]
        BY <1>2, <3>1
      <3>3. b.index = i /\ b.interrupted = cut
        BY ONLY <3>2
      <3> QED
        BY ONLY <3>1, <3>3
    <2>4. \A k \in 1..c : Elapsed[ids[k]] = now - open[ids[k]].start
      BY <1>3, <2>1
    <2> HIDE DEF Elapsed
    <2> QED
      BY <2>1, <2>2, <2>3, <2>4
  <1> DEFINE N == {n + k : k \in 1..c}
  <1>5. \A k \in Ends' : k \in Ends \/ \E a \in 1..c : k = n + a
    <2> HIDE DEF Ends
    <2> QED
      BY <1>2
  <1>6. \A m \in Completed' : m \in Completed \/ \E a \in 1..c : m = l + a
    <2> HIDE DEF Completed
    <2> QED
      BY <1>2
  <1>7. /\ IsFiniteSet(Ends) /\ total.blocks = Cardinality(Ends)
        /\ total.ms = SumFunctionOnSet(Durations, Ends)
        /\ \A k \in Ends : /\ out[k].dur \in Nat /\ out[k].chars \in Nat
                           /\ out[k].tokens = out[k].chars \div 4
        /\ total.interrupted <=> \E k \in Ends : out[k].interrupted
        /\ {<<blocks[m].index, blocks[m].interrupted>> : m \in Completed}
               = {<<out[k].index, out[k].interrupted>> : k \in Ends}
        /\ Aligned
    BY DEF CountsOK
  <1> HIDE DEF Ends, Completed, Elapsed, Durations
  <1>8. IsFiniteSet(N) /\ Cardinality(N) = c /\ Ends \cap N = {}
    <2>1. PICK a, b \in Nat : a = n + 1 /\ b = n + c
      BY <1>1
    <2>2. N = a..b
      <3>1. \A x \in a..b : x - n \in 1..c /\ x = n + (x - n)
        BY <1>1, <2>1
      <3>2. \A k \in 1..c : n + k \in a..b
        BY <1>1, <2>1
      <3> QED
        BY <3>1, <3>2
    <2>3. IsFiniteSet(a..b) /\ Cardinality(a..b) = IF a > b THEN 0 ELSE b - a + 1
      BY FS_Interval
    <2>4. Cardinality(a..b) = c
      BY <1>1, <2>1, <2>3
    <2>5. \A x \in 1..n : x \notin a..b
      BY <2>1
    <2> QED
      BY <1>2, <2>2, <2>3, <2>4, <2>5
  <1>9. IsFiniteSet(Ends') /\ Cardinality(Ends') = total'.blocks
    <2>1. Cardinality(Ends) \in Nat /\ Cardinality({}) = 0
      BY <1>7, FS_CardinalityType, FS_EmptySet
    <2>2. /\ IsFiniteSet(Ends \cup N)
          /\ Cardinality(Ends \cup N) = Cardinality(Ends) + Cardinality(N) - Cardinality(Ends \cap N)
      BY <1>7, <1>8, FS_Union
    <2>3. Cardinality(Ends \cup N) = Cardinality(Ends) + c
      <3>1. PICK x, y, z, w : /\ x = Cardinality(Ends) /\ y = Cardinality(N)
                              /\ z = Cardinality(Ends \cap N) /\ w = Cardinality(Ends \cup N)
        OBVIOUS
      <3>2. x \in Nat /\ y = c /\ z = 0 /\ w = x + y - z /\ c \in Nat
        BY <1>1, <1>8, <2>1, <2>2, <3>1
      <3>3. w = x + c
        BY ONLY <3>2
      <3> QED
        BY <3>1, <3>3
    <2>4. Ends' = Ends \cup N
      BY <1>2
    <2> QED
      BY <1>1, <1>7, <2>2, <2>3, <2>4
  <1>10. Extends(Ends, Ends', n, c, ids, S)
    BY <1>1, <1>2, <1>3 DEF Extends
  <1>11. total'.ms = SumFunctionOnSet(Durations', Ends')
    <2>1. \A k \in Ends : Durations[k] \in Nat /\ Durations'[k] = Durations[k]
      BY <1>2, <1>7 DEF Durations
    <2>2. \A k \in 1..c : Durations'[n + k] = Elapsed[ids[k]]
      BY <1>4 DEF Durations
    <2>3. \A i \in S : Elapsed[i] \in Nat
      BY <1>3
    <2>4. PICK f, r : f = Durations' /\ r = Ends'
      OBVIOUS
    <2>5. SumFunctionOnSet(f, r) = SumFunctionOnSet(Durations, Ends) + SumFunctionOnSet(Elapsed, S)
      BY ONLY <1>10, <2>1, <2>2, <2>3, <2>4, SumListed
    <2> QED
      BY <1>1, <1>7, <2>4, <2>5
  <1>12. \A k \in Ends' : /\ out'[k].dur \in Nat /\ out'[k].chars \in Nat
                          /\ out'[k].tokens = out'[k].chars \div 4
    <2> SUFFICES ASSUME NEW k \in Ends'
                 PROVE  /\ out'[k].dur \in Nat /\ out'[k].chars \in Nat
                        /\ out'[k].tokens = out'[k].chars \div 4
      OBVIOUS
    <2>1. CASE k \in Ends
      BY <1>2, <1>7, <2>1
    <2>2. CASE \E a \in 1..c : k = n + a
      BY <1>3, <1>4, <2>2
    <2> QED
      BY <1>5, <2>1, <2>2
  <1>13. total'.interrupted <=> \E k \in Ends' : out'[k].interrupted
    <2>1. S # {} <=> 1..c # {}
      <3>1. S = {ids[k] : k \in 1..c}
        BY <1>1 DEF Range
      <3> QED
        BY <3>1
    <2>2. (\E k \in Ends' : out'[k].interrupted) <=>
              (\E k \in Ends : out[k].interrupted) \/ (\E a \in 1..c : out'[n + a].interrupted)
      <3>1. \A k \in Ends : k \in Ends' /\ out'[k] = out[k]
        BY <1>2
      <3>2. \A a \in 1..c : n + a \in Ends'
        BY <1>4
      <3> QED
        BY <1>5, <3>1, <3>2
    <2>3. (\E a \in 1..c : out'[n + a].interrupted) <=> cut /\ S # {}
      <3>1. \A a \in 1..c : out'[n + a].interrupted = cut
        BY <1>4
      <3> QED
        BY <2>1, <3>1
    <2> QED
      BY <1>1, <1>7, <2>2, <2>3
  <1>14. {<<blocks'[m].index, blocks'[m].interrupted>> : m \in Completed'}
             = {<<out'[k].index, out'[k].interrupted>> : k \in Ends'}
    <2> DEFINE new == {<<ids[k], cut>> : k \in 1..c}
               old == {<<out[k].index, out[k].interrupted>> : k \in Ends}
               held == {<<blocks[m].index, blocks[m].interrupted>> : m \in Completed}
    <2>1. {<<out'[k].index, out'[k].interrupted>> : k \in Ends'} = old \cup new
      <3>1. ASSUME NEW k \in Ends'  PROVE <<out'[k].index, out'[k].interrupted>> \in old \cup new
        <4>1. CASE k \in Ends
          BY <1>2, <4>1
        <4>2. CASE \E a \in 1..c : k = n + a
          BY <1>4, <4>2
        <4> QED
          BY <1>5, <4>1, <4>2
      <3>2. ASSUME NEW k \in Ends
            PROVE  /\ k \in Ends'
                   /\ <<out[k].index, out[k].interrupted>> = <<out'[k].index, out'[k].interrupted>>
        BY <1>2, <3>2
      <3>3. ASSUME NEW k \in 1..c
            PROVE  /\ n + k \in Ends'
                   /\ <<ids[k], cut>> = <<out'[n + k].index, out'[n + k].interrupted>>
        BY <1>4, <3>3
      <3> QED
        BY <3>1, <3>2, <3>3
    <2>2. {<<blocks'[m].index, blocks'[m].interrupted>> : m \in Completed'} = held \cup new
      <3>1. ASSUME NEW m \in Completed'
            PROVE  <<blocks'[m].index, blocks'[m].interrupted>> \in held \cup new
        <4>1. CASE m \in Completed
          BY <1>2, <4>1
        <4>2. CASE \E a \in 1..c : m = l + a
          BY <1>4, <4>2
        <4> QED
          BY <1>6, <4>1, <4>2
      <3>2. ASSUME NEW m \in Completed
            PROVE  /\ m \in Completed'
                   /\ <<blocks[m].index, blocks[m].interrupted>> = <<blocks'[m].index, blocks'[m].interrupted>>
        BY <1>2, <3>2
      <3>3. ASSUME NEW k \in 1..c
            PROVE  /\ l + k \in Completed'
                   /\ <<ids[k], cut>> = <<blocks'[l + k].index, blocks'[l + k].interrupted>>
        BY <1>4, <3>3
      <3> QED
        BY <3>1, <3>2, <3>3
    <2>3. held = old
      BY <1>7
    <2> HIDE DEF held, old, new
    <2> QED
      BY <2>1, <2>2, <2>3
  <1>15. ASSUME NEW m \in Completed', NEW j \in Ends', blocks'[m].index = out'[j].index
         PROVE  \/ m \in Completed /\ j \in Ends /\ blocks[m].index = out[j].index
                \/ \E a \in 1..c : m = l + a /\ j = n + a
    <2>1. \A k \in Ends : out[k].index \notin S
      BY <1>1 DEF PairsOK, Ended
    <2>2. \A k \in Completed : blocks[k].index \notin S
      <3> SUFFICES ASSUME NEW k \in Completed  PROVE blocks[k].index \notin S
        OBVIOUS
      <3>1. PICK e \in Ends : <<blocks[k].index, blocks[k].interrupted>> = <<out[e].index, out[e].interrupted>>
        BY <1>7
      <3> QED
        BY <2>1, <3>1
    <2>3. CASE m \in Completed /\ j \in Ends
      BY <1>2, <1>15, <2>3
    <2>4. CASE m \in Completed /\ \E a \in 1..c : j = n + a
      BY <1>2, <1>4, <1>15, <2>2, <2>4
    <2>5. CASE j \in Ends /\ \E a \in 1..c : m = l + a
      BY <1>2, <1>4, <1>15, <2>1, <2>5
    <2>6. CASE (\E a \in 1..c : m = l + a) /\ \E a \in 1..c : j = n + a
      <3>1. PICK a \in 1..c : m = l + a
        BY <2>6
      <3>2. PICK b \in 1..c : j = n + b
        BY <2>6
      <3>3. ids[a] = ids[b]
        BY <1>4, <1>15, <3>1, <3>2
      <3>4. a = b
        BY <1>1, <3>3
      <3> QED
        BY <3>1, <3>2, <3>4
    <2> QED
      BY <1>5, <1>6, <2>3, <2>4, <2>5, <2>6
  <1>16. Aligned'
    <2> SUFFICES ASSUME NEW p \in Completed', NEW q \in Completed', NEW j \in Ends', NEW k \in Ends',
                        blocks'[p].index = out'[j].index, blocks'[q].index = out'[k].index
                 PROVE  p < q <=> j < k
      BY DEF Aligned
    <2>1. \/ p \in Completed /\ j \in Ends /\ blocks[p].index = out[j].index
          \/ \E a \in 1..c : p = l + a /\ j = n + a
      BY <1>15
    <2>2. \/ q \in Completed /\ k \in Ends /\ blocks[q].index = out[k].index
          \/ \E a \in 1..c : q = l + a /\ k = n + a
      BY <1>15
    <2>3. CASE /\ p \in Completed /\ j \in Ends /\ blocks[p].index = out[j].index
               /\ q \in Completed /\ k \in Ends /\ blocks[q].index = out[k].index
      BY <1>7, <2>3 DEF Aligned
    <2>4. CASE (p \in Completed /\ j \in Ends) /\ \E a \in 1..c : q = l + a /\ k = n + a
      <3>1. p \in 1..l /\ j \in 1..n
        BY <1>2, <2>4
      <3> QED
        BY <1>1, <2>4, <3>1
    <2>5. CASE (q \in Completed /\ k \in Ends) /\ \E a \in 1..c : p = l + a /\ j = n + a
      <3>1. q \in 1..l /\ k \in 1..n
        BY <1>2, <2>5
      <3> QED
        BY <1>1, <2>5, <3>1
    <2>6. CASE (\E a \in 1..c : p = l + a /\ j = n + a) /\ \E a \in 1..c : q = l + a /\ k = n + a
      BY <1>1, <2>6
    <2> QED
      BY <2>1, <2>2, <2>3, <2>4, <2>5, <2>6
  <1> HIDE DEF N, Aligned
  <1> QED
    BY <1>9, <1>11, <1>12, <1>13, <1>14, <1>16 DEF CountsOK

\* The totals start at zero, ...
LEMMA CountsInit == Init => CountsOK
  <1> SUFFICES ASSUME Init  PROVE CountsOK
    OBVIOUS
  <1>1. DOMAIN out = {} /\ DOMAIN blocks = {}
    BY DEF Init
  <1>2. Ends = {} /\ Completed = {}
    BY <1>1 DEF Ends, At, Completed
  <1>3. total.blocks = 0 /\ total.ms = 0 /\ total.interrupted = FALSE
    BY DEF Init
  <1>4. IsFiniteSet(Ends) /\ Cardinality(Ends) = 0 /\ SumFunctionOnSet(Durations, Ends) = 0
    BY <1>2, FS_EmptySet, SumEmpty
  <1> HIDE DEF Ends, Completed
  <1> QED
    BY <1>2, <1>3, <1>4 DEF CountsOK, Aligned

\* The steps that end no thinking block complete none and leave the counters alone.
LEMMA SameCounts ==
    ASSUME BaseOK, [Next]_vars, ~Finishes, ~(Closes /\ open[server.index].type = "thinking")
    PROVE  /\ Keeps("thinking_end") /\ Completed' = Completed
           /\ \A m \in Completed : blocks'[m] = blocks[m]
           /\ total'.ms = total.ms /\ total'.blocks = total.blocks
           /\ total'.interrupted = total.interrupted
  <1>1. Keeps("thinking_end")
    BY Keeping
  <1>2. ASSUME blocks' = blocks  PROVE Completed' = Completed /\ \A m \in Completed : blocks'[m] = blocks[m]
    BY <1>2 DEF Completed
  <1>3. CASE Closes
    <2>1. PICK i : i = server.index
      OBVIOUS
    <2>2. /\ blocks' = Append(blocks, [type |-> open[i].type, index |-> i, interrupted |-> FALSE])
          /\ open[i].type # "thinking" /\ total' = total
      BY <1>3, <2>1, Closing
    <2>3. PICK b : b = [type |-> open[i].type, index |-> i, interrupted |-> FALSE] /\ b.type # "thinking"
      BY <2>2
    <2>4. OneMore(blocks, b, blocks')
      BY <2>2, <2>3, Appended DEF BaseOK, BlocksOK
    <2>5. PICK l : l = Len(blocks)
      OBVIOUS
    <2>6. /\ l \in Nat /\ DOMAIN blocks = 1..l /\ DOMAIN blocks' = 1..(l + 1)
          /\ \A m \in 1..l : blocks'[m] = blocks[m]
          /\ blocks'[l + 1] = b
      BY <2>4, <2>5 DEF OneMore
    <2>7. 1..(l + 1) = 1..l \cup {l + 1}
      BY <2>6
    <2>8. /\ Completed' = {m \in 1..(l + 1) : blocks'[m].type = "thinking"}
          /\ Completed = {m \in 1..l : blocks[m].type = "thinking"}
      BY <2>6 DEF Completed
    <2>9. Completed' = Completed /\ \A m \in Completed : blocks'[m] = blocks[m]
      BY <2>3, <2>6, <2>7, <2>8
    <2> QED
      BY <1>1, <2>2, <2>9
  <1>4. CASE \E kind \in Kinds, n \in Nat : Continues(kind, n)
    <2>1. PICK kind \in Kinds, n \in Nat : Continues(kind, n)
      BY <1>4
    <2>2. /\ total' = [total EXCEPT !.out = @ + n, !.chars = IF kind = "thinking" THEN @ + n ELSE @]
          /\ blocks' = blocks
      BY <2>1 DEF Continues, OnBlockDelta
    <2>3. total' = [ms |-> total.ms, chars |-> IF kind = "thinking" THEN total.chars + n ELSE total.chars,
                    blocks |-> total.blocks, interrupted |-> total.interrupted,
                    out |-> total.out + n]
      BY <2>2, Typed
    <2> QED
      BY <1>1, <1>2, <2>2, <2>3
  <1>5. ASSUME Starts \/ FeedReturns \/ Quiet \/ \E type \in Types : Begins(type)
        PROVE  blocks' = blocks /\ total' = total
    BY <1>5 DEF Starts, OnMessageStart, FeedReturns, Quiet, Begins, OnBlockStart, tables
  <1> QED
    BY <1>1, <1>2, <1>3, <1>4, <1>5, Cases

\* ... and every step keeps them the sums over the ends of thinking.
LEMMA CountsStep == ASSUME BaseOK, PairsOK, CountsOK, [Next]_vars PROVE CountsOK'
  <1>1. CASE Finishes
    <2>1. PICK ids, c : Ending(StillThinking, ids, c, TRUE)
      BY <1>1, FinishingEnds
    <2>2. PICK S : S = StillThinking
      OBVIOUS
    <2>3. Ending(S, ids, c, TRUE)
      BY <2>1, <2>2
    <2> QED
      BY <2>3, CountsMore
  <1>2. CASE Closes /\ open[server.index].type = "thinking"
    <2>1. PICK i, ids : i = server.index /\ ids = [k \in 1..1 |-> i]
      OBVIOUS
    <2>2. PICK S : S = {i}
      OBVIOUS
    <2>3. Ending(S, ids, 1, FALSE)
      BY <1>2, <2>1, <2>2, ClosingEnds
    <2> QED
      BY <2>3, CountsMore
  <1>3. CASE ~Finishes /\ ~(Closes /\ open[server.index].type = "thinking")
    <2>1. /\ Ends' = Ends /\ \A k \in Ends : out'[k] = out[k]
          /\ Completed' = Completed /\ \A m \in Completed : blocks'[m] = blocks[m]
          /\ total'.ms = total.ms /\ total'.blocks = total.blocks
          /\ total'.interrupted = total.interrupted
      BY <1>3, SameCounts DEF Keeps, Ends
    <2>2. Durations' = Durations
      BY <2>1 DEF Durations
    <2>3. {<<blocks'[m].index, blocks'[m].interrupted>> : m \in Completed'}
              = {<<blocks[m].index, blocks[m].interrupted>> : m \in Completed}
      <3> HIDE DEF Completed
      <3> QED
        BY <2>1
    <2>4. {<<out'[k].index, out'[k].interrupted>> : k \in Ends'}
              = {<<out[k].index, out[k].interrupted>> : k \in Ends}
      <3> HIDE DEF Ends
      <3> QED
        BY <2>1
    <2>5. Aligned <=> Aligned'
      <3> HIDE DEF Ends, Completed
      <3> QED
        BY <2>1 DEF Aligned
    <2>6. (\E k \in Ends : out[k].interrupted) <=> \E k \in Ends' : out'[k].interrupted
      <3> HIDE DEF Ends
      <3> QED
        BY <2>1
    <2>7. \A k \in Ends' : out'[k] = out[k] /\ k \in Ends
      BY <2>1
    <2> HIDE DEF Ends, Completed, Durations, Aligned
    <2>8. /\ IsFiniteSet(Ends)' /\ total'.blocks = Cardinality(Ends')
          /\ total'.ms = SumFunctionOnSet(Durations', Ends')
          /\ \A k \in Ends' : /\ out'[k].dur \in Nat /\ out'[k].chars \in Nat
                              /\ out'[k].tokens = out'[k].chars \div 4
      BY <2>1, <2>2, <2>7 DEF CountsOK
    <2>9. /\ total'.interrupted <=> \E k \in Ends' : out'[k].interrupted
          /\ {<<blocks'[m].index, blocks'[m].interrupted>> : m \in Completed'}
                 = {<<out'[k].index, out'[k].interrupted>> : k \in Ends'}
          /\ Aligned'
      BY <2>1, <2>3, <2>4, <2>5, <2>6 DEF CountsOK
    <2> QED
      BY <2>8, <2>9 DEF CountsOK
  <1> QED
    BY <1>1, <1>2, <1>3

\* The sum of the lengths of the blocks that have ended, when more of them end.
LEMMA LengthsMore ==
    ASSUME BaseOK, CountsOK, NEW S, NEW ids, NEW c, NEW cut \in BOOLEAN, Ending(S, ids, c, cut)
    PROVE  SumFunctionOnSet(Lengths, Ends)' = SumFunctionOnSet(Lengths, Ends) + SumFunctionOnSet(chars, S)
  <1>1. /\ S \subseteq Indexes /\ c \in Nat /\ ids \in [1..c -> S] /\ Range(ids) = S
        /\ \A j, k \in 1..c : ids[j] = ids[k] => j = k
    BY DEF Ending
  <1>2. PICK n \in Nat :
           /\ Ends \subseteq 1..n /\ Ends' = Ends \cup {n + k : k \in 1..c}
           /\ \A k \in Ends : out'[k] = out[k]
           /\ \A k \in 1..c : out'[n + k] = ThinkingEnd(ids[k], cut)
    BY DEF Ending
  <1>3. IsFiniteSet(S) /\ \A i \in S : chars[i] \in Nat
    BY <1>1, Typed, FS_Subset DEF BaseOK, TextOK
  <1> HIDE DEF Ends
  <1>4. Extends(Ends, Ends', n, c, ids, S)
    BY <1>1, <1>2, <1>3 DEF Extends
  <1>5. \A k \in Ends : Lengths[k] \in Nat /\ Lengths'[k] = Lengths[k]
    BY <1>2 DEF Lengths, CountsOK
  <1>6. \A k \in 1..c : Lengths'[n + k] = chars[ids[k]]
    <2>1. ASSUME NEW k \in 1..c  PROVE n + k \in Ends' /\ out'[n + k].chars = chars[ids[k]]
      <3>1. PICK e, i : e = out'[n + k] /\ i = ids[k]
        OBVIOUS
      <3>2. e = ThinkingEnd(i, cut)
        BY <1>2, <3>1
      <3>3. e.chars = chars[i]
        BY ONLY <3>2 DEF ThinkingEnd
      <3> QED
        BY <1>2, <3>1, <3>3
    <2> QED
      BY <2>1 DEF Lengths
  <1> HIDE DEF Lengths
  <1>7. PICK f, r : f = Lengths' /\ r = Ends'
    OBVIOUS
  <1>8. \A i \in S : chars[i] \in Nat
    BY <1>3
  <1>9. SumFunctionOnSet(f, r) = SumFunctionOnSet(Lengths, Ends) + SumFunctionOnSet(chars, S)
    BY ONLY <1>4, <1>5, <1>6, <1>7, <1>8, SumListed
  <1> QED
    BY <1>7, <1>9

\* The length of one block.
LEMMA CharsOfOne ==
    ASSUME BaseOK, NEW i \in Indexes
    PROVE  SumFunctionOnSet(chars, {i}) = chars[i]
  <1>1. chars[i] \in Int
    BY DEF BaseOK, TextOK
  <1> QED
    BY <1>1, SumOne

\* The characters of the thinking block that is being sent.
Coming == IF server.at = "inside" /\ server.type = "thinking" THEN chars[server.index] ELSE 0

\* Every character of thinking is one of an ended block or of the one being sent.
CharsOK ==
    /\ \A i \in Indexes : Ahead(i) => chars[i] = 0
    /\ lost = 0 => total.chars = SumFunctionOnSet(Lengths, Ends) + Coming

\* No characters are counted at the start, ...
LEMMA CharsInit == Init => CharsOK
  <1> SUFFICES ASSUME Init  PROVE CharsOK
    OBVIOUS
  <1>1. DOMAIN out = {}
    BY DEF Init
  <1>2. Ends = {}
    BY <1>1 DEF Ends, At
  <1>3. SumFunctionOnSet(Lengths, Ends) = 0
    BY <1>2, SumEmpty
  <1> HIDE DEF Ends
  <1> QED
    BY <1>3 DEF Init, CharsOK, Coming

\* ... and every step keeps them those of the blocks.
LEMMA CharsStep == ASSUME BaseOK, PairsOK, WholeOK, CountsOK, CharsOK, [Next]_vars PROVE CharsOK'
  <1>1. ASSUME NEW i \in Indexes, Ahead(i)'  PROVE chars'[i] = 0
    BY <1>1, Untouched DEF CharsOK
  <1>2. ASSUME lost' = 0  PROVE total'.chars = SumFunctionOnSet(Lengths, Ends)' + Coming'
    <2>0. /\ lost = 0 /\ (Quiet => server' = server)
          /\ total.chars = SumFunctionOnSet(Lengths, Ends) + Coming
      BY <1>2, NoneLost DEF CharsOK
    <2>s. server = [at |-> server.at, index |-> server.index, type |-> server.type,
                    deltas |-> server.deltas]
      BY DEF BaseOK, ServerOK
    <2>n. /\ total.chars \in Nat /\ SumFunctionOnSet(Lengths, Ends) \in Nat
          /\ Coming \in Nat
      <3>1. \A k \in Ends : Lengths[k] \in Nat
        BY DEF CountsOK, Lengths
      <3>2. IsFiniteSet(Ends)
        BY DEF CountsOK
      <3> HIDE DEF Lengths, Ends
      <3>3. SumFunctionOnSet(Lengths, Ends) \in Nat
        BY <3>1, <3>2, SumType
      <3>4. Coming \in Nat
        BY DEF Coming, BaseOK, ServerOK, TextOK
      <3> QED
        BY <3>3, <3>4, Typed
    <2>k. ASSUME Keeps("thinking_end")
          PROVE  SumFunctionOnSet(Lengths, Ends)' = SumFunctionOnSet(Lengths, Ends)
      <3>1. Ends' = Ends /\ \A k \in Ends : out'[k] = out[k]
        BY <2>k DEF Keeps, Ends
      <3> HIDE DEF Ends
      <3>2. Lengths' = Lengths
        BY <3>1 DEF Lengths
      <3> HIDE DEF Lengths
      <3> QED
        BY <3>1, <3>2
    <2> HIDE DEF Ends, Lengths
    <2>1. ASSUME Starts  PROVE total'.chars = SumFunctionOnSet(Lengths, Ends)' + Coming'
      <3>1. Keeps("thinking_end")
        BY <2>1, <2>s, Keeping DEF Starts, Finishes, Closes
      <3>2. total' = total /\ Coming = 0 /\ Coming' = 0
        BY <2>1, <2>s DEF Starts, OnMessageStart, Coming
      <3> QED
        BY <2>0, <2>k, <3>1, <3>2
    <2>2. ASSUME NEW type \in Types, Begins(type)
          PROVE  total'.chars = SumFunctionOnSet(Lengths, Ends)' + Coming'
      <3>1. PICK i : i = server.index
        OBVIOUS
      <3>2. /\ i \in Indexes /\ server.at = "between" /\ total' = total /\ chars' = chars
            /\ server' = [at |-> "inside", index |-> i, type |-> type, deltas |-> 0]
        BY <2>2, <2>s, <3>1 DEF Begins, OnBlockStart
      <3>3. Keeps("thinking_end")
        BY <2>s, <3>2, Keeping DEF Finishes, Closes
      <3>4. i \in Nat /\ i >= i
        BY <3>2, Typed
      <3>5. chars[i] = 0
        BY <3>1, <3>2, <3>4 DEF CharsOK, Ahead
      <3>6. Coming = 0 /\ Coming' = 0
        BY <3>2, <3>5 DEF Coming
      <3> QED
        BY <2>0, <2>k, <3>2, <3>3, <3>6
    <2>3. ASSUME NEW kind \in Kinds, NEW n \in Nat, Continues(kind, n)
          PROVE  total'.chars = SumFunctionOnSet(Lengths, Ends)' + Coming'
      <3>1. PICK i : i = server.index
        OBVIOUS
      <3>2. /\ i \in Indexes /\ server.at = "inside"
            /\ kind = "thinking" => server.type = "thinking"
            /\ server.type = "thinking" => kind = "thinking" \/ n = 0
            /\ chars' = [chars EXCEPT ![i] = @ + n]
            /\ total' = [total EXCEPT !.out = @ + n,
                                      !.chars = IF kind = "thinking" THEN @ + n ELSE @]
        BY <2>3, <3>1 DEF Continues, OnBlockDelta, BaseOK, ServerOK
      <3>3. /\ server'.at = "inside" /\ server'.index = i /\ server'.type = server.type
        BY <2>3, <2>s, <3>1 DEF Continues
      <3>4. Keeps("thinking_end")
        BY <2>s, <3>2, <3>3, Keeping DEF Finishes, Closes
      <3>5. total'.chars = IF kind = "thinking" THEN total.chars + n ELSE total.chars
        BY <3>2, Typed
      <3>6. chars'[i] = chars[i] + n /\ chars[i] \in Nat
        BY <3>2 DEF BaseOK, TextOK
      <3>7. CASE server.type = "thinking"
        <4>1. Coming = chars[i] /\ Coming' = chars[i] + n
          BY <3>1, <3>2, <3>3, <3>6, <3>7 DEF Coming
        <4>2. total'.chars = total.chars + n
          BY <2>n, <3>2, <3>5, <3>7
        <4>3. SumFunctionOnSet(Lengths, Ends)' = SumFunctionOnSet(Lengths, Ends)
          BY <2>k, <3>4
        <4> QED
          BY <2>0, <2>n, <3>6, <4>1, <4>2, <4>3
      <3>8. CASE server.type # "thinking"
        <4>1. Coming = 0 /\ Coming' = 0 /\ total'.chars = total.chars
          BY <3>2, <3>3, <3>5, <3>8 DEF Coming
        <4> QED
          BY <2>0, <2>k, <3>4, <4>1
      <3> QED
        BY <3>7, <3>8
    <2>4. ASSUME Closes  PROVE total'.chars = SumFunctionOnSet(Lengths, Ends)' + Coming'
      <3>1. PICK i : i = server.index
        OBVIOUS
      <3>2. /\ i \in Indexes /\ server.at = "inside" /\ server'.at = "between"
            /\ open[i].type = server.type
        BY <2>0, <2>4, <2>s, <3>1 DEF Closes, BaseOK, ServerOK, WholeOK
      <3>3. Coming' = 0
        BY <3>2 DEF Coming
      <3>4. CASE server.type = "thinking"
        <4>1. PICK ids : ids = [k \in 1..1 |-> i]
          OBVIOUS
        <4>2. PICK S : S = {i}
          OBVIOUS
        <4>3. Ending(S, ids, 1, FALSE)
          BY <2>4, <3>1, <3>2, <3>4, <4>1, <4>2, ClosingEnds
        <4>4. SumFunctionOnSet(Lengths, Ends)' = SumFunctionOnSet(Lengths, Ends) + SumFunctionOnSet(chars, S)
          BY <4>3, LengthsMore
        <4>5. SumFunctionOnSet(chars, S) = chars[i]
          BY <3>2, <4>2, CharsOfOne
        <4>6. total'.chars = total.chars
          <5>1. total' = [ms |-> total.ms + (now - open[i].start), chars |-> total.chars,
                          blocks |-> total.blocks + 1, interrupted |-> total.interrupted,
                          out |-> total.out]
            BY <2>4, <3>1, <3>2, <3>4, Closing
          <5> QED
            BY <5>1
        <4>7. Coming = chars[i]
          BY <3>1, <3>2, <3>4 DEF Coming
        <4>8. SumFunctionOnSet(Lengths, Ends)' = total'.chars
          BY <2>0, <4>4, <4>5, <4>6, <4>7
        <4> QED
          BY <2>n, <3>3, <4>6, <4>8
      <3>5. CASE server.type # "thinking"
        <4>1. Keeps("thinking_end")
          BY <2>s, <2>4, <3>1, <3>2, <3>5, Keeping DEF Finishes, Closes
        <4>2. total' = total /\ Coming = 0
          BY <2>4, <3>1, <3>2, <3>5, Closing DEF Coming
        <4> QED
          BY <2>0, <2>k, <3>3, <4>1, <4>2
      <3> QED
        BY <3>4, <3>5
    <2>5. ASSUME Finishes  PROVE total'.chars = SumFunctionOnSet(Lengths, Ends)' + Coming'
      <3>1. PICK ids, c : Ending(StillThinking, ids, c, TRUE)
        BY <2>5, FinishingEnds
      <3>2. PICK S : S = StillThinking
        OBVIOUS
      <3>3. SumFunctionOnSet(Lengths, Ends)' = SumFunctionOnSet(Lengths, Ends) + SumFunctionOnSet(chars, S)
        <4>1. Ending(S, ids, c, TRUE)
          BY <3>1, <3>2
        <4> QED
          BY <4>1, LengthsMore
      <3>4. SumFunctionOnSet(chars, S) = Coming
        <4>1. server.at \in {"between", "inside"}
          BY <2>5 DEF Finishes
        <4>2. CASE server.at = "inside" /\ server.type = "thinking"
          <5>1. PICK i : i = server.index
            OBVIOUS
          <5>2. i \in Indexes /\ open[i].type = "thinking"
            BY <2>0, <4>2, <5>1 DEF BaseOK, ServerOK, WholeOK
          <5>3. S = {i}
            BY <2>0, <3>2, <5>1, <5>2 DEF StillThinking, WholeOK
          <5> QED
            BY <4>2, <5>1, <5>2, <5>3, CharsOfOne DEF Coming
        <4>3. CASE ~(server.at = "inside" /\ server.type = "thinking")
          <5>1. S = {}
            BY <2>0, <3>2, <4>1, <4>3 DEF StillThinking, WholeOK
          <5> QED
            BY <4>3, <5>1, SumEmpty DEF Coming
        <4> QED
          BY <4>2, <4>3
      <3>5. total'.chars = total.chars
        <4>1. PICK w, p, q : /\ w = total.ms + SumFunctionOnSet(Elapsed, StillThinking)
                             /\ p = total.blocks + Cardinality(StillThinking)
                             /\ q = (total.interrupted \/ StillThinking # {})
          OBVIOUS
        <4>2. total' = [ms |-> w, chars |-> total.chars, blocks |-> p, interrupted |-> q, out |-> total.out]
          BY <2>5, <4>1, Finishing
        <4> QED
          BY <4>2
      <3>6. Coming' = 0
        BY <2>5, <2>s DEF Finishes, Coming
      <3>7. SumFunctionOnSet(Lengths, Ends)' = total'.chars
        BY <2>0, <3>3, <3>4, <3>5
      <3> QED
        BY <2>n, <3>5, <3>6, <3>7
    <2>6. ASSUME FeedReturns \/ Quiet  PROVE total'.chars = SumFunctionOnSet(Lengths, Ends)' + Coming'
      <3>1. server' = server /\ total' = total /\ chars' = chars
        BY <2>0, <2>6 DEF FeedReturns, Quiet, tables
      <3>2. Coming' = Coming
        BY <3>1 DEF Coming
      <3>3. Keeps("thinking_end")
        <4>1. ~Finishes /\ ~Closes
          BY <2>s, <3>1 DEF Finishes, Closes
        <4> QED
          BY <4>1, Keeping
      <3> QED
        BY <2>0, <2>k, <3>1, <3>2, <3>3
    <2> QED
      BY <2>1, <2>2, <2>3, <2>4, <2>5, <2>6, Cases
  <1> QED
    BY <1>1, <1>2 DEF CharsOK

\* The rounding of a sum, and the sum of the rounded.
LEMMA Slack ==
    ASSUME NEW s \in Nat, NEW t \in Nat, NEW n \in Nat, 4 * t <= s, s <= 4 * t + 3 * n
    PROVE  0 <= (s \div 4) - t /\ (n = 0 => (s \div 4) - t = 0) /\ (n > 0 => (s \div 4) - t < n)
  <1>1. PICK q \in Nat : q = s \div 4 /\ 4 * q <= s /\ s < 4 * q + 4
    OBVIOUS
  <1>2. t < q + 1 /\ 4 * q <= 4 * t + 3 * n
    BY <1>1
  <1> QED
    BY <1>1, <1>2

\* SummaryAddsUp, of the list of events alone.
Adds(s, whole) ==
    LET E == {k \in DOMAIN s : s[k].phase = "thinking_end"}
        content == Last(s).content
        Thinking == {m \in DOMAIN content : content[m].type = "thinking"}
        slack == Last(s).tokens - SumFunction([k \in E |-> s[k].tokens])
    IN /\ Last(s).phase = "response_end"
       /\ Last(s).blocks = Cardinality(E)
       /\ Last(s).thinking = SumFunction([k \in E |-> s[k].dur])
       /\ Last(s).interrupted <=> \E k \in E : s[k].interrupted
       /\ {<<content[m].index, content[m].interrupted>> : m \in Thinking} =
              {<<s[k].index, s[k].interrupted>> : k \in E}
       /\ \A m, n \in Thinking, j, k \in E :
              content[m].index = s[j].index /\ content[n].index = s[k].index =>
                  (m < n <=> j < k)
       /\ whole => 0 <= slack /\ (IF E = {} THEN slack = 0 ELSE slack < Cardinality(E))

\* A summary that adds up goes on doing so, for nothing comes after it.
LEMMA StillAdds ==
    ASSUME BaseOK, WholeOK, SummaryAddsUp, [Next]_vars, ~Finishes
    PROVE  SummaryAddsUp'
  <1>1. SummaryAddsUp <=> (stopped => Adds(out, lost = 0))
    BY DEF SummaryAddsUp, Adds, Summary, Ends, At
  <1>2. SummaryAddsUp' <=> (stopped' => Adds(out', lost' = 0))
    BY DEF SummaryAddsUp, Adds, Summary, Ends, At
  <1>3. ASSUME stopped'  PROVE Adds(out', lost' = 0)
    <2>1. stopped /\ out' = out
      <3>1. CASE FeedReturns
        BY <1>3, <3>1 DEF FeedReturns, Live
      <3>2. CASE ~FeedReturns
        BY <1>3, <3>2, SamePace
      <3> QED
        BY <3>1, <3>2
    <2>2. Adds(out, lost = 0)
      BY <1>1, <2>1
    <2>3. Adds(out, lost' = 0)
      <3>1. CASE lost' = 0
        <4>1. lost = 0
          BY <3>1, NoneLost
        <4>2. (lost = 0) = TRUE /\ (lost' = 0) = TRUE
          BY <3>1, <4>1
        <4> QED
          BY <2>2, <4>2
      <3>2. CASE lost' # 0
        BY <2>2, <3>2 DEF Adds
      <3> QED
        BY <3>1, <3>2
    <2> QED
      BY <2>1, <2>3
  <1> QED
    BY <1>2, <1>3

\* The summary adds up when it is computed, ...
LEMMA SummaryAdded ==
    ASSUME BaseOK, Finishes, CountsOK', CharsOK'
    PROVE  SummaryAddsUp'
  <1>1. PICK r : r = Response
    OBVIOUS
  <1>2. /\ r.phase = "response_end" /\ r.tokens = total.chars \div 4 /\ r.content = blocks'
        /\ r.blocks = total.blocks + Cardinality(StillThinking)
        /\ r.thinking = total.ms + SumFunctionOnSet(Elapsed, StillThinking)
        /\ r.interrupted = (total.interrupted \/ StillThinking # {})
    BY <1>1 DEF Response
  <1>3. Last(out') = r
    <2>1. PICK ids, c : Concludes(ids, c, Response)
      BY Finishing
    <2> QED
      BY <1>1, <2>1 DEF Concludes
  <1>4. /\ r.tokens = total'.chars \div 4 /\ r.blocks = total'.blocks /\ r.thinking = total'.ms
        /\ r.interrupted = total'.interrupted
    <2>1. PICK w, p, q : /\ w = total.ms + SumFunctionOnSet(Elapsed, StillThinking)
                         /\ p = total.blocks + Cardinality(StillThinking)
                         /\ q = (total.interrupted \/ StillThinking # {})
      OBVIOUS
    <2>2. total' = [ms |-> w, chars |-> total.chars, blocks |-> p, interrupted |-> q, out |-> total.out]
      BY <2>1, Finishing
    <2> QED
      BY <1>2, <2>1, <2>2
  <1>5. /\ IsFiniteSet(Ends') /\ total'.blocks = Cardinality(Ends')
        /\ total'.ms = SumFunctionOnSet(Durations', Ends')
        /\ \A k \in Ends' : /\ out'[k].dur \in Nat /\ out'[k].chars \in Nat
                            /\ out'[k].tokens = out'[k].chars \div 4
        /\ total'.interrupted <=> \E k \in Ends' : out'[k].interrupted
        /\ {<<blocks'[m].index, blocks'[m].interrupted>> : m \in Completed'}
               = {<<out'[k].index, out'[k].interrupted>> : k \in Ends'}
        /\ Aligned'
    <2> HIDE DEF Ends, Completed, Durations, Aligned
    <2> QED
      BY DEF CountsOK
  <1>6. lost' = 0 => total'.chars = SumFunctionOnSet(Lengths', Ends')
    <2>1. server'.at = "done"
      BY DEF Finishes, BaseOK, ServerOK
    <2>2. Coming' = 0
      BY <2>1 DEF Coming
    <2> HIDE DEF Lengths, Ends, Coming
    <2>3. IsFiniteSet(Ends') /\ \A k \in Ends' : Lengths'[k] \in Nat
      BY <1>5 DEF Lengths
    <2>4. PICK f, E : f = Lengths' /\ E = Ends'
      OBVIOUS
    <2>5. SumFunctionOnSet(f, E) \in Nat
      BY <2>3, <2>4, SumType
    <2> QED
      BY <2>2, <2>4, <2>5 DEF CharsOK
  <1> HIDE DEF Ends, Durations, Lengths
  <1>7. /\ SumFunction([k \in Ends' |-> out'[k].dur]) = SumFunctionOnSet(Durations', Ends')
        /\ SumFunction([k \in Ends' |-> out'[k].tokens]) = SumFunctionOnSet(Tokens', Ends')
    BY DEF SumFunction, Durations, Tokens
  <1>8. Completed' = {m \in DOMAIN r.content : r.content[m].type = "thinking"}
    BY <1>2 DEF Completed
  <1>9. PICK s, t : s = SumFunctionOnSet(Lengths', Ends') /\ t = SumFunctionOnSet(Tokens', Ends')
    OBVIOUS
  <1>10. PICK n : n = Cardinality(Ends')
    OBVIOUS
  <1>11. /\ s \in Nat /\ t \in Nat /\ n \in Nat /\ 4 * t <= s /\ s <= 4 * t + 3 * n
    <2>1. \A k \in Ends' : Lengths'[k] \in Nat /\ Tokens'[k] = Lengths'[k] \div 4
      BY <1>5 DEF Lengths, Tokens
    <2>2. PICK f, h, E : f = Lengths' /\ h = Tokens' /\ E = Ends'
      OBVIOUS
    <2>3. IsFiniteSet(E) /\ \A k \in E : f[k] \in Nat /\ h[k] = f[k] \div 4
      BY <1>5, <2>1, <2>2
    <2>4. /\ 4 * SumFunctionOnSet(h, E) <= SumFunctionOnSet(f, E)
          /\ SumFunctionOnSet(f, E) <= 4 * SumFunctionOnSet(h, E) + 3 * Cardinality(E)
          /\ SumFunctionOnSet(f, E) \in Nat /\ SumFunctionOnSet(h, E) \in Nat
      BY ONLY <2>3, SumRounded
    <2>5. Cardinality(E) \in Nat
      BY <2>3, FS_CardinalityType
    <2> QED
      BY ONLY <1>9, <1>10, <2>2, <2>4, <2>5
  <1>12. Ends' = {} <=> n = 0
    BY <1>5, <1>10, FS_EmptySet
  <1>13. lost' = 0 => /\ 0 <= r.tokens - t
                      /\ IF Ends' = {} THEN r.tokens - t = 0 ELSE r.tokens - t < n
    <2> SUFFICES ASSUME lost' = 0
                 PROVE  /\ 0 <= r.tokens - t
                        /\ IF Ends' = {} THEN r.tokens - t = 0 ELSE r.tokens - t < n
      OBVIOUS
    <2>1. r.tokens = s \div 4
      BY <1>4, <1>6, <1>9
    <2>2. 0 <= (s \div 4) - t /\ (n = 0 => (s \div 4) - t = 0) /\ (n > 0 => (s \div 4) - t < n)
      BY <1>11, Slack
    <2>3. n = 0 \/ n > 0
      BY <1>11
    <2> QED
      BY <1>12, <2>1, <2>2, <2>3
  <1>14. \A p, q \in Completed', j, k \in Ends' :
             blocks'[p].index = out'[j].index /\ blocks'[q].index = out'[k].index => (p < q <=> j < k)
    BY <1>5 DEF Aligned
  <1> HIDE DEF Completed, Aligned
  <1>15. /\ r.phase = "response_end" /\ r.blocks = Cardinality(Ends')
         /\ r.thinking = SumFunction([k \in Ends' |-> out'[k].dur])
         /\ r.interrupted <=> \E k \in Ends' : out'[k].interrupted
         /\ {<<r.content[m].index, r.content[m].interrupted>> : m \in Completed'}
                = {<<out'[k].index, out'[k].interrupted>> : k \in Ends'}
         /\ \A p, q \in Completed', j, k \in Ends' :
                r.content[p].index = out'[j].index /\ r.content[q].index = out'[k].index
                    => (p < q <=> j < k)
    BY <1>2, <1>4, <1>5, <1>7, <1>14
  <1>16. lost' = 0 =>
             /\ 0 <= r.tokens - SumFunction([k \in Ends' |-> out'[k].tokens])
             /\ IF Ends' = {} THEN r.tokens - SumFunction([k \in Ends' |-> out'[k].tokens]) = 0
                ELSE r.tokens - SumFunction([k \in Ends' |-> out'[k].tokens]) < Cardinality(Ends')
    BY <1>7, <1>9, <1>10, <1>13
  <1>17. Summary' = r
    BY <1>3 DEF Summary
  <1> HIDE DEF Summary
  <1> QED
    BY ONLY <1>8, <1>15, <1>16, <1>17 DEF SummaryAddsUp

\* ... and what it says agrees with the events before it.
THEOREM SummaryAddsUpThm == Spec => []SummaryAddsUp
  <1> DEFINE I == BaseOK /\ PairsOK /\ WholeOK /\ CountsOK /\ CharsOK /\ SummaryAddsUp
  <1>1. Init => I
    <2>1. Init => SummaryAddsUp
      BY DEF Init, SummaryAddsUp
    <2> QED
      BY <2>1, BaseInit, PairsInit, LatencyInit, CountsInit, CharsInit
  <1>2. I /\ [Next]_vars => I'
    <2> SUFFICES ASSUME I, [Next]_vars  PROVE I'
      OBVIOUS
    <2>1. BaseOK' /\ PairsOK' /\ WholeOK' /\ CountsOK' /\ CharsOK'
      BY BaseStep, PairsStep, WholeStep, CountsStep, CharsStep
    <2>2. SummaryAddsUp'
      BY <2>1, StillAdds, SummaryAdded
    <2> QED
      BY <2>1, <2>2
  <1>3. I => SummaryAddsUp
    OBVIOUS
  <1> QED
    BY <1>1, <1>2, <1>3, PTL DEF Spec

\* Every variable has its type, and no more thinking blocks are counted than the server may send.
THEOREM TypeOKThm == Spec => []TypeOK
  <1>1. Init => BaseOK /\ PairsOK /\ CountsOK
    BY BaseInit, PairsInit, CountsInit
  <1>2. BaseOK /\ PairsOK /\ CountsOK /\ [Next]_vars => (BaseOK /\ PairsOK /\ CountsOK)'
    BY BaseStep, PairsStep, CountsStep
  <1>3. BaseOK /\ PairsOK /\ CountsOK => TypeOK
    <2> SUFFICES ASSUME BaseOK, PairsOK, CountsOK  PROVE TypeOK
      OBVIOUS
    <2>1. total.blocks \in 0..Blocks
      <3>1. PICK E, f : E = Ends /\ f = [k \in Ends |-> out[k].index]
        OBVIOUS
      <3>2. f \in Injection(E, Indexes)
        <4>1. /\ \A k \in E : f[k] = out[k].index /\ f[k] \in Indexes
              /\ f = [k \in E |-> f[k]]
          BY <3>1 DEF PairsOK
        <4>2. \A j, k \in E : f[j] = f[k] => j = k
          BY <3>1, <4>1 DEF PairsOK
        <4> HIDE DEF Indexes
        <4> QED
          BY <4>1, <4>2 DEF Injection, IsInjective
      <3>3. IsFiniteSet(Indexes) /\ Cardinality(Indexes) = Blocks
        BY Typed
      <3>4. Cardinality(E) <= Cardinality(Indexes)
        BY <3>2, <3>3, FS_Injection
      <3>5. total.blocks = Cardinality(E)
        BY <3>1 DEF CountsOK
      <3>6. Blocks \in Nat /\ total.blocks \in Nat
        BY Typed, BoundsAssumption
      <3> QED
        BY <3>3, <3>4, <3>5, <3>6
    <2>2. total \in [ms : Nat, chars : Nat, blocks : 0..Blocks, interrupted : BOOLEAN, out : Nat]
      <3>1. PICK B : B = 0..Blocks
        OBVIOUS
      <3>2. total.blocks \in B
        BY <2>1, <3>1
      <3>3. total \in [ms : Nat, chars : Nat, blocks : B, interrupted : BOOLEAN, out : Nat]
        BY <3>2, Typed
      <3> QED
        BY <3>1, <3>3
    <2>3. /\ now \in 0..MaxTime
          /\ {started, thinkingEnd, firstToken, firstText, lastText, lastProgress} \subseteq Times
      <3>1. now \in Nat /\ now <= MaxTime /\ MaxTime \in Nat
        BY Typed
      <3>2. Past \subseteq Times
        BY <3>1 DEF Past, Times, None
      <3> QED
        BY <3>1, <3>2 DEF BaseOK, TimesOK
    <2>4. open \in [Indexes -> [type : Types \cup {"none"}, start : 0..MaxTime]]
      <3>1. 0..now \subseteq 0..MaxTime
        BY Typed
      <3> HIDE DEF Indexes
      <3> QED
        BY <3>1 DEF BaseOK, OpenOK
    <2>5. \A b \in ToSet(blocks) : b.type \in Types /\ b.index \in Indexes
      BY DEF BaseOK, BlocksOK, ToSet
    <2> QED
      BY <2>2, <2>3, <2>4, <2>5 DEF TypeOK, BaseOK, TextOK
  <1> QED
    BY <1>1, <1>2, <1>3, PTL DEF Spec

=============================================================================
