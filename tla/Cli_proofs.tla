----------------------------- MODULE Cli_proofs -----------------------------
(***************************************************************************)
(* What holds of the commands of cia/cli.py: of cia tail for every set of  *)
(* events, all timestamps, every limit of an answer and every number of    *)
(* clears and restarts; and of the daemon's life for every number of       *)
(* processes, starts, stops, crashes and signals, when its user has one    *)
(* terminal.                                                               *)
(***************************************************************************)
EXTENDS Lifecycle, Tail, SequenceTheorems, FiniteSetTheorems, TLAPS

-----------------------------------------------------------------------------
(* Tail: what its variables hold.                                          *)

RowType == [seq : Nat \ {0}, event : Events]

TypeOK ==
    /\ rows \in Seq(Events) /\ saved \in Seq(Events)
    /\ ts \in [Events -> Times]
    /\ maxSeq \in Nat
    /\ first \in Seq(RowType)
    /\ cursor \in Nat \cup {None}
    /\ printed \in Seq(Events)
    /\ born \in [Events -> {"new", "early", "after"}]
    /\ resets \in Nat

\* The seqs that an event has, as it is read or as it is committed.
Seqs(e) == {i \in DOMAIN rows : rows[i] = e} \cup {i \in DOMAIN saved : saved[i] = e}

\* An event has one seq for life: one that a rollback brings back comes to the seq
\* it had, and one that is lost does not come again.
OneSeq ==
    \A e \in Events : /\ \A i, j \in Seqs(e) : i = j
                      /\ born[e] = "new" => Seqs(e) = {}

\* What was printed, or is about to be, was recorded.
PrintedBorn ==
    /\ \A e \in Range(printed) : born[e] # "new"
    /\ \A r \in Range(first) : born[r.event] # "new"

\* What was printed once is at or below the cursor, wherever it still is.
PrintedBelow == \A e \in Range(printed) : \A i \in Seqs(e) : i <= cursor

\* The first row of an answer was not printed, and has no other seq; above a cursor
\* it is the next.
FirstIsNext ==
    /\ Len(first) <= 1
    /\ \A r \in Range(first) :
           /\ r.event \notin Range(printed)
           /\ \A i \in Seqs(r.event) : i = r.seq
           /\ cursor # None => r.seq = cursor + 1

\* Without a cursor nothing was printed, and nothing was recorded after it.
NoCursor ==
    cursor = None => printed = <<>> /\ \A e \in Events : born[e] # "after"

\* Events recorded once there is a cursor are printed in the order of their seqs.
InOrder ==
    \A j, k \in DOMAIN printed :
        j < k /\ born[printed[j]] = "after" /\ born[printed[k]] = "after" =>
            \A m \in Seqs(printed[j]), n \in Seqs(printed[k]) : m < n

OrderInv ==
    /\ TypeOK /\ OneSeq /\ PrintedBorn /\ PrintedBelow /\ FirstIsNext /\ NoCursor
    /\ IsInjective(printed) /\ InOrder

\* As long as nothing was reset the cursor, the tip and the first row of an answer
\* are of the table as it is.
TableGrows ==
    resets = 0 =>
        /\ cursor <= Len(rows) /\ maxSeq <= Len(rows)
        /\ \A r \in Range(first) : r.seq \in DOMAIN rows /\ rows[r.seq] = r.event

TailInv == OrderInv /\ TableGrows /\ NothingPassed

-----------------------------------------------------------------------------
(* Tail: numbers, sequences and sets.                                      *)

\* A set of integers with 0 and an upper bound has a greatest element.
LEMMA HasMax ==
    ASSUME NEW S \in SUBSET Int, 0 \in S, NEW b \in Nat, \A s \in S : s <= b
    PROVE  Max(S) \in S /\ \A s \in S : s <= Max(S)
  <1> DEFINE T == {n \in Nat : \A s \in S : s <= n}
             R == {p \in Nat \X Nat : p[1] < p[2]}
  <1>1. IsWellFoundedOn(OpToRel(<, Nat), Nat)
    BY NatLessThanWellFounded
  <1>2. OpToRel(<, Nat) = R
    BY DEF OpToRel
  <1>3. b \in T /\ T \subseteq Nat
    OBVIOUS
  <1>4. PICK u \in T : \A y \in T : <<y, u>> \notin R
    <2> HIDE DEF T, R
    <2> QED
      BY <1>1, <1>2, <1>3, WFMin
  <1>5. u \in S
    <2> SUFFICES ASSUME u \notin S  PROVE FALSE
      OBVIOUS
    <2>1. u # 0 /\ u - 1 \in Nat
      OBVIOUS
    <2>2. u - 1 \in T
      BY <2>1
    <2>3. <<u - 1, u>> \in R
      BY <2>1
    <2> QED
      BY <1>4, <2>2, <2>3
  <1>6. \A s \in S : u >= s
    OBVIOUS
  <1>7. \E x \in S : \A y \in S : x >= y
    BY <1>5, <1>6
  <1>8. Max(S) \in S /\ \A y \in S : Max(S) >= y
    BY <1>7 DEF Max
  <1> QED
    BY <1>8

\* The smaller of two numbers.
LEMMA MinOfTwo ==
    ASSUME NEW a \in Nat, NEW b \in Nat
    PROVE  /\ Min({a, b}) \in Nat /\ Min({a, b}) <= a /\ Min({a, b}) <= b
           /\ a # 0 /\ b # 0 => Min({a, b}) # 0
  <1>1. \E x \in {a, b} : \A y \in {a, b} : x <= y
    OBVIOUS
  <1>2. Min({a, b}) \in {a, b} /\ \A y \in {a, b} : Min({a, b}) <= y
    BY <1>1 DEF Min
  <1> QED
    BY <1>2

-----------------------------------------------------------------------------
(* Tail: the answer.                                                       *)

\* Rows are ordered by their seqs, or by their timestamps and seqs.
LEMMA BeforeOrders ==
    ASSUME TypeOK, NEW r \in RowType, NEW q \in RowType
    PROVE  /\ ~Before(r, r)
           /\ Before(r, q) => ~Before(q, r)
           /\ cursor # None => (Before(r, q) <=> r.seq < q.seq)
  <1>1. ts[r.event] \in Nat /\ ts[q.event] \in Nat /\ r.seq \in Nat /\ q.seq \in Nat
    BY TimesAssumption DEF TypeOK, RowType
  <1>2. CASE cursor # None
    BY <1>1, <1>2 DEF Before
  <1>3. CASE cursor = None
    <2>1. \A x, y : Before(x, y) <=> Earlier(x, y)
      BY <1>3 DEF Before
    <2>2. ~Earlier(r, r) /\ (Earlier(r, q) => ~Earlier(q, r))
      BY <1>1 DEF Earlier
    <2> QED
      BY <1>3, <2>1, <2>2
  <1> QED
    BY <1>2, <1>3

\* What is found are rows of the table, finitely many.
LEMMA FoundRows ==
    ASSUME TypeOK
    PROVE  /\ IsFiniteSet(Found)
           /\ \A r \in Found : /\ r \in RowType /\ r.seq \in DOMAIN rows
                               /\ rows[r.seq] = r.event /\ Wanted(r)
           /\ \A i \in DOMAIN rows : Wanted(Row(i)) => Row(i) \in Found
  <1> rows \in Seq(Events)
    BY DEF TypeOK
  <1>1. DOMAIN rows = 1..Len(rows) /\ Len(rows) \in Nat /\ \A i \in DOMAIN rows : rows[i] \in Events
    OBVIOUS
  <1>2. \A r \in Found : /\ r \in RowType /\ r.seq \in DOMAIN rows
                         /\ rows[r.seq] = r.event /\ Wanted(r)
    BY <1>1 DEF Found, Row, RowType
  <1>3. \A i \in DOMAIN rows : Wanted(Row(i)) => Row(i) \in Found
    BY DEF Found
  <1> DEFINE f == [r \in Found |-> r.seq]
  <1>4. f \in Injection(Found, 1..Len(rows))
    <2>1. f \in [Found -> 1..Len(rows)]
      BY <1>1, <1>2
    <2>2. ASSUME NEW r \in Found, NEW q \in Found, f[r] = f[q]
          PROVE  r = q
      BY <1>2, <2>2 DEF RowType
    <2> QED
      BY <2>1, <2>2 DEF Injection, IsInjective
  <1>5. IsFiniteSet(1..Len(rows))
    BY <1>1, FS_Interval
  <1> HIDE DEF f
  <1>6. IsFiniteSet(Found)
    BY <1>4, <1>5, FS_Injection
  <1> QED
    BY <1>2, <1>3, <1>6

\* A page is a list of rows, in the order of the answer, and nothing of what it
\* leaves out comes before its end.
LEMMA PageFacts ==
    ASSUME TypeOK, NEW S \in SUBSET Found, NEW n \in Nat, NEW page \in Pages(S, n)
    PROVE  /\ page \in Seq(RowType) /\ Len(page) <= n
           /\ \A k \in DOMAIN page : page[k] \in S
           /\ \A j, k \in DOMAIN page : j < k => Before(page[j], page[k])
           /\ \A r \in S \ Range(page), k \in DOMAIN page : Before(page[k], r)
           /\ n # 0 /\ S # {} => page # <<>>
  <1>1. S \subseteq RowType /\ IsFiniteSet(S)
    BY FoundRows, FS_Subset
  <1> DEFINE m == Min({Cardinality(S), n})
  <1>2. Cardinality(S) \in Nat /\ (Cardinality(S) = 0 <=> S = {})
    BY <1>1, FS_CardinalityType, FS_EmptySet
  <1>3. m \in Nat /\ m <= n /\ (n # 0 /\ S # {} => m # 0)
    BY <1>2, MinOfTwo
  <1>4. page \in [1..m -> S]
    BY DEF Pages
  <1>5. /\ \A j, k \in DOMAIN page : j < k => Before(page[j], page[k])
        /\ \A r \in S \ Range(page), k \in DOMAIN page : Before(page[k], r)
    BY DEF Pages
  <1> HIDE DEF m
  <1>6. page \in Seq(RowType) /\ Len(page) = m
    BY <1>1, <1>3, <1>4
  <1>7. \A k \in DOMAIN page : page[k] \in S
    BY <1>4
  <1>8. m # 0 => page # <<>>
    BY <1>3, <1>6
  <1> QED
    BY <1>3, <1>5, <1>6, <1>7, <1>8

\* The seqs of an event are positions.
LEMMA SeqsType == TypeOK => \A e \in Events : Seqs(e) \subseteq Nat
  <1> SUFFICES ASSUME TypeOK  PROVE \A e \in Events : Seqs(e) \subseteq Nat
    OBVIOUS
  <1>1. rows \in Seq(Events) /\ saved \in Seq(Events)
    BY DEF TypeOK
  <1>2. DOMAIN rows \subseteq Nat /\ DOMAIN saved \subseteq Nat
    BY <1>1
  <1> QED
    BY <1>2 DEF Seqs

\* What is found was not printed, and has the seq it is found at and no other.
LEMMA FoundIsNew ==
    ASSUME OrderInv, NEW r \in Found
    PROVE  /\ r.event \notin Range(printed)
           /\ Seqs(r.event) = {r.seq}
           /\ born[r.event] # "new"
           /\ r.event \in Events /\ r.seq \in Nat
  <1> USE DEF OrderInv
  <1>1. /\ r \in RowType /\ r.seq \in DOMAIN rows
        /\ rows[r.seq] = r.event /\ Wanted(r)
    BY FoundRows
  <1>2. r.event \in Events /\ r.seq \in Nat
    BY <1>1 DEF RowType
  <1>3. r.seq \in Seqs(r.event)
    BY <1>1 DEF Seqs
  <1>4. Seqs(r.event) = {r.seq} /\ born[r.event] # "new"
    BY <1>2, <1>3 DEF OneSeq
  <1>5. r.event \notin Range(printed)
    <2>1. CASE cursor # None
      BY <1>1, <1>2, <1>3, <2>1 DEF Wanted, PrintedBelow, TypeOK
    <2>2. CASE cursor = None
      BY <2>2 DEF NoCursor, Range
    <2> QED
      BY <2>1, <2>2
  <1> QED
    BY <1>2, <1>4, <1>5

\* What an answer consists of: rows that were not printed, in their order, above the
\* cursor, and none left out between two of them.
GoodAnswer(answer) ==
    /\ answer \in Seq(RowType) /\ Range(first) \subseteq Range(answer)
    /\ \A k \in DOMAIN answer :
           /\ answer[k].event \notin Range(printed)
           /\ Seqs(answer[k].event) \subseteq {answer[k].seq}
           /\ born[answer[k].event] # "new"
           /\ cursor # None => answer[k].seq > cursor
           /\ answer[k] \in Range(first) \cup Found
    /\ \A j, k \in DOMAIN answer :
           j < k => Before(answer[j], answer[k]) /\ answer[j].event # answer[k].event
    /\ cursor # None =>
           \A r \in Found : \/ r \in Range(answer)
                            \/ \E q \in Range(first) : q.seq = r.seq
                            \/ \A k \in DOMAIN answer : answer[k].seq <= r.seq

\* A page that is read in one go is a good answer.
LEMMA AnswerFacts ==
    ASSUME OrderInv, NEW page \in Pages(Rest, Limit - 1)
    PROVE  GoodAnswer(first \o page)
  <1> DEFINE answer == first \o page
  <1> USE DEF OrderInv
  <1>1. /\ first \in Seq(RowType) /\ Len(first) \in {0, 1}
    <2>1. first \in Seq(RowType) /\ Len(first) <= 1
      BY DEF TypeOK, FirstIsNext
    <2>2. Len(first) \in Nat
      BY <2>1, LenProperties
    <2>3. \A n \in Nat : n <= 1 => n \in {0, 1}
      BY ONLY SMT
    <2> QED
      BY ONLY <2>1, <2>2, <2>3, Zenon
  <1>2. Limit - 1 \in Nat
    BY LimitAssumption
  <1>3. /\ page \in Seq(RowType)
        /\ \A k \in DOMAIN page : page[k] \in Rest
        /\ \A j, k \in DOMAIN page : j < k => Before(page[j], page[k])
        /\ \A r \in Rest \ Range(page), k \in DOMAIN page : Before(page[k], r)
    BY <1>2, PageFacts DEF Rest
  <1>4. /\ answer \in Seq(RowType) /\ DOMAIN answer = 1..(Len(first) + Len(page))
        /\ \A k \in DOMAIN answer :
              answer[k] = IF k <= Len(first) THEN first[k] ELSE page[k - Len(first)]
        /\ DOMAIN page = 1..Len(page) /\ Len(page) \in Nat
    BY <1>1, <1>3
  <1> HIDE DEF answer
  <1>5. ASSUME first = <<>>  PROVE GoodAnswer(answer)
    <2>1. Rest = {}
      BY <1>5 DEF Rest
    <2>2. Len(page) = 0
      BY <1>3, <1>4, <2>1
    <2>3. Len(first) = 0
      BY <1>5
    <2>4. DOMAIN answer = {}
      BY <1>4, <2>2, <2>3
    <2>5. /\ \A k \in DOMAIN answer : FALSE
          /\ answer \in Seq(RowType) /\ Range(first) \subseteq Range(answer)
      BY <1>4, <1>5, <2>4 DEF Range
    <2> QED
      BY ONLY <2>5 DEF GoodAnswer
  <1>6. ASSUME first # <<>>  PROVE GoodAnswer(answer)
    <2>1. Len(first) = 1 /\ first[1] \in Range(first) /\ first[1] \in RowType
      BY <1>1, <1>6 DEF Range
    <2>2. /\ DOMAIN answer = 1..(1 + Len(page)) /\ 1 \in DOMAIN answer
          /\ answer[1] = first[1]
          /\ \A k \in DOMAIN answer : k # 1 => k - 1 \in DOMAIN page /\ answer[k] = page[k - 1]
          /\ \A k \in DOMAIN page : k + 1 \in DOMAIN answer /\ answer[k + 1] = page[k]
      BY <1>4, <2>1
    <2>3. \A r \in Rest : r \in Found /\ Before(first[1], r) /\ r \in RowType
      BY FoundRows DEF Rest
    <2>4. ASSUME NEW k \in DOMAIN answer
          PROVE  /\ answer[k].event \notin Range(printed)
                 /\ Seqs(answer[k].event) \subseteq {answer[k].seq}
                 /\ born[answer[k].event] # "new"
                 /\ cursor # None => answer[k].seq > cursor
                 /\ answer[k] \in Range(first) \cup Found
      <3>1. CASE k = 1
        <4>1. answer[k] \in Range(first) /\ answer[k].seq \in Nat
          BY <2>1, <2>2, <3>1 DEF RowType
        <4>2. /\ answer[k].event \notin Range(printed)
              /\ \A i \in Seqs(answer[k].event) : i = answer[k].seq
              /\ cursor # None => answer[k].seq = cursor + 1
          BY <4>1 DEF FirstIsNext
        <4>3. born[answer[k].event] # "new"
          BY <4>1 DEF PrintedBorn
        <4>4. cursor # None => cursor \in Nat
          BY DEF TypeOK
        <4> QED
          BY <4>1, <4>2, <4>3, <4>4
      <3>2. CASE k # 1
        <4>1. answer[k] \in Found
          BY <1>3, <2>2, <2>3, <3>2
        <4> QED
          BY <4>1, FoundRows, FoundIsNew DEF Wanted
      <3> QED
        BY <3>1, <3>2
    <2>5. ASSUME NEW j \in DOMAIN answer, NEW k \in DOMAIN answer, j < k
          PROVE  Before(answer[j], answer[k]) /\ answer[j].event # answer[k].event
      <3>1. k # 1 /\ k - 1 \in DOMAIN page /\ answer[k] = page[k - 1] /\ answer[k] \in Rest
        BY <1>3, <2>2, <2>5
      <3>2. Before(answer[j], answer[k])
        <4>1. CASE j = 1
          BY <2>2, <2>3, <3>1, <4>1
        <4>2. CASE j # 1
          BY <1>3, <1>4, <2>2, <2>5, <3>1, <4>2
        <4> QED
          BY <4>1, <4>2
      <3>3. answer[j].event # answer[k].event
        <4> SUFFICES ASSUME answer[j].event = answer[k].event  PROVE FALSE
          OBVIOUS
        <4>1. Seqs(answer[k].event) = {answer[k].seq}
          BY <2>3, <3>1, FoundIsNew
        <4>2. Seqs(answer[j].event) \subseteq {answer[j].seq}
          BY <2>4
        <4>3. answer[j].seq = answer[k].seq
          BY <4>1, <4>2
        <4>4. answer[j] \in RowType /\ answer[k] \in RowType
          BY <1>4
        <4>5. answer[j] = answer[k]
          BY <4>3, <4>4 DEF RowType
        <4> QED
          BY <3>2, <4>4, <4>5, BeforeOrders
      <3> QED
        BY <3>2, <3>3
    <2>6. ASSUME cursor # None, NEW r \in Found, NEW k \in DOMAIN answer,
                 r \notin Range(answer), r.seq # first[1].seq
          PROVE  answer[k].seq <= r.seq
      <3>1. /\ r \in RowType /\ answer[k] \in RowType /\ r.seq \in Nat
            /\ r.seq > cursor /\ cursor \in Nat
        <4>1. r \in RowType /\ Wanted(r)
          BY <2>6, FoundRows
        <4>2. answer[k] \in RowType
          BY <1>4, <2>6
        <4>3. cursor \in Nat
          BY <2>6 DEF TypeOK
        <4> QED
          BY <2>6, <4>1, <4>2, <4>3 DEF RowType, Wanted
      <3>2. first[1].seq = cursor + 1
        BY <2>1, <2>6 DEF FirstIsNext
      <3>3. CASE k = 1
        BY <2>2, <3>1, <3>2, <3>3
      <3>4. CASE k # 1
        <4>1. k - 1 \in DOMAIN page /\ answer[k] = page[k - 1]
          BY <2>2, <3>4
        <4>2. CASE r \in Rest
          <5>1. r \notin Range(page)
            BY <2>2, <2>6 DEF Range
          <5>2. Before(answer[k], r)
            BY <1>3, <4>1, <4>2, <5>1
          <5> QED
            BY <2>6, <3>1, <5>2, BeforeOrders DEF RowType
        <4>3. CASE r \notin Rest
          <5>1. ~Before(first[1], r)
            BY <1>6, <4>3 DEF Rest
          <5>2. ~(first[1].seq < r.seq)
            BY <2>1, <2>6, <3>1, <5>1, BeforeOrders
          <5> QED
            BY <2>6, <3>1, <3>2, <5>2
        <4> QED
          BY <4>2, <4>3
      <3> QED
        BY <3>3, <3>4
    <2>7. Range(first) \subseteq Range(answer)
      <3>1. \A q \in Range(first) : q = first[1]
        BY <1>1, <2>1 DEF Range
      <3> QED
        BY <2>2, <3>1 DEF Range
    <2> QED
      BY <1>4, <2>1, <2>4, <2>5, <2>6, <2>7 DEF GoodAnswer
  <1> QED
    BY <1>5, <1>6 DEF answer

\* The cursor never goes back, covers what is printed, and is somebody's seq or the tip.
LEMMA AdvanceFacts ==
    ASSUME OrderInv, NEW answer, GoodAnswer(answer)
    PROVE  LET c == Advance({r.seq : r \in Range(answer)})
           IN /\ c \in Nat /\ cursor <= c
              /\ \A k \in DOMAIN answer : answer[k].seq <= c
              /\ c \in {cursor, maxSeq, 0} \cup {answer[k].seq : k \in DOMAIN answer}
              /\ cursor # None => c \in {cursor} \cup {answer[k].seq : k \in DOMAIN answer}
  <1> DEFINE seqs == {r.seq : r \in Range(answer)}
             S == seqs \cup {cursor, 0}
  <1> USE DEF OrderInv
  <1>1. answer \in Seq(RowType) /\ \A k \in DOMAIN answer : answer[k] \in Range(first) \cup Found
    BY DEF GoodAnswer
  <1>2. seqs = {answer[k].seq : k \in DOMAIN answer}
    BY DEF Range
  <1>3. \A k \in DOMAIN answer : answer[k].seq \in Nat \ {0}
    <2>1. \A k \in DOMAIN answer : answer[k] \in RowType
      BY <1>1
    <2> QED
      BY <2>1 DEF RowType
  <1>4. cursor \in Nat \cup {None} /\ None = -1 /\ maxSeq \in Nat
    BY DEF TypeOK, None
  <1>5. PICK b \in Nat : cursor <= b /\ \A k \in DOMAIN answer : answer[k].seq <= b
    <2>1. \A r \in Found : r.seq \in Nat /\ r.seq <= Len(rows)
      <3>1. rows \in Seq(Events)
        BY DEF TypeOK
      <3>2. DOMAIN rows = 1..Len(rows) /\ Len(rows) \in Nat
        BY <3>1
      <3> QED
        BY <3>2, FoundRows
    <2>2. PICK m \in Nat : \A r \in Range(first) : r.seq <= m
      <3>1. /\ first \in Seq(RowType) /\ Len(first) <= 1
        BY DEF TypeOK, FirstIsNext
      <3>2. CASE first = <<>>
        BY <3>2 DEF Range
      <3>3. CASE first # <<>>
        <4>1. Len(first) = 1 /\ DOMAIN first = {1} /\ first[1] \in RowType
          BY <3>1, <3>3
        <4>2. first[1].seq \in Nat /\ \A r \in Range(first) : r.seq = first[1].seq
          BY <4>1 DEF RowType, Range
        <4> QED
          BY <4>2
      <3> QED
        BY <3>2, <3>3
    <2>3. Len(rows) \in Nat
      BY LenProperties DEF TypeOK
    <2> DEFINE c == IF cursor = None THEN 0 ELSE cursor
               l == Len(rows)
    <2>4. c \in Nat /\ cursor <= c /\ l \in Nat
      BY <1>4, <2>3
    <2>5. \A k \in DOMAIN answer : answer[k].seq <= l \/ answer[k].seq <= m
      BY <1>1, <2>1, <2>2
    <2> HIDE DEF c, l
    <2>6. l + m + c \in Nat /\ cursor <= l + m + c
      BY <1>4, <2>2, <2>4
    <2>7. \A k \in DOMAIN answer : answer[k].seq <= l + m + c
      BY <1>3, <2>2, <2>4, <2>5
    <2> QED
      BY <2>6, <2>7
  <1>6. S \in SUBSET Int /\ 0 \in S /\ \A s \in S : s <= b
    <2> DEFINE Q == {answer[k].seq : k \in DOMAIN answer}
    <2>0. seqs = Q
      BY <1>2
    <2>1. \A s \in Q : s \in Int /\ s <= b
      BY <1>3, <1>5
    <2> HIDE DEF seqs, Q
    <2>2. seqs \subseteq Int /\ \A s \in seqs : s <= b
      BY <2>0, <2>1
    <2> QED
      BY <1>4, <1>5, <2>2
  <1> HIDE DEF S
  <1>7. Max(S) \in S /\ \A s \in S : s <= Max(S)
    BY <1>6, HasMax
  <1> USE DEF S
  <1>8. CASE cursor = None /\ seqs = {}
    <2>1. Advance(seqs) = maxSeq
      BY <1>8 DEF Advance
    <2>2. DOMAIN answer = {}
      BY <1>2, <1>8
    <2> HIDE DEF S, seqs
    <2> QED
      BY <1>4, <1>8, <2>1, <2>2 DEF seqs
  <1>9. CASE ~(cursor = None /\ seqs = {})
    <2>1. Advance(seqs) = Max(S)
      BY <1>9 DEF Advance
    <2>2. Max(S) \in Nat /\ cursor <= Max(S)
      BY <1>3, <1>4, <1>6, <1>7
    <2>3. \A k \in DOMAIN answer : answer[k].seq <= Max(S)
      BY <1>2, <1>7
    <2>4. Max(S) \in {cursor, 0} \cup {answer[k].seq : k \in DOMAIN answer}
      BY <1>2, <1>7
    <2>5. cursor # None /\ Max(S) = 0 => cursor = 0
      BY <1>4, <2>2
    <2> HIDE DEF S, seqs
    <2>6. Advance({r.seq : r \in Range(answer)}) = Max(S)
      BY <2>1 DEF seqs
    <2> QED
      BY ONLY <2>2, <2>3, <2>4, <2>5, <2>6
  <1> QED
    BY <1>8, <1>9

-----------------------------------------------------------------------------
(* Tail: the order of what is printed.                                     *)

\* Nothing is printed or recorded at the start.
LEMMA OrderInit == Init => OrderInv
  <1> SUFFICES ASSUME Init  PROVE OrderInv
    OBVIOUS
  <1> USE DEF Init, InitTable
  <1>1. rows = <<>> /\ saved = <<>> /\ first = <<>> /\ printed = <<>>
    OBVIOUS
  <1>2. TypeOK
    BY DEF TypeOK
  <1>3. \A e : Seqs(e) = {}
    BY <1>1 DEF Seqs
  <1>4. OneSeq
    BY <1>3 DEF OneSeq
  <1>5. Range(printed) = {} /\ Range(first) = {} /\ Len(first) = 0 /\ DOMAIN printed = {}
    BY <1>1 DEF Range
  <1>6. PrintedBorn /\ PrintedBelow /\ FirstIsNext /\ InOrder /\ IsInjective(printed)
    BY <1>5 DEF PrintedBorn, PrintedBelow, FirstIsNext, InOrder, IsInjective
  <1>7. NoCursor
    BY <1>1 DEF NoCursor
  <1> QED
    BY <1>2, <1>4, <1>6, <1>7 DEF OrderInv

\* What leaves the cursor and the output alone, and gives no event a seq.
LEMMA OrderFrame ==
    ASSUME OrderInv, TypeOK', \A e : Seqs(e)' \subseteq Seqs(e),
           UNCHANGED <<cursor, printed, born>>, first' = first \/ first' = <<>>
    PROVE  OrderInv'
  <1> USE DEF OrderInv
  <1>1. Range(first') \subseteq Range(first) /\ Len(first') <= 1
    <2>1. CASE first' = first
      BY <2>1 DEF FirstIsNext
    <2>2. CASE first' = <<>>
      <3>1. Range(first') = {} /\ Len(first') = 0
        BY <2>2 DEF Range
      <3> QED
        BY <3>1
    <2> QED
      BY <2>1, <2>2
  <1>2. OneSeq'
    BY DEF OneSeq
  <1>3. PrintedBorn'
    BY <1>1 DEF PrintedBorn
  <1>4. PrintedBelow'
    BY DEF PrintedBelow
  <1>5. FirstIsNext'
    BY <1>1 DEF FirstIsNext
  <1>6. NoCursor' /\ IsInjective(printed)'
    BY DEF NoCursor, IsInjective
  <1>7. InOrder'
    BY DEF InOrder
  <1> QED
    BY <1>2, <1>3, <1>4, <1>5, <1>6, <1>7

\* A commit, a clear, a restart, the start of a poll and the tip.
LEMMA OrderKept ==
    ASSUME OrderInv, Save \/ Clear \/ Restart \/ Ask \/ MaxSeq \/ UNCHANGED vars
    PROVE  OrderInv'
  <1> USE DEF vars, table, request, history
  <1>1. rows \in Seq(Events) /\ saved \in Seq(Events) /\ Len(rows) \in Nat /\ TypeOK
    BY LenProperties DEF OrderInv, TypeOK
  <1>2. /\ UNCHANGED <<cursor, printed, born, ts>> /\ (first' = first \/ first' = <<>>)
        /\ rows' \in {rows, saved, <<>>} /\ saved' \in {rows, saved}
        /\ maxSeq' \in {maxSeq, Len(rows)} /\ resets' \in {resets, resets + 1}
    BY DEF Save, Clear, Restart, Ask, MaxSeq, Commit, Delete, Rollback
  <1>3. TypeOK'
    <2>1. rows' \in Seq(Events) /\ saved' \in Seq(Events)
      <3>1. <<>> \in Seq(Events)
        OBVIOUS
      <3> QED
        BY ONLY <1>1, <1>2, <3>1
    <2>2. first' \in Seq(RowType)
      <3>1. <<>> \in Seq(RowType) /\ first \in Seq(RowType)
        BY <1>1 DEF TypeOK
      <3> QED
        BY ONLY <1>2, <3>1
    <2>3. maxSeq' \in Nat /\ resets' \in Nat
      BY <1>1, <1>2 DEF TypeOK
    <2> QED
      BY <1>1, <1>2, <2>1, <2>2, <2>3 DEF TypeOK
  <1>4. \A e : Seqs(e)' \subseteq Seqs(e)
    BY <1>2 DEF Seqs
  <1> QED
    BY <1>2, <1>3, <1>4, OrderFrame

\* A new row comes after all that were read, ...
LEMMA OrderRecord ==
    ASSUME OrderInv, NEW e \in Events, Record(e)
    PROVE  OrderInv'
  <1> USE DEF OrderInv
  <1> DEFINE n == Len(rows) + 1
  <1>1. /\ born[e] = "new" /\ rows' = Append(rows, e) /\ saved' = saved
        /\ UNCHANGED <<ts, maxSeq, first, cursor, printed, resets>>
        /\ born' = [born EXCEPT ![e] = IF cursor # None THEN "after" ELSE "early"]
    BY DEF Record, Insert, request
  <1>2. /\ rows \in Seq(Events) /\ Len(rows) \in Nat
        /\ born \in [Events -> {"new", "early", "after"}]
    BY LenProperties DEF TypeOK
  <1>3. /\ rows' \in Seq(Events) /\ DOMAIN rows' = DOMAIN rows \cup {n} /\ n \notin DOMAIN rows
        /\ rows'[n] = e /\ \A i \in DOMAIN rows : rows'[i] = rows[i]
    BY <1>1, <1>2
  <1>4. /\ born' \in [Events -> {"new", "early", "after"}] /\ born'[e] # "new"
        /\ \A f \in Events \ {e} : born'[f] = born[f]
        /\ cursor = None => born'[e] = "early"
    BY <1>1, <1>2
  <1>5. TypeOK'
    BY <1>1, <1>3, <1>4 DEF TypeOK
  <1> HIDE DEF n
  <1>6. \A f : f # e => Seqs(f)' = Seqs(f)
    BY <1>1, <1>3 DEF Seqs
  <1>7. Seqs(e)' \subseteq {n}
    <2>1. Seqs(e) = {}
      BY <1>1 DEF OneSeq
    <2> QED
      BY <1>1, <1>3, <2>1 DEF Seqs
  <1>8. e \notin Range(printed) /\ \A r \in Range(first) : r.event # e
    BY <1>1 DEF PrintedBorn
  <1>9. /\ \A f \in Range(printed) : f \in Events
        /\ \A r \in Range(first) : r.event \in Events
    <2>1. printed \in Seq(Events) /\ first \in Seq(RowType)
      BY DEF TypeOK
    <2>2. Range(printed) \subseteq Events /\ Range(first) \subseteq RowType
      BY <2>1 DEF Range
    <2> QED
      BY <2>2 DEF RowType
  <1>10. OneSeq'
    BY <1>4, <1>6, <1>7 DEF OneSeq
  <1>11. PrintedBorn'
    BY <1>1, <1>4, <1>8, <1>9 DEF PrintedBorn
  <1>12. PrintedBelow'
    BY <1>1, <1>6, <1>8 DEF PrintedBelow
  <1>13. FirstIsNext'
    BY <1>1, <1>6, <1>8 DEF FirstIsNext
  <1>14. NoCursor'
    BY <1>1, <1>4 DEF NoCursor
  <1>15. IsInjective(printed)'
    BY <1>1 DEF IsInjective
  <1>16. InOrder'
    <2>1. \A j \in DOMAIN printed : printed[j] \in Range(printed)
      BY DEF Range
    <2>2. \A j \in DOMAIN printed : /\ Seqs(printed[j])' = Seqs(printed[j])
                                   /\ born'[printed[j]] = born[printed[j]]
      BY <1>1, <1>4, <1>6, <1>8, <1>9, <2>1
    <2> QED
      BY <1>1, <2>2 DEF InOrder
  <1> QED
    BY <1>5, <1>10, <1>11, <1>12, <1>13, <1>14, <1>15, <1>16

\* Above a cursor the first row found is the next one: there is no gap.
LEMMA OrderSelect ==
    ASSUME OrderInv, Select
    PROVE  OrderInv'
  <1> USE DEF OrderInv
  <1>1. /\ UNCHANGED <<rows, saved, ts, maxSeq, cursor, printed, born, resets>>
        /\ first' \in Pages(Found, 1)
    BY DEF Select, table, history
  <1>2. PICK page \in Pages(Found, 1) : first' = page
    BY <1>1
  <1>3. /\ page \in Seq(RowType) /\ Len(page) <= 1
        /\ \A k \in DOMAIN page : page[k] \in Found
        /\ \A r \in Found \ Range(page), k \in DOMAIN page : Before(page[k], r)
    BY PageFacts
  <1>4. TypeOK'
    BY <1>1, <1>2, <1>3 DEF TypeOK
  <1>5. \A e : Seqs(e)' = Seqs(e)
    BY <1>1 DEF Seqs
  <1>6. \A r \in Range(page) : r \in Found /\ page[1] = r /\ 1 \in DOMAIN page
    <2>1. \A k \in DOMAIN page : k = 1
      BY <1>3
    <2> QED
      BY <1>3, <2>1 DEF Range
  <1>7. ASSUME NEW r \in Range(page), cursor # None
        PROVE  r.seq = cursor + 1
    <2>1. /\ r \in RowType /\ r.seq \in DOMAIN rows /\ Wanted(r)
          /\ r = page[1] /\ 1 \in DOMAIN page
      BY <1>6, <1>7, FoundRows
    <2>2. /\ r.seq \in Nat /\ r.seq > cursor /\ cursor \in Nat
      BY <1>7, <2>1 DEF Wanted, RowType, TypeOK
    <2> SUFFICES ASSUME r.seq # cursor + 1  PROVE FALSE
      OBVIOUS
    <2>3. cursor + 1 \in DOMAIN rows /\ cursor + 1 < r.seq
      <3>1. rows \in Seq(Events)
        BY DEF TypeOK
      <3>2. DOMAIN rows = 1..Len(rows) /\ Len(rows) \in Nat
        BY <3>1
      <3> QED
        BY <2>1, <2>2, <3>2
    <2>4. Row(cursor + 1).seq = cursor + 1
      BY DEF Row
    <2>5. Wanted(Row(cursor + 1))
      BY <1>7, <2>2, <2>4 DEF Wanted
    <2>6. Row(cursor + 1) \in Found
      BY <2>3, <2>5, FoundRows
    <2>7. Row(cursor + 1) \in Found \ Range(page)
      BY <1>6, <2>1, <2>4, <2>6
    <2>8. Before(r, Row(cursor + 1))
      BY <1>3, <2>1, <2>7
    <2>9. Row(cursor + 1) \in RowType
      BY <2>6, FoundRows
    <2>10. r.seq < Row(cursor + 1).seq
      BY <1>7, <2>1, <2>8, <2>9, BeforeOrders
    <2> QED
      BY <2>2, <2>3, <2>4, <2>10
  <1>8. FirstIsNext'
    <2>1. \A r \in Range(page) : /\ r.event \notin Range(printed)
                                 /\ Seqs(r.event) = {r.seq}
      BY <1>6, FoundIsNew
    <2> QED
      BY <1>1, <1>2, <1>3, <1>5, <1>7, <2>1 DEF FirstIsNext
  <1>9. PrintedBorn'
    <2>1. \A r \in Range(page) : born[r.event] # "new"
      BY <1>6, FoundIsNew
    <2> QED
      BY <1>1, <1>2, <2>1 DEF PrintedBorn
  <1>10. OneSeq' /\ PrintedBelow'
    BY <1>1, <1>5 DEF OneSeq, PrintedBelow
  <1>11. NoCursor' /\ IsInjective(printed)'
    BY <1>1 DEF NoCursor, IsInjective
  <1>12. InOrder'
    BY <1>1, <1>5 DEF InOrder
  <1> QED
    BY <1>4, <1>8, <1>9, <1>10, <1>11, <1>12

\* What a fetch prints and where it moves the cursor.
LEMMA FetchFacts ==
    ASSUME OrderInv, Fetch
    PROVE  \E answer :
              /\ GoodAnswer(answer)
              /\ printed' = printed \o [k \in DOMAIN answer |-> answer[k].event]
              /\ cursor' = Advance({r.seq : r \in Range(answer)})
              /\ first' = <<>>
              /\ UNCHANGED <<rows, saved, ts, maxSeq, born, resets>>
  <1>1. PICK page \in Pages(Rest, Limit - 1) :
            LET answer == first \o page
            IN /\ printed' = printed \o [k \in DOMAIN answer |-> answer[k].event]
               /\ cursor' = Advance({r.seq : r \in Range(answer)})
    BY DEF Fetch
  <1>2. GoodAnswer(first \o page)
    BY AnswerFacts
  <1>3. first' = <<>> /\ UNCHANGED <<rows, saved, ts, maxSeq, born, resets>>
    BY DEF Fetch, table, history
  <1> QED
    BY <1>1, <1>2, <1>3

\* Where the events of an answer come to be in what is printed.
LEMMA PrintedThen ==
    ASSUME TypeOK, NEW answer \in Seq(RowType),
           printed' = printed \o [k \in DOMAIN answer |-> answer[k].event]
    PROVE  /\ printed' \in Seq(Events) /\ Len(printed) \in Nat
           /\ \A j \in DOMAIN printed : j \in DOMAIN printed' /\ printed'[j] = printed[j]
           /\ \A k \in DOMAIN answer : /\ k + Len(printed) \in DOMAIN printed'
                                       /\ printed'[k + Len(printed)] = answer[k].event
           /\ \A j \in DOMAIN printed' :
                  \/ j \in DOMAIN printed /\ j <= Len(printed)
                  \/ j > Len(printed) /\ j - Len(printed) \in DOMAIN answer
           /\ \A j \in DOMAIN printed' : j \in Nat
  <1> DEFINE evs == [k \in DOMAIN answer |-> answer[k].event]
  <1>1. printed \in Seq(Events) /\ \A k \in DOMAIN answer : answer[k].event \in Events
    <2>1. \A k \in DOMAIN answer : answer[k] \in RowType
      OBVIOUS
    <2> QED
      BY <2>1 DEF TypeOK, RowType
  <1>2. /\ evs \in Seq(Events) /\ DOMAIN evs = DOMAIN answer
        /\ \A k \in DOMAIN answer : evs[k] = answer[k].event
    BY <1>1
  <1> HIDE DEF evs
  <1>3. /\ printed' \in Seq(Events) /\ Len(printed') = Len(printed) + Len(evs)
        /\ \A j \in 1..Len(printed') :
               printed'[j] = IF j <= Len(printed) THEN printed[j] ELSE evs[j - Len(printed)]
    BY <1>1, <1>2, ConcatProperties DEF evs
  <1>4. /\ DOMAIN printed = 1..Len(printed) /\ DOMAIN answer = 1..Len(evs)
        /\ DOMAIN printed' = 1..(Len(printed) + Len(evs))
        /\ Len(printed) \in Nat /\ Len(evs) \in Nat
    BY <1>1, <1>2, <1>3
  <1> QED
    BY <1>2, <1>3, <1>4

\* ... a page is read in order, ...
LEMMA OrderFetch ==
    ASSUME OrderInv, Fetch
    PROVE  OrderInv'
  <1> USE DEF OrderInv
  <1>1. PICK answer :
            /\ GoodAnswer(answer)
            /\ printed' = printed \o [k \in DOMAIN answer |-> answer[k].event]
            /\ cursor' = Advance({r.seq : r \in Range(answer)})
            /\ first' = <<>>
            /\ UNCHANGED <<rows, saved, ts, maxSeq, born, resets>>
    BY FetchFacts
  <1>2. /\ cursor' \in Nat /\ cursor <= cursor'
        /\ \A k \in DOMAIN answer : answer[k].seq <= cursor'
    BY <1>1, AdvanceFacts
  <1> DEFINE n == Len(printed)
  <1>3. answer \in Seq(RowType)
    BY <1>1 DEF GoodAnswer
  <1>4. /\ printed' \in Seq(Events) /\ n \in Nat
        /\ \A j \in DOMAIN printed : j \in DOMAIN printed' /\ printed'[j] = printed[j]
        /\ \A k \in DOMAIN answer : /\ k + n \in DOMAIN printed'
                                    /\ printed'[k + n] = answer[k].event
        /\ \A j \in DOMAIN printed' : \/ j \in DOMAIN printed /\ j <= n
                                      \/ j > n /\ j - n \in DOMAIN answer
        /\ \A j \in DOMAIN printed' : j \in Nat
    BY <1>1, <1>3, PrintedThen
  <1> HIDE DEF n
  <1>5. \A j \in DOMAIN printed' :
            \/ j \in DOMAIN printed /\ j <= n /\ printed'[j] = printed[j]
            \/ j > n /\ j - n \in DOMAIN answer /\ printed'[j] = answer[j - n].event
    <2>1. \A j \in DOMAIN printed' : j \in Nat /\ (j - n) + n = j
      BY <1>4
    <2> QED
      BY <1>4, <2>1
  <1>6. \A j \in DOMAIN printed : printed[j] \in Range(printed)
    BY DEF Range
  <1>7. \A e : Seqs(e)' = Seqs(e)
    BY <1>1 DEF Seqs
  <1>8. TypeOK'
    <2>1. first' \in Seq(RowType)
      BY <1>1
    <2> QED
      BY <1>1, <1>2, <1>4, <2>1 DEF TypeOK
  <1>9. \A k \in DOMAIN answer :
            /\ answer[k] \in RowType /\ answer[k].seq \in Nat /\ answer[k].event \in Events
            /\ answer[k].event \notin Range(printed)
            /\ \A i \in Seqs(answer[k].event) : i = answer[k].seq
            /\ born[answer[k].event] # "new"
    <2>1. \A k \in DOMAIN answer : answer[k] \in RowType
      BY <1>3
    <2> QED
      BY <1>1, <2>1 DEF GoodAnswer, RowType
  <1>10. \A e \in Range(printed') :
            e \in Range(printed) \/ \E k \in DOMAIN answer : e = answer[k].event
    BY <1>5, <1>6 DEF Range
  <1>11. OneSeq'
    BY <1>1, <1>7 DEF OneSeq
  <1>12. PrintedBorn' /\ FirstIsNext'
    <2>1. Range(first') = {} /\ Len(first') = 0
      BY <1>1 DEF Range
    <2> QED
      BY <1>1, <1>9, <1>10, <2>1 DEF PrintedBorn, FirstIsNext
  <1>13. PrintedBelow'
    <2> SUFFICES ASSUME NEW e \in Range(printed'), NEW i \in Seqs(e)  PROVE i <= cursor'
      BY <1>7 DEF PrintedBelow
    <2>1. CASE e \in Range(printed)
      <3>1. i <= cursor /\ i \in Nat /\ cursor \in Nat \cup {-1}
        <4>1. e \in Events
          BY <2>1 DEF Range, TypeOK
        <4> QED
          BY <2>1, <4>1, SeqsType DEF PrintedBelow, TypeOK, None
      <3> QED
        BY <1>2, <3>1
    <2>2. CASE e \notin Range(printed)
      BY <1>2, <1>9, <1>10, <2>2
    <2> QED
      BY <2>1, <2>2
  <1>14. NoCursor'
    BY <1>2 DEF NoCursor, None
  <1>15. IsInjective(printed)'
    <2> SUFFICES ASSUME NEW j \in DOMAIN printed', NEW k \in DOMAIN printed',
                        printed'[j] = printed'[k]
                 PROVE  j = k
      BY DEF IsInjective
    <2>1. j \in Nat /\ k \in Nat /\ n \in Nat
      BY <1>4
    <2>2. CASE j <= n /\ k <= n
      BY <1>5, <2>1, <2>2 DEF IsInjective
    <2>3. CASE j > n /\ k > n
      <3>1. /\ j - n \in DOMAIN answer /\ k - n \in DOMAIN answer
            /\ answer[j - n].event = answer[k - n].event
        BY <1>5, <2>1, <2>3
      <3>2. \A a, b \in DOMAIN answer : a < b => answer[a].event # answer[b].event
        BY <1>1 DEF GoodAnswer
      <3>3. ~(j - n < k - n) /\ ~(k - n < j - n)
        BY <3>1, <3>2
      <3> QED
        BY <2>1, <3>3
    <2>4. CASE j <= n /\ k > n
      BY <1>5, <1>6, <1>9, <2>1, <2>4
    <2>5. CASE j > n /\ k <= n
      BY <1>5, <1>6, <1>9, <2>1, <2>5
    <2> QED
      BY <2>1, <2>2, <2>3, <2>4, <2>5
  <1>16. InOrder'
    <2> SUFFICES ASSUME NEW j \in DOMAIN printed', NEW k \in DOMAIN printed', j < k,
                        born[printed'[j]] = "after", born[printed'[k]] = "after",
                        NEW p \in Seqs(printed'[j]), NEW q \in Seqs(printed'[k])
                 PROVE  p < q
      BY <1>1, <1>7 DEF InOrder
    <2>1. j \in Nat /\ k \in Nat /\ n \in Nat
      BY <1>4
    <2>2. CASE k <= n
      <3>1. /\ j \in DOMAIN printed /\ printed'[j] = printed[j]
            /\ k \in DOMAIN printed /\ printed'[k] = printed[k]
        BY <1>5, <2>1, <2>2
      <3> QED
        BY <3>1 DEF InOrder
    <2>3. CASE k > n
      <3>1. /\ k - n \in DOMAIN answer /\ printed'[k] = answer[k - n].event
            /\ q = answer[k - n].seq /\ answer[k - n] \in RowType
            /\ q \in Nat /\ answer[k - n].event \in Events
        BY <1>5, <1>9, <2>1, <2>3
      <3>2. cursor # None /\ cursor \in Nat
        BY <3>1 DEF NoCursor, TypeOK
      <3>3. CASE j <= n
        <4>1. printed'[j] \in Range(printed) /\ printed'[j] \in Events
          BY <1>5, <1>6, <2>1, <3>3 DEF TypeOK
        <4>2. p <= cursor /\ p \in Nat
          BY <4>1, SeqsType DEF PrintedBelow
        <4>3. q > cursor
          BY <1>1, <3>1, <3>2 DEF GoodAnswer
        <4> QED
          BY <3>1, <3>2, <4>2, <4>3
      <3>4. CASE j > n
        <4>1. /\ j - n \in DOMAIN answer /\ answer[j - n] \in RowType
              /\ p = answer[j - n].seq
          BY <1>5, <1>9, <2>1, <3>4
        <4>2. Before(answer[j - n], answer[k - n])
          <5>1. j - n < k - n
            BY <2>1
          <5>2. \A a, b \in DOMAIN answer : a < b => Before(answer[a], answer[b])
            BY <1>1 DEF GoodAnswer
          <5> QED
            BY <3>1, <4>1, <5>1, <5>2
        <4> QED
          BY <3>1, <3>2, <4>1, <4>2, BeforeOrders
      <3> QED
        BY <2>1, <3>3, <3>4
    <2> QED
      BY <2>1, <2>2, <2>3
  <1> QED
    BY <1>8, <1>11, <1>12, <1>13, <1>14, <1>15, <1>16

\* ... and every step keeps what is printed in order.
LEMMA OrderStep == OrderInv /\ [Next]_vars => OrderInv'
  <1> SUFFICES ASSUME OrderInv, [Next]_vars  PROVE OrderInv'
    OBVIOUS
  <1>1. ASSUME NEW e \in Events, Record(e)  PROVE OrderInv'
    BY <1>1, OrderRecord
  <1>2. CASE Save \/ Clear \/ Restart \/ Ask \/ MaxSeq \/ UNCHANGED vars
    BY <1>2, OrderKept
  <1>3. CASE Select
    BY <1>3, OrderSelect
  <1>4. CASE Fetch
    BY <1>4, OrderFetch
  <1> QED
    BY <1>1, <1>2, <1>3, <1>4 DEF Next

-----------------------------------------------------------------------------
(* Tail: what is passed.                                                   *)

\* The writers: a new row comes above the cursor, and a reset is counted.
LEMMA PassedWriters ==
    ASSUME TailInv, (\E e \in Events : Record(e)) \/ Save \/ Clear \/ Restart
    PROVE  TableGrows' /\ NothingPassed'
  <1> USE DEF TailInv
  <1>1. /\ rows \in Seq(Events) /\ resets \in Nat /\ maxSeq \in Nat
        /\ cursor \in Nat \cup {-1} /\ Len(rows) \in Nat
    BY LenProperties DEF OrderInv, TypeOK, None
  <1>2. CASE \E e \in Events : Record(e)
    <2>1. PICK e \in Events : Record(e)
      BY <1>2
    <2>2. /\ rows' = Append(rows, e)
          /\ UNCHANGED <<maxSeq, first, cursor, printed, resets>>
          /\ \A f : f # e /\ f \in Events => born'[f] = born[f]
          /\ e \notin Range(rows)
      BY <2>1 DEF Record, Insert, request, OrderInv, TypeOK
    <2>3. /\ DOMAIN rows' = 1..(Len(rows) + 1) /\ DOMAIN rows = 1..Len(rows)
          /\ Len(rows') = Len(rows) + 1
          /\ \A i \in DOMAIN rows : rows'[i] = rows[i] /\ rows[i] \in Events
      BY <1>1, <2>2
    <2>4. TableGrows'
      BY <1>1, <2>2, <2>3 DEF TableGrows
    <2>5. NothingPassed'
      <3> SUFFICES ASSUME resets = 0, NEW i \in DOMAIN rows', i <= cursor,
                          born'[rows'[i]] = "after"
                   PROVE  rows'[i] \in Range(printed)
        BY <2>2 DEF NothingPassed
      <3>1. i \in DOMAIN rows
        BY <1>1, <2>3 DEF TableGrows
      <3>2. rows[i] # e /\ rows'[i] = rows[i] /\ born[rows[i]] = "after"
        BY <2>2, <2>3, <3>1 DEF Range
      <3> QED
        BY <3>1, <3>2 DEF NothingPassed
    <2> QED
      BY <2>4, <2>5
  <1>3. CASE Save
    <2>1. UNCHANGED <<rows, maxSeq, first, cursor, printed, born, resets>>
      BY <1>3 DEF Save, Commit, request, history
    <2> QED
      BY <2>1 DEF TableGrows, NothingPassed
  <1>4. CASE Clear \/ Restart
    <2>1. resets' # 0
      BY <1>1, <1>4 DEF Clear, Restart
    <2> QED
      BY <2>1 DEF TableGrows, NothingPassed
  <1> QED
    BY <1>2, <1>3, <1>4

\* Every row between the cursor and where it moves is in the answer.
LEMMA PassedFetch ==
    ASSUME TailInv, Fetch
    PROVE  TableGrows' /\ NothingPassed'
  <1> USE DEF TailInv
  <1>1. PICK answer :
            /\ GoodAnswer(answer)
            /\ printed' = printed \o [k \in DOMAIN answer |-> answer[k].event]
            /\ cursor' = Advance({r.seq : r \in Range(answer)})
            /\ first' = <<>>
            /\ UNCHANGED <<rows, saved, ts, maxSeq, born, resets>>
    BY FetchFacts
  <1>2. /\ cursor' \in Nat
        /\ \A k \in DOMAIN answer : answer[k].seq <= cursor'
        /\ cursor' \in {cursor, maxSeq, 0} \cup {answer[k].seq : k \in DOMAIN answer}
        /\ cursor # None => cursor' \in {cursor} \cup {answer[k].seq : k \in DOMAIN answer}
    BY <1>1, AdvanceFacts
  <1>3. answer \in Seq(RowType) /\ TypeOK
    BY <1>1 DEF GoodAnswer, OrderInv
  <1>4. \A e \in Range(printed) : e \in Range(printed')
    BY <1>1, <1>3, PrintedThen DEF Range
  <1>5. \A k \in DOMAIN answer : answer[k].event \in Range(printed')
    BY <1>1, <1>3, PrintedThen DEF Range
  <1>6. /\ rows \in Seq(Events) /\ DOMAIN rows = 1..Len(rows) /\ Len(rows) \in Nat
        /\ cursor \in Nat \cup {-1} /\ maxSeq \in Nat
    <2>1. rows \in Seq(Events)
      BY <1>3 DEF TypeOK
    <2>2. DOMAIN rows = 1..Len(rows) /\ Len(rows) \in Nat
      BY <2>1
    <2> QED
      BY <1>3, <2>1, <2>2 DEF TypeOK, None
  <1>7. ASSUME resets = 0, NEW k \in DOMAIN answer
        PROVE  answer[k].seq \in DOMAIN rows /\ rows[answer[k].seq] = answer[k].event
    <2>1. CASE answer[k] \in Range(first)
      BY <1>7, <2>1 DEF TableGrows
    <2>2. CASE answer[k] \in Found
      BY <1>3, <2>2, FoundRows
    <2> QED
      BY <1>1, <1>7, <2>1, <2>2 DEF GoodAnswer
  <1>8. TableGrows'
    <2> SUFFICES ASSUME resets = 0  PROVE cursor' <= Len(rows) /\ maxSeq <= Len(rows)
      <3>1. Range(first') = {}
        BY <1>1 DEF Range
      <3> QED
        BY <1>1, <3>1 DEF TableGrows
    <2>1. cursor <= Len(rows) /\ maxSeq <= Len(rows)
      BY DEF TableGrows
    <2>2. \A k \in DOMAIN answer : answer[k].seq <= Len(rows)
      BY <1>6, <1>7
    <2>3. 0 <= Len(rows)
      BY <1>6
    <2> QED
      BY <1>2, <2>1, <2>2, <2>3
  <1>9. NothingPassed'
    <2> SUFFICES ASSUME resets = 0, NEW i \in DOMAIN rows, i <= cursor',
                        born[rows[i]] = "after"
                 PROVE  rows[i] \in Range(printed')
      BY <1>1 DEF NothingPassed
    <2>1. i \in Nat /\ rows[i] \in Events
      BY <1>6
    <2>2. CASE i <= cursor
      BY <1>4, <2>2 DEF NothingPassed
    <2>3. CASE i > cursor
      <3>1. cursor # None
        BY <2>1 DEF NoCursor, OrderInv
      <3>2. Row(i) \in Found /\ Row(i).seq = i /\ Row(i).event = rows[i]
        <4>1. Row(i).seq = i /\ Row(i).event = rows[i]
          BY DEF Row
        <4>2. Wanted(Row(i))
          BY <2>3, <3>1, <4>1 DEF Wanted
        <4> QED
          BY <1>3, <4>1, <4>2, FoundRows
      <3>3. \/ Row(i) \in Range(answer)
            \/ \E q \in Range(first) : q.seq = i
            \/ \A k \in DOMAIN answer : answer[k].seq <= i
        BY <1>1, <3>1, <3>2 DEF GoodAnswer
      <3>4. CASE Row(i) \in Range(answer)
        BY <1>5, <3>2, <3>4 DEF Range
      <3>5. CASE \E q \in Range(first) : q.seq = i
        <4>1. PICK q \in Range(first) : q.seq = i
          BY <3>5
        <4>2. PICK k \in DOMAIN answer : answer[k] = q
          BY <1>1, <4>1 DEF GoodAnswer, Range
        <4> QED
          BY <1>5, <1>7, <4>1, <4>2
      <3>6. CASE \A k \in DOMAIN answer : answer[k].seq <= i
        <4>1. cursor' # cursor
          BY <1>2, <1>6, <2>1, <2>3
        <4>2. PICK k \in DOMAIN answer : cursor' = answer[k].seq
          BY <1>2, <3>1, <4>1
        <4>3. answer[k].seq = i
          BY <1>2, <2>1, <3>6, <4>2
        <4> QED
          BY <1>5, <1>7, <4>2, <4>3
      <3> QED
        BY <3>3, <3>4, <3>5, <3>6
    <2> QED
      BY <1>6, <2>1, <2>2, <2>3
  <1> QED
    BY <1>8, <1>9

\* A step of a poll that prints nothing passes nothing.
LEMMA PassedPoll ==
    ASSUME TailInv, Ask \/ MaxSeq \/ Select \/ UNCHANGED vars
    PROVE  TableGrows' /\ NothingPassed'
  <1> USE DEF TailInv
  <1>1. TypeOK /\ Len(rows) \in Nat
    BY LenProperties DEF OrderInv, TypeOK
  <1>2. UNCHANGED <<rows, cursor, printed, born, resets>>
    BY DEF Ask, MaxSeq, Select, vars, table, history
  <1>3. maxSeq' \in {maxSeq, Len(rows)}
    BY DEF Ask, MaxSeq, Select, vars, request
  <1>4. \/ first' = first
        \/ first' \in Pages(Found, 1)
    BY DEF Ask, MaxSeq, Select, vars, request
  <1>5. \A r \in Range(first') : r \in Range(first) \/ r \in Found
    <2>1. ASSUME first' \in Pages(Found, 1)
          PROVE  \A r \in Range(first') : r \in Found
      <3>1. PICK page \in Pages(Found, 1) : first' = page
        BY <2>1
      <3>2. \A k \in DOMAIN page : page[k] \in Found
        BY <1>1, PageFacts
      <3> QED
        BY <3>1, <3>2 DEF Range
    <2> QED
      BY <1>4, <2>1
  <1>6. TableGrows'
    BY <1>1, <1>2, <1>3, <1>5, FoundRows DEF TableGrows
  <1>7. NothingPassed'
    BY <1>2 DEF NothingPassed
  <1> QED
    BY <1>6, <1>7

-----------------------------------------------------------------------------
(* Tail: the theorems.                                                     *)

\* The invariant of the poll: what is printed and the first row of an answer under
\* way are tied to the seqs that the events have, and, as long as nothing was reset,
\* the cursor to the table.
THEOREM TailInvariant == Spec => []TailInv
  <1>1. Init => TailInv
    <2> SUFFICES ASSUME Init  PROVE TailInv
      OBVIOUS
    <2>1. rows = <<>> /\ cursor = -1 /\ maxSeq = 0 /\ first = <<>>
      BY DEF Init, InitTable, None
    <2>2. Len(rows) = 0 /\ DOMAIN rows = {} /\ Range(first) = {}
      BY <2>1 DEF Range
    <2>3. TableGrows /\ NothingPassed
      BY <2>1, <2>2 DEF TableGrows, NothingPassed
    <2> QED
      BY <2>3, OrderInit DEF TailInv
  <1>2. TailInv /\ [Next]_vars => TailInv'
    <2> SUFFICES ASSUME TailInv, [Next]_vars  PROVE TailInv'
      OBVIOUS
    <2>1. OrderInv'
      BY OrderStep DEF TailInv
    <2>2. TableGrows' /\ NothingPassed'
      BY PassedWriters, PassedFetch, PassedPoll DEF Next
    <2> QED
      BY <2>1, <2>2 DEF TailInv
  <1> QED
    BY <1>1, <1>2, PTL DEF Spec

\* No event is printed twice, through any clear or restart and however the rows are
\* numbered again; and the events recorded once the tail has a cursor are printed in
\* the order in which they were recorded.
THEOREM PrintedInOrderThm == Spec => []PrintedInOrder
  <1>1. TailInv => PrintedInOrder
    <2> SUFFICES ASSUME OrderInv  PROVE PrintedInOrder
      BY DEF TailInv
    <2>1. \A e : \A m \in DOMAIN rows : rows[m] = e => m \in Seqs(e)
      BY DEF Seqs
    <2> QED
      BY <2>1 DEF OrderInv, InOrder, PrintedInOrder
  <1> QED
    BY <1>1, TailInvariant, PTL

\* As long as nothing is reset the cursor passes no event recorded after it that was
\* not printed, whatever the limit of an answer.
THEOREM NothingPassedThm == Spec => []NothingPassed
  <1>1. TailInv => NothingPassed
    BY DEF TailInv
  <1> QED
    BY <1>1, TailInvariant, PTL

-----------------------------------------------------------------------------
(* Lifecycle: what its variables hold.                                     *)

States == {"none", "forked", "starting", "serving", "stopping", "gone"}
CliPlaces == {"idle", "start", "started", "wait", "pid", "escalate", "clear"}

LifecycleTypes ==
    /\ proc \in [Procs -> States]
    /\ told \subseteq Procs
    /\ socket \in Procs \cup {NoProc}
    /\ pidFile \in Procs \cup {NoProc}
    /\ cli \in [Clis -> CliPlaces]
    /\ target \in [Clis -> Procs \cup {NoProc}]
    /\ asked \in [Clis -> BOOLEAN]
    /\ signals \in Nat
    /\ \A c \in Clis : cli[c] \in {"started", "escalate"} => target[c] \in Procs

\* One command runs at a time: the commands of two terminals can overlap, and
\* then two starts may both find no socket.
OneTerminal == \A c, d \in Clis : c = d

\* Nobody but the commands stopped p, and its socket file outlives the server that
\* bound it: it tells the next command of a daemon that flushes.
Undisturbed(p) == signals = 0 /\ p \notin Unlinking

Stopping == {"wait", "pid", "escalate", "clear"}

\* A process that is being started belongs to a start command that still waits
\* for it, and nothing else has a socket.
StartsAlone ==
    /\ \A p \in Procs : proc[p] \in {"forked", "starting"} =>
           /\ socket = NoProc
           /\ \E c \in Clis : cli[c] = "started" /\ target[c] = p
    /\ \A p \in Procs : proc[p] = "starting" => pidFile = p
    /\ \A c \in Clis : cli[c] = "start" => socket = NoProc

\* A daemon that flushes still has its files, and the stop command that made it
\* flush has not ended.
FlushesUnderStop ==
    \A p \in Procs : proc[p] = "stopping" /\ Undisturbed(p) =>
        /\ socket = p /\ pidFile = p
        /\ \E c \in Clis : cli[c] \in Stopping

\* What a stop command has achieved by the time it gets to each of its places.
StopAchieves ==
    \A c \in Clis :
        /\ cli[c] \notin {"started", "escalate", "clear"} => target[c] = NoProc
        /\ cli[c] = "clear" => ~Alive(target[c])
        /\ cli[c] \in {"escalate", "clear"} => \A p \in Procs : proc[p] # "serving"
        /\ cli[c] = "escalate" => \A p \in Procs : Alive(p) /\ Undisturbed(p) => p = target[c]
        /\ cli[c] = "clear" => \A p \in Procs : Alive(p) => ~Undisturbed(p)

\* A command to stop that is not read yet is of a stop that has not ended.
ToldWhileStopping ==
    \A p \in told : /\ proc[p] \in {"serving", "stopping", "gone"}
                    /\ proc[p] = "serving" => \E c \in Clis : cli[c] \in {"wait", "pid"}

Inv == /\ LifecycleTypes
       /\ Reachable
       /\ StartsAlone
       /\ FlushesUnderStop
       /\ StopAchieves
       /\ ToldWhileStopping

-----------------------------------------------------------------------------
(* Lifecycle: types.                                                       *)

\* Every variable keeps its type, and a start or a stop command that waits for a
\* process knows which one: whatever the terminals, the signals and the waits.
THEOREM LifecycleTypeOK == SpecLifecycle => []LifecycleTypes
<1>1. InitLifecycle => LifecycleTypes
  BY DEF InitLifecycle, LifecycleTypes, States, CliPlaces
<1>2. LifecycleTypes /\ [NextLifecycle]_lifecycle => LifecycleTypes'
  <2> SUFFICES ASSUME LifecycleTypes, [NextLifecycle]_lifecycle  PROVE  LifecycleTypes'
    OBVIOUS
  <2> USE DEF LifecycleTypes, States, CliPlaces, Becomes, Goes, files, command
  <2>1. ASSUME NEW p \in Procs, WritesPid(p)  PROVE  LifecycleTypes'
    BY <2>1 DEF WritesPid
  <2>2. ASSUME NEW p \in Procs, Binds(p)  PROVE  LifecycleTypes'
    BY <2>2 DEF Binds
  <2>3. ASSUME NEW p \in Procs, ReadsStop(p)  PROVE  LifecycleTypes'
    BY <2>3 DEF ReadsStop, Stops
  <2>4. ASSUME NEW p \in Procs, Ends(p)  PROVE  LifecycleTypes'
    BY <2>4 DEF Ends
  <2>5. ASSUME NEW p \in Procs, SignalledElsewhere(p)  PROVE  LifecycleTypes'
    BY <2>5 DEF SignalledElsewhere, Terminated, Stops
  <2>6. ASSUME NEW c \in Clis, StartChecks(c)  PROVE  LifecycleTypes'
    BY <2>6 DEF StartChecks
  <2>7. ASSUME NEW c \in Clis, Started(c)  PROVE  LifecycleTypes'
    BY <2>7 DEF Started
  <2>8. ASSUME NEW c \in Clis, StopAsks(c)  PROVE  LifecycleTypes'
    BY <2>8 DEF StopAsks, Listening
  <2>9. ASSUME NEW c \in Clis, StopWaits(c)  PROVE  LifecycleTypes'
    BY <2>9 DEF StopWaits
  <2>10. ASSUME NEW c \in Clis, StopSignals(c)  PROVE  LifecycleTypes'
    BY <2>10 DEF StopSignals, Alive, Terminated, Stops
  <2>11. ASSUME NEW c \in Clis, StopEscalates(c)  PROVE  LifecycleTypes'
    BY <2>11 DEF StopEscalates
  <2>12. ASSUME NEW c \in Clis, StopClears(c)  PROVE  LifecycleTypes'
    BY <2>12 DEF StopClears
  <2>13. ASSUME NEW c \in Clis, Send(c)  PROVE  LifecycleTypes'
    BY <2>13 DEF Send
  <2>14. ASSUME NEW c \in Clis, NEW p \in Procs, Fork(c, p)  PROVE  LifecycleTypes'
    BY <2>14 DEF Fork
  <2>15. CASE UNCHANGED lifecycle
    BY <2>15 DEF lifecycle, files, command
  <2>16. QED  BY <2>1, <2>2, <2>3, <2>4, <2>5, <2>6, <2>7, <2>8, <2>9, <2>10, <2>11, <2>12, <2>13, <2>14, <2>15 DEF NextLifecycle
<1>3. QED  BY <1>1, <1>2, PTL DEF SpecLifecycle

-----------------------------------------------------------------------------
(* Lifecycle: the inductive invariant.                                     *)

\* InitLifecycle establishes the invariant.
LEMMA InvInit == InitLifecycle => Inv
BY NoProcAssumption DEF InitLifecycle, Inv, LifecycleTypes, States, CliPlaces, Reachable, StartsAlone,
   FlushesUnderStop, StopAchieves, ToldWhileStopping, Alive

\* Every step of a user with one terminal keeps it.
LEMMA InvStep ==
    ASSUME OneTerminal, ~SlowStart, Inv, LifecycleTypes', [NextLifecycle]_lifecycle
    PROVE  Inv'
<1> USE NoProcAssumption DEF OneTerminal, Inv, LifecycleTypes, Reachable, StartsAlone,
        FlushesUnderStop, StopAchieves, ToldWhileStopping, Undisturbed, Stopping,
        Becomes, Goes, Alive, Listening, States, CliPlaces, files, command
<1>1. ASSUME NEW p \in Procs, WritesPid(p)  PROVE  Inv'
  BY <1>1 DEF WritesPid
<1>2. ASSUME NEW p \in Procs, Binds(p)  PROVE  Inv'
  BY <1>2 DEF Binds
<1>3. ASSUME NEW p \in Procs, ReadsStop(p)  PROVE  Inv'
  BY <1>3 DEF ReadsStop, Stops
<1>4. ASSUME NEW p \in Procs, Ends(p)  PROVE  Inv'
  BY <1>4 DEF Ends
<1>5. ASSUME NEW p \in Procs, SignalledElsewhere(p)  PROVE  Inv'
  BY <1>5 DEF SignalledElsewhere, Terminated, Stops
<1>6. ASSUME NEW c \in Clis, StartChecks(c)  PROVE  Inv'
  BY <1>6 DEF StartChecks
<1>7. ASSUME NEW c \in Clis, Started(c)  PROVE  Inv'
  BY <1>7 DEF Started
<1>8. ASSUME NEW c \in Clis, StopAsks(c)  PROVE  Inv'
  BY <1>8 DEF StopAsks
<1>9. ASSUME NEW c \in Clis, StopWaits(c)  PROVE  Inv'
  BY <1>9 DEF StopWaits
<1>10. ASSUME NEW c \in Clis, StopSignals(c)  PROVE  Inv'
  BY <1>10 DEF StopSignals, Terminated, Stops
<1>11. ASSUME NEW c \in Clis, StopEscalates(c)  PROVE  Inv'
  BY <1>11 DEF StopEscalates
<1>12. ASSUME NEW c \in Clis, StopClears(c)  PROVE  Inv'
  BY <1>12 DEF StopClears
<1>13. ASSUME NEW c \in Clis, Send(c)  PROVE  Inv'
  BY <1>13 DEF Send
<1>14. ASSUME NEW c \in Clis, NEW p \in Procs, Fork(c, p)  PROVE  Inv'
  BY <1>14 DEF Fork
<1>15. CASE UNCHANGED lifecycle
  BY <1>15 DEF lifecycle, files, command
<1>16. QED  BY <1>1, <1>2, <1>3, <1>4, <1>5, <1>6, <1>7, <1>8, <1>9, <1>10, <1>11, <1>12, <1>13, <1>14, <1>15 DEF NextLifecycle

\* The invariant holds throughout.
LEMMA LifecycleInv ==
    ASSUME OneTerminal, ~SlowStart  PROVE  SpecLifecycle => []Inv
<1>1. Inv /\ LifecycleTypes' /\ [NextLifecycle]_lifecycle => Inv'
  BY InvStep
<1>2. QED  BY <1>1, InvInit, LifecycleTypeOK, PTL DEF SpecLifecycle

-----------------------------------------------------------------------------
(* Lifecycle: the properties.                                              *)

\* A daemon that serves keeps its socket and its pid file, through every crash,
\* signal and command of one terminal, if no start outlasts the wait of its
\* parent: also where asyncio removes the socket of a server it closes.
THEOREM ReachableThm ==
    ASSUME OneTerminal, ~SlowStart  PROVE  SpecLifecycle => []Reachable
<1>1. Inv => Reachable
  BY DEF Inv
<1>2. QED  BY <1>1, LifecycleInv, PTL

\* Of two processes that have the store open one flushes and is hidden from the
\* commands, by a signal from elsewhere or as its server removed its socket.
THEOREM OneStoreThm ==
    ASSUME OneTerminal, ~SlowStart  PROVE  SpecLifecycle => []OneStore
<1>1. ASSUME Inv, NEW p \in Procs, HasStore(p), ~Hidden(p)
      PROVE  pidFile = p
  <2>1. CASE proc[p] = "stopping"
    <3>1. Undisturbed(p)
      BY <1>1, <2>1 DEF Hidden, Undisturbed, Inv, LifecycleTypes
    <3>2. QED  BY <1>1, <2>1, <3>1 DEF Inv, FlushesUnderStop
  <2>2. CASE proc[p] \in {"starting", "serving"}
    BY <1>1, <2>2 DEF Inv, Reachable, StartsAlone
  <2>3. QED  BY <1>1, <2>1, <2>2 DEF HasStore
<1>2. Inv => OneStore
  BY <1>1 DEF OneStore
<1>3. QED  BY <1>2, LifecycleInv, PTL

\* When a stop command ends, the process it signalled is gone, no daemon serves,
\* one that flushes is one that the files no longer led to, and the next start
\* finds no files: whether or not a closing server removes its socket.
THEOREM StopLeavesNothingThm ==
    ASSUME OneTerminal, ~SlowStart  PROVE  SpecLifecycle => StopLeavesNothing
<1> DEFINE Left == \A c \in Clis : cli[c] = "clear" /\ cli'[c] = "idle" =>
                      /\ ~Alive(target[c])
                      /\ \A p \in Procs : Alive(p) => Hidden(p)
                      /\ socket' = NoProc /\ pidFile' = NoProc
<1>1. ASSUME Inv, [NextLifecycle]_lifecycle, NEW c \in Clis, cli[c] = "clear", cli'[c] = "idle"
      PROVE  socket' = NoProc /\ pidFile' = NoProc
  BY <1>1 DEF OneTerminal, Inv, LifecycleTypes, CliPlaces, NextLifecycle, lifecycle, files, command, Becomes, Goes,
     WritesPid, Binds, ReadsStop, Ends, SignalledElsewhere, StartChecks, Started, Fork,
     StopAsks, StopWaits, StopSignals, StopEscalates, StopClears, Send
<1>2. ASSUME Inv, NEW c \in Clis, cli[c] = "clear", NEW p \in Procs, Alive(p)
      PROVE  Hidden(p)
  <2>1. proc[p] # "serving"
    BY <1>2 DEF Inv, StopAchieves
  <2>2. proc[p] \notin {"forked", "starting"}
    BY <1>2 DEF Inv, StartsAlone, OneTerminal
  <2>3. proc[p] = "stopping"
    BY <1>2, <2>1, <2>2 DEF Inv, LifecycleTypes, States, Alive
  <2>4. signals > 0 \/ p \in Unlinking
    BY <1>2 DEF Inv, StopAchieves, Undisturbed, LifecycleTypes
  <2>5. QED  BY <2>3, <2>4 DEF Hidden
<1>3. Inv /\ [NextLifecycle]_lifecycle => [Left]_lifecycle
  <2>1. ASSUME Inv, NEW c \in Clis, cli[c] = "clear"  PROVE  ~Alive(target[c])
    BY <2>1 DEF Inv, StopAchieves
  <2>2. QED  BY <1>1, <1>2, <2>1
<1>4. QED  BY <1>3, LifecycleInv, PTL DEF StopLeavesNothing, SpecLifecycle

=============================================================================
