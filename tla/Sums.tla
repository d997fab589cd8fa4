-------------------------------- MODULE Sums --------------------------------
(***************************************************************************)
(* SumFunctionOnSet of the community modules, for every function and every *)
(* finite set.  The recursion is over the subsets of the set; that it      *)
(* defines a function, and what it computes, is proved by least            *)
(* counterexamples.                                                        *)
(***************************************************************************)
EXTENDS Integers, SequencesExt, FiniteSetsExt, FiniteSetTheorems, WellFoundedInduction, TLAPS

\* A set of numbers has a least element, and a set of subsets of a finite set one
\* that has no element less in the set.
LEMMA LeastNumber ==
    ASSUME NEW T \in SUBSET Nat, T # {}
    PROVE  \E m \in T : \A k \in T : m <= k
  <1> DEFINE R == {p \in Nat \X Nat : p[1] < p[2]}
  <1>1. IsWellFoundedOn(OpToRel(<, Nat), Nat)
    BY NatLessThanWellFounded
  <1>2. OpToRel(<, Nat) = R
    BY DEF OpToRel
  <1>3. PICK m \in T : \A k \in T : <<k, m>> \notin R
    <2> HIDE DEF R
    <2> QED
      BY <1>1, <1>2, WFMin
  <1>4. \A k \in T : <<k, m>> \in R <=> k < m
    OBVIOUS
  <1>5. \A k \in T : m <= k
    <2> HIDE DEF R
    <2>1. \A k \in T : ~(k < m) /\ k \in Nat /\ m \in Nat
      BY <1>3, <1>4
    <2> QED
      BY <2>1
  <1> QED
    BY <1>5

\* A family of subsets of a finite set has one from which nothing can be taken.
LEMMA LeastSet ==
    ASSUME NEW S, IsFiniteSet(S), NEW B \in SUBSET SUBSET S, B # {}
    PROVE  \E s \in B : \A x \in s : s \ {x} \notin B
  <1> DEFINE T == {Cardinality(s) : s \in B}
  <1>1. \A s \in B : IsFiniteSet(s) /\ Cardinality(s) \in Nat
    BY FS_Subset, FS_CardinalityType
  <1>2. \A s \in B : \A x \in s : Cardinality(s \ {x}) = Cardinality(s) - 1
    BY <1>1, FS_RemoveElement
  <1>3. T \in SUBSET Nat /\ T # {}
    BY <1>1
  <1>4. PICK m \in T : \A k \in T : m <= k
    <2> HIDE DEF T
    <2> QED
      BY <1>3, LeastNumber
  <1>5. PICK s \in B : Cardinality(s) = m
    BY <1>4
  <1>6. \A x \in s : s \ {x} \notin B
    <2> SUFFICES ASSUME NEW x \in s, s \ {x} \in B  PROVE FALSE
      OBVIOUS
    <2>1. Cardinality(s \ {x}) \in T
      OBVIOUS
    <2>2. m <= m - 1 /\ m \in Nat
      <3> HIDE DEF T
      <3> QED
        BY <1>1, <1>2, <1>4, <1>5, <2>1
    <2> QED
      BY <2>2
  <1> QED
    BY <1>6

\* One step of a sum.
Step(f, g, s) == IF s = {} THEN 0 ELSE LET x == CHOOSE x \in s : TRUE IN f[x] + g[s \ {x}]

IsSum(f, g, S) == g = [s \in SUBSET S |-> Step(f, g, s)]

\* A function of the subsets of a finite set that sums over each of them exists, ...
LEMMA SumExists ==
    ASSUME NEW S, IsFiniteSet(S), NEW f
    PROVE  \E g : IsSum(f, g, S)
  <1> DEFINE Upto(g, n) == /\ g = [s \in SUBSET S |-> g[s]]
                           /\ \A s \in SUBSET S : Cardinality(s) <= n => g[s] = Step(f, g, s)
             T == {n \in Nat : ~ \E g : Upto(g, n)}
  <1>1. \A s \in SUBSET S : IsFiniteSet(s) /\ Cardinality(s) \in Nat
    BY FS_Subset, FS_CardinalityType
  <1>2. ASSUME T # {}  PROVE FALSE
    <2>1. PICK m \in T : \A k \in T : m <= k
      <3>1. T \in SUBSET Nat
        OBVIOUS
      <3> HIDE DEF T
      <3> QED
        BY <1>2, <3>1, LeastNumber
    <2>2. m \in Nat
      OBVIOUS
    <2>3. CASE m = 0
      <3> DEFINE g == [s \in SUBSET S |-> 0]
      <3>1. \A s \in SUBSET S : Cardinality(s) <= 0 => s = {}
        BY <1>1, FS_EmptySet
      <3>2. \A s \in SUBSET S : Cardinality(s) <= 0 => g[s] = Step(f, g, s)
        BY <3>1 DEF Step
      <3>3. Upto(g, 0)
        BY <3>2
      <3> QED
        BY <2>3, <3>3
    <2>4. CASE m # 0
      <3>1. m - 1 \in Nat /\ m - 1 \notin T
        <4>1. m - 1 \in Nat /\ ~(m <= m - 1)
          BY <2>2, <2>4
        <4> HIDE DEF T
        <4> QED
          BY <2>1, <4>1
      <3>2. PICK g : Upto(g, m - 1)
        BY <3>1
      <3> DEFINE h == [s \in SUBSET S |-> IF Cardinality(s) <= m THEN Step(f, g, s) ELSE 0]
      <3>3. ASSUME NEW s \in SUBSET S, Cardinality(s) <= m
            PROVE  h[s] = Step(f, h, s)
        <4>1. CASE s = {}
          BY <3>3, <4>1 DEF Step
        <4>2. CASE s # {}
          <5>1. PICK x \in s : x = CHOOSE y \in s : TRUE
            BY <4>2
          <5>2. s \ {x} \in SUBSET S /\ Cardinality(s \ {x}) = Cardinality(s) - 1
            BY <1>1, FS_RemoveElement
          <5>3. Cardinality(s \ {x}) <= m - 1 /\ Cardinality(s \ {x}) <= m
            BY <1>1, <2>2, <3>3, <5>2
          <5>4. g[s \ {x}] = Step(f, g, s \ {x})
            BY <3>2, <5>2, <5>3
          <5>5. h[s \ {x}] = Step(f, g, s \ {x})
            BY <5>2, <5>3
          <5>6. h[s] = Step(f, g, s)
            BY <3>3
          <5> HIDE DEF h
          <5>7. Step(f, g, s) = f[x] + g[s \ {x}] /\ Step(f, h, s) = f[x] + h[s \ {x}]
            BY <4>2, <5>1 DEF Step
          <5> QED
            BY <5>4, <5>5, <5>6, <5>7
        <4> QED
          BY <4>1, <4>2
      <3>4. Upto(h, m)
        BY <3>3
      <3>5. m \notin T
        BY <3>4
      <3> QED
        BY <3>5
    <2> QED
      BY <2>3, <2>4
  <1>3. Cardinality(S) \in Nat /\ \A s \in SUBSET S : Cardinality(s) <= Cardinality(S)
    BY FS_CardinalityType, FS_Subset
  <1>4. PICK g : Upto(g, Cardinality(S))
    BY <1>2, <1>3
  <1>5. g = [s \in SUBSET S |-> g[s]] /\ \A s \in SUBSET S : g[s] = Step(f, g, s)
    BY <1>3, <1>4
  <1>6. g = [s \in SUBSET S |-> Step(f, g, s)]
    BY <1>5
  <1> QED
    BY <1>6 DEF IsSum

\* ... and it is the only one, so that its value is the sum of the library.
LEMMA SumIs ==
    ASSUME NEW S, IsFiniteSet(S), NEW f, NEW g, IsSum(f, g, S)
    PROVE  SumFunctionOnSet(f, S) = g[S]
  <1>1. ASSUME NEW h, IsSum(f, h, S)  PROVE h = g
    <2> DEFINE B == {s \in SUBSET S : h[s] # g[s]}
    <2>1. ASSUME B # {}  PROVE FALSE
      <3>1. PICK s \in B : \A x \in s : s \ {x} \notin B
        <4>1. B \in SUBSET SUBSET S
          OBVIOUS
        <4> HIDE DEF B
        <4> QED
          BY <2>1, <4>1, LeastSet
      <3>2. h[s] = Step(f, h, s) /\ g[s] = Step(f, g, s)
        BY <1>1 DEF IsSum
      <3>3. s # {}
        BY <3>2 DEF Step
      <3>4. PICK x \in s : x = CHOOSE y \in s : TRUE
        BY <3>3
      <3>5. h[s \ {x}] = g[s \ {x}]
        BY <3>1
      <3>6. Step(f, h, s) = f[x] + h[s \ {x}] /\ Step(f, g, s) = f[x] + g[s \ {x}]
        BY <3>3, <3>4 DEF Step
      <3>7. h[s] = g[s]
        BY <3>2, <3>5, <3>6
      <3> QED
        BY <3>7
    <2>2. \A s \in SUBSET S : h[s] = g[s]
      BY <2>1
    <2>3. h = [s \in SUBSET S |-> h[s]] /\ g = [s \in SUBSET S |-> g[s]]
      BY <1>1 DEF IsSum
    <2> QED
      BY <2>2, <2>3
  <1>2. \A h : h = [s \in SUBSET S |-> IF s = {} THEN 0 ELSE LET x == CHOOSE x \in s : TRUE IN f[x] + h[s \ {x}]] <=> h = g
    BY <1>1 DEF IsSum, Step
  <1> QED
    BY <1>2 DEF SumFunctionOnSet, FoldFunctionOnSet, MapThenFoldSet

\* The sum over a part of the set.
LEMMA SumOfPart ==
    ASSUME NEW S, IsFiniteSet(S), NEW f, NEW g, IsSum(f, g, S), NEW P \in SUBSET S
    PROVE  SumFunctionOnSet(f, P) = g[P]
  <1> DEFINE h == [s \in SUBSET P |-> g[s]]
  <1>1. \A s \in SUBSET P : s \in SUBSET S /\ h[s] = g[s] /\ g[s] = Step(f, g, s)
    BY DEF IsSum
  <1>2. \A s \in SUBSET P : Step(f, g, s) = Step(f, h, s)
    <2> SUFFICES ASSUME NEW s \in SUBSET P, s # {}  PROVE Step(f, g, s) = Step(f, h, s)
      BY DEF Step
    <2>1. PICK x \in s : x = CHOOSE y \in s : TRUE
      OBVIOUS
    <2>2. h[s \ {x}] = g[s \ {x}]
      BY <1>1
    <2> HIDE DEF h
    <2>3. Step(f, h, s) = f[x] + h[s \ {x}] /\ Step(f, g, s) = f[x] + g[s \ {x}]
      BY <2>1 DEF Step
    <2> QED
      BY <2>2, <2>3
  <1>3. IsSum(f, h, P)
    <2>1. h = [s \in SUBSET P |-> h[s]]
      OBVIOUS
    <2>2. \A s \in SUBSET P : h[s] = Step(f, h, s)
      BY <1>1, <1>2
    <2> HIDE DEF h
    <2>3. [s \in SUBSET P |-> h[s]] = [s \in SUBSET P |-> Step(f, h, s)]
      BY <2>2
    <2> QED
      BY <2>1, <2>3 DEF IsSum
  <1>4. SumFunctionOnSet(f, P) = h[P]
    <2> HIDE DEF h
    <2>1. IsFiniteSet(P)
      BY FS_Subset
    <2> QED
      BY <1>3, <2>1, SumIs
  <1> QED
    BY <1>4

\* Nothing adds up to 0.
LEMMA SumEmpty == ASSUME NEW f PROVE SumFunctionOnSet(f, {}) = 0
  <1>1. IsFiniteSet({})
    BY FS_EmptySet
  <1>2. PICK g : IsSum(f, g, {})
    BY <1>1, SumExists
  <1>3. g[{}] = 0
    BY <1>2 DEF IsSum, Step
  <1> QED
    BY <1>1, <1>2, <1>3, SumIs

\* A sum of integers is one, and a sum of natural numbers too.
LEMMA SumIn ==
    ASSUME NEW R, R = Nat \/ R = Int, NEW S, IsFiniteSet(S), NEW f, \A x \in S : f[x] \in R
    PROVE  SumFunctionOnSet(f, S) \in R
  <1>1. PICK g : IsSum(f, g, S)
    BY SumExists
  <1> DEFINE B == {s \in SUBSET S : g[s] \notin R}
  <1>2. ASSUME B # {}  PROVE FALSE
    <2>1. PICK s \in B : \A x \in s : s \ {x} \notin B
      <3>1. B \in SUBSET SUBSET S
        OBVIOUS
      <3> HIDE DEF B
      <3> QED
        BY <1>2, <3>1, LeastSet
    <2>2. g[s] = Step(f, g, s)
      BY <1>1 DEF IsSum
    <2>3. s # {}
      BY <2>2 DEF Step
    <2>4. PICK x \in s : x = CHOOSE y \in s : TRUE
      BY <2>3
    <2>5. Step(f, g, s) = f[x] + g[s \ {x}]
      BY <2>3, <2>4 DEF Step
    <2>6. f[x] \in R /\ g[s \ {x}] \in R
      BY <2>1
    <2>7. g[s] \in R
      <3>1. PICK p, q : p = f[x] /\ q = g[s \ {x}]
        OBVIOUS
      <3>2. p + q \in R
        BY <2>6, <3>1
      <3> QED
        BY <2>2, <2>5, <3>1, <3>2
    <2> QED
      BY <2>7
  <1>3. g[S] \in R
    BY <1>2
  <1> QED
    BY <1>1, <1>3, SumIs

\* The sum of natural numbers is one, ...
LEMMA SumType ==
    ASSUME NEW S, IsFiniteSet(S), NEW f, \A x \in S : f[x] \in Nat
    PROVE  SumFunctionOnSet(f, S) \in Nat
  <1>1. PICK R : R = Nat
    OBVIOUS
  <1>2. SumFunctionOnSet(f, S) \in R
    BY <1>1, SumIn
  <1> QED
    BY <1>1, <1>2

\* ... and that of integers an integer.
LEMMA SumInt ==
    ASSUME NEW S, IsFiniteSet(S), NEW f, \A x \in S : f[x] \in Int
    PROVE  SumFunctionOnSet(f, S) \in Int
  <1>1. PICK R : R = Int
    OBVIOUS
  <1>2. SumFunctionOnSet(f, S) \in R
    BY <1>1, SumIn
  <1> QED
    BY <1>1, <1>2

\* Any element may be taken out first.
LEMMA SumTake ==
    ASSUME NEW S, IsFiniteSet(S), NEW f, \A x \in S : f[x] \in Int, NEW a \in S
    PROVE  SumFunctionOnSet(f, S) = f[a] + SumFunctionOnSet(f, S \ {a})
  <1>1. PICK g : IsSum(f, g, S)
    BY SumExists
  <1>2. \A s \in SUBSET S : g[s] \in Int
    <2> SUFFICES ASSUME NEW s \in SUBSET S  PROVE g[s] \in Int
      OBVIOUS
    <2>1. IsFiniteSet(s) /\ \A x \in s : f[x] \in Int
      BY FS_Subset
    <2>2. SumFunctionOnSet(f, s) \in Int
      BY <2>1, SumInt
    <2> QED
      BY <1>1, <2>2, SumOfPart
  <1> DEFINE B == {s \in SUBSET S : \E x \in s : g[s] # f[x] + g[s \ {x}]}
  <1>3. ASSUME B # {}  PROVE FALSE
    <2>1. PICK s \in B : \A x \in s : s \ {x} \notin B
      <3>1. B \in SUBSET SUBSET S
        OBVIOUS
      <3> HIDE DEF B
      <3> QED
        BY <1>3, <3>1, LeastSet
    <2>2. PICK x \in s : g[s] # f[x] + g[s \ {x}]
      BY <2>1
    <2>3. PICK c \in s : c = CHOOSE y \in s : TRUE
      BY <2>2
    <2>4. g[s] = f[c] + g[s \ {c}]
      <3>1. g[s] = Step(f, g, s)
        BY <1>1 DEF IsSum
      <3> QED
        BY <2>2, <2>3, <3>1 DEF Step
    <2>5. x # c
      BY <2>2, <2>4
    <2>6. g[s \ {c}] = f[x] + g[(s \ {c}) \ {x}]
      <3>1. s \ {c} \notin B /\ s \ {c} \in SUBSET S /\ x \in s \ {c}
        BY <2>1, <2>5
      <3> QED
        BY <3>1
    <2>7. g[s \ {x}] = f[c] + g[(s \ {x}) \ {c}]
      <3>1. s \ {x} \notin B /\ s \ {x} \in SUBSET S /\ c \in s \ {x}
        BY <2>1, <2>5
      <3> QED
        BY <3>1
    <2>8. (s \ {c}) \ {x} = (s \ {x}) \ {c} /\ (s \ {x}) \ {c} \in SUBSET S
      OBVIOUS
    <2>9. g[(s \ {x}) \ {c}] \in Int /\ f[x] \in Int /\ f[c] \in Int
      BY <1>2, <2>8
    <2>10. \A i, j, k \in Int : i + (j + k) = j + (i + k)
      BY ONLY SMT
    <2> HIDE DEF B
    <2>11. PICK p : p = g[(s \ {x}) \ {c}]
      OBVIOUS
    <2>12. f[x] + (f[c] + p) = f[c] + (f[x] + p)
      BY ONLY <2>9, <2>10, <2>11, Zenon
    <2>13. f[x] + g[s \ {x}] = f[x] + (f[c] + p)
      BY ONLY <2>7, <2>11, Zenon
    <2>14. f[c] + g[s \ {c}] = f[c] + (f[x] + p)
      BY ONLY <2>6, <2>8, <2>11, Zenon
    <2> QED
      BY ONLY <2>2, <2>4, <2>12, <2>13, <2>14, Zenon
  <1>4. g[S] = f[a] + g[S \ {a}]
    BY <1>3
  <1> QED
    BY <1>1, <1>4, SumOfPart, SumIs

\* A sum is of what the function gives for the set.
LEMMA SumSame ==
    ASSUME NEW S, IsFiniteSet(S), NEW f, NEW h, \A x \in S : f[x] = h[x]
    PROVE  SumFunctionOnSet(f, S) = SumFunctionOnSet(h, S)
  <1>1. PICK g : IsSum(f, g, S)
    BY SumExists
  <1>2. \A s \in SUBSET S : Step(f, g, s) = Step(h, g, s)
    <2> SUFFICES ASSUME NEW s \in SUBSET S, s # {}  PROVE Step(f, g, s) = Step(h, g, s)
      BY DEF Step
    <2>1. PICK x \in s : x = CHOOSE y \in s : TRUE
      OBVIOUS
    <2>2. Step(f, g, s) = f[x] + g[s \ {x}] /\ Step(h, g, s) = h[x] + g[s \ {x}]
      BY <2>1 DEF Step
    <2> QED
      BY <2>2
  <1>3. IsSum(h, g, S)
    <2>1. [s \in SUBSET S |-> Step(f, g, s)] = [s \in SUBSET S |-> Step(h, g, s)]
      BY <1>2
    <2> QED
      BY <1>1, <2>1 DEF IsSum
  <1> QED
    BY <1>1, <1>3, SumIs

\* One element more, or as many as another set has.
LEMMA SumAdd ==
    ASSUME NEW S, IsFiniteSet(S), NEW a, a \notin S, NEW f, \A x \in S \cup {a} : f[x] \in Int
    PROVE  SumFunctionOnSet(f, S \cup {a}) = SumFunctionOnSet(f, S) + f[a]
  <1>1. IsFiniteSet(S \cup {a}) /\ (S \cup {a}) \ {a} = S
    BY FS_AddElement
  <1>2. SumFunctionOnSet(f, S \cup {a}) = f[a] + SumFunctionOnSet(f, S)
    BY <1>1, SumTake
  <1>3. f[a] \in Int /\ SumFunctionOnSet(f, S) \in Int
    BY SumInt
  <1> QED
    BY <1>2, <1>3

\* The sum of one number is that number.
LEMMA SumOne ==
    ASSUME NEW f, NEW a, f[a] \in Int
    PROVE  SumFunctionOnSet(f, {a}) = f[a]
  <1>1. PICK Z : Z = {}
    OBVIOUS
  <1>2. IsFiniteSet(Z) /\ a \notin Z /\ \A x \in Z \cup {a} : f[x] \in Int
    BY <1>1, FS_EmptySet
  <1>3. SumFunctionOnSet(f, Z \cup {a}) = SumFunctionOnSet(f, Z) + f[a]
    BY ONLY <1>2, SumAdd
  <1>4. SumFunctionOnSet(f, Z) = 0
    BY <1>1, SumEmpty
  <1>5. Z \cup {a} = {a} /\ 0 + f[a] = f[a]
    BY <1>1
  <1> QED
    BY ONLY <1>3, <1>4, <1>5, Zenon

\* A sum over a set and the images of another.
LEMMA SumJoin ==
    ASSUME NEW S, IsFiniteSet(S), NEW T, IsFiniteSet(T), NEW b, NEW f, NEW h,
           \A x \in S : f[x] \in Nat,
           \A y \in T : b[y] \notin S /\ f[b[y]] = h[y] /\ h[y] \in Nat,
           \A y, z \in T : b[y] = b[z] => y = z
    PROVE  SumFunctionOnSet(f, S \cup {b[y] : y \in T})
               = SumFunctionOnSet(f, S) + SumFunctionOnSet(h, T)
  <1> DEFINE im == [u \in SUBSET T |-> {b[y] : y \in u}]
             B == {u \in SUBSET T :
                      SumFunctionOnSet(f, S \cup im[u])
                          # SumFunctionOnSet(f, S) + SumFunctionOnSet(h, u)}
  <1>1. ASSUME B # {}  PROVE FALSE
    <2>1. PICK u \in B : \A y \in u : u \ {y} \notin B
      <3>1. B \in SUBSET SUBSET T
        OBVIOUS
      <3> HIDE DEF B
      <3> QED
        BY <1>1, <3>1, LeastSet
    <2>2. u # {}
      <3> SUFFICES ASSUME u = {}  PROVE FALSE
        OBVIOUS
      <3>1. S \cup im[u] = S
        OBVIOUS
      <3>2. SumFunctionOnSet(h, u) = 0 /\ SumFunctionOnSet(f, S) \in Nat
        BY SumEmpty, SumType
      <3> HIDE DEF im
      <3> QED
        BY <2>1, <3>1, <3>2
    <2>3. PICK y \in u : TRUE
      BY <2>2
    <2> DEFINE v == u \ {y}
               A == S \cup im[v]
    <2>4. /\ u \in SUBSET T /\ v \in SUBSET T /\ v \notin B
          /\ SumFunctionOnSet(f, S \cup im[u])
                 # SumFunctionOnSet(f, S) + SumFunctionOnSet(h, u)
      BY <2>1
    <2>5. SumFunctionOnSet(f, A) = SumFunctionOnSet(f, S) + SumFunctionOnSet(h, v)
      BY <2>4
    <2> HIDE DEF B
    <2>6. b[y] \notin A /\ S \cup im[u] = A \cup {b[y]}
      BY <2>4
    <2>7. \A x \in A \cup {b[y]} : f[x] \in Nat
      BY <2>4
    <2>8. IsFiniteSet(A)
      <3>1. IsFiniteSet(v)
        BY <2>4, FS_Subset
      <3>2. [z \in v |-> b[z]] \in Surjection(v, im[v])
        BY <2>4 DEF Surjection
      <3> HIDE DEF v, im
      <3> QED
        BY <3>1, <3>2, FS_Surjection, FS_Union
    <2>9. SumFunctionOnSet(h, u) = h[y] + SumFunctionOnSet(h, v)
      <3>1. IsFiniteSet(u) /\ \A z \in u : h[z] \in Nat
        BY <2>4, FS_Subset
      <3> QED
        BY <3>1, SumTake
    <2>10. /\ SumFunctionOnSet(h, v) \in Nat /\ SumFunctionOnSet(f, S) \in Nat
           /\ h[y] \in Nat /\ f[b[y]] = h[y]
      <3>1. IsFiniteSet(v) /\ \A z \in v : h[z] \in Nat
        BY <2>4, FS_Subset
      <3> QED
        BY <2>4, <3>1, SumType
    <2> HIDE DEF v, A, im
    <2>11. PICK a : a = b[y]
      OBVIOUS
    <2>12. SumFunctionOnSet(f, A \cup {a}) = SumFunctionOnSet(f, A) + f[a]
      <3>1. a \notin A /\ \A x \in A \cup {a} : f[x] \in Int
        BY <2>6, <2>7, <2>11
      <3> QED
        BY ONLY <2>8, <3>1, SumAdd
    <2>13. \A i, j, k \in Nat : (i + j) + k = i + (k + j)
      BY ONLY SMT
    <2> DEFINE i == SumFunctionOnSet(f, S)
               j == SumFunctionOnSet(h, v)
               k == h[y]
    <2>14. SumFunctionOnSet(f, S \cup im[u]) = (i + j) + k
      BY ONLY <2>5, <2>6, <2>10, <2>11, <2>12, Zenon
    <2>15. i + SumFunctionOnSet(h, u) = i + (k + j)
      BY ONLY <2>9, Zenon
    <2>16. (i + j) + k = i + (k + j)
      BY ONLY <2>10, <2>13, Zenon
    <2> QED
      BY ONLY <2>4, <2>14, <2>15, <2>16, Zenon
  <1>2. T \in SUBSET T /\ T \notin B
    <2>1. B = {}
      BY <1>1
    <2> HIDE DEF B
    <2> QED
      BY <2>1
  <1>3. im[T] = {b[y] : y \in T}
    OBVIOUS
  <1>4. SumFunctionOnSet(f, S \cup im[T]) = SumFunctionOnSet(f, S) + SumFunctionOnSet(h, T)
    BY <1>2
  <1> HIDE DEF im
  <1> QED
    BY <1>3, <1>4

\* Numbers divided by four and added lose less than one each.
LEMMA SumRounded ==
    ASSUME NEW S, IsFiniteSet(S), NEW f, NEW h,
           \A x \in S : f[x] \in Nat /\ h[x] = f[x] \div 4
    PROVE  /\ 4 * SumFunctionOnSet(h, S) <= SumFunctionOnSet(f, S)
           /\ SumFunctionOnSet(f, S) <= 4 * SumFunctionOnSet(h, S) + 3 * Cardinality(S)
           /\ SumFunctionOnSet(f, S) \in Nat /\ SumFunctionOnSet(h, S) \in Nat
  <1>0. \A n \in Nat : n \div 4 \in Nat /\ 4 * (n \div 4) <= n /\ n <= 4 * (n \div 4) + 3
    OBVIOUS
  <1>1. \A x \in S : h[x] \in Nat /\ 4 * h[x] <= f[x] /\ f[x] <= 4 * h[x] + 3
    BY <1>0
  <1> DEFINE Good(s) == /\ 4 * SumFunctionOnSet(h, s) <= SumFunctionOnSet(f, s)
                        /\ SumFunctionOnSet(f, s) <= 4 * SumFunctionOnSet(h, s) + 3 * Cardinality(s)
             B == {s \in SUBSET S : ~Good(s)}
  <1>2. ASSUME B # {}  PROVE FALSE
    <2>1. PICK s \in B : \A x \in s : s \ {x} \notin B
      <3>1. B \in SUBSET SUBSET S
        OBVIOUS
      <3> HIDE DEF B
      <3> QED
        BY <1>2, <3>1, LeastSet
    <2>2. s \in SUBSET S /\ ~Good(s) /\ \A x \in s : Good(s \ {x})
      BY <2>1
    <2> HIDE DEF B
    <2>3. IsFiniteSet(s) /\ \A x \in s : f[x] \in Nat /\ h[x] \in Nat
      BY <1>1, <2>2, FS_Subset
    <2>4. s # {}
      <3> SUFFICES ASSUME s = {}  PROVE FALSE
        OBVIOUS
      <3>1. SumFunctionOnSet(f, s) = 0 /\ SumFunctionOnSet(h, s) = 0 /\ Cardinality(s) = 0
        BY SumEmpty, FS_EmptySet
      <3> QED
        BY <2>2, <3>1
    <2>5. PICK x \in s : TRUE
      BY <2>4
    <2> DEFINE v == s \ {x}
               p == SumFunctionOnSet(f, v)
               q == SumFunctionOnSet(h, v)
               c == Cardinality(v)
    <2>6. IsFiniteSet(v) /\ v \subseteq s
      BY <2>3, FS_Subset
    <2>7. p \in Nat /\ q \in Nat /\ c \in Nat
      BY <2>3, <2>6, SumType, FS_CardinalityType
    <2>8. SumFunctionOnSet(f, s) = f[x] + p /\ SumFunctionOnSet(h, s) = h[x] + q
      BY <2>3, SumTake
    <2>9. Cardinality(s) = c + 1
      <3>1. Cardinality(s) \in Nat /\ c = Cardinality(s) - 1
        BY <2>3, FS_RemoveElement, FS_CardinalityType
      <3> HIDE DEF c
      <3> QED
        BY <3>1
    <2>10. 4 * q <= p /\ p <= 4 * q + 3 * c
      BY <2>2
    <2>11. /\ f[x] \in Nat /\ h[x] \in Nat
           /\ 4 * h[x] <= f[x] /\ f[x] <= 4 * h[x] + 3
      BY <1>1, <2>2
    <2> HIDE DEF v, p, q, c
    <2>12. 4 * (h[x] + q) <= f[x] + p /\ f[x] + p <= 4 * (h[x] + q) + 3 * (c + 1)
      BY <2>7, <2>10, <2>11
    <2>13. Good(s)
      BY <2>8, <2>9, <2>12
    <2> QED
      BY <2>2, <2>13
  <1>3. Good(S)
    BY <1>2
  <1> QED
    BY <1>1, <1>3, SumType

\* The numbers E, below n, get c more, n + 1 to n + c, which stand for the
\* elements of S in the order ids.
Extends(E, D, n, c, ids, S) ==
    /\ n \in Nat /\ E \subseteq 1..n /\ IsFiniteSet(S)
    /\ c \in Nat /\ ids \in [1..c -> S] /\ Range(ids) = S
    /\ \A j, k \in 1..c : ids[j] = ids[k] => j = k
    /\ D = E \cup {n + k : k \in 1..c}

\* A sum over them grows by the sum over S.
LEMMA SumListed ==
    ASSUME NEW S, NEW R, NEW T, NEW n, NEW c, NEW ids, Extends(S, R, n, c, ids, T),
           NEW e, NEW f, NEW h, \A x \in S : e[x] \in Nat /\ f[x] = e[x],
           \A k \in 1..c : f[n + k] = h[ids[k]], \A t \in T : h[t] \in Nat
    PROVE  SumFunctionOnSet(f, R) = SumFunctionOnSet(e, S) + SumFunctionOnSet(h, T)
  <1>a. /\ n \in Nat /\ S \subseteq 1..n /\ IsFiniteSet(T)
        /\ c \in Nat /\ ids \in [1..c -> T] /\ Range(ids) = T
        /\ \A j, k \in 1..c : ids[j] = ids[k] => j = k
        /\ R = S \cup {n + k : k \in 1..c}
    BY DEF Extends
  <1>b. \A x \in S : f[x] \in Nat /\ f[x] = e[x]
    OBVIOUS
  <1> DEFINE b == [k \in 1..c |-> n + k]
             g == [k \in 1..c |-> h[ids[k]]]
  <1>1. IsFiniteSet(1..c) /\ IsFiniteSet(S) /\ IsFiniteSet({})
    <2>1. IsFiniteSet(1..c) /\ IsFiniteSet(1..n)
      BY <1>a, FS_Interval
    <2> QED
      BY <1>a, <2>1, FS_Subset, FS_EmptySet
  <1>2. PICK D : D = 1..c
    OBVIOUS
  <1>3. PICK Z : Z = {}
    OBVIOUS
  <1>4. \A k \in D : /\ b[k] \notin S /\ f[b[k]] = g[k] /\ g[k] \in Nat
                     /\ ids[k] \notin Z /\ h[ids[k]] = g[k]
    <2>1. \A k \in 1..c : ids[k] \in T
      BY <1>a
    <2> QED
      BY <1>2, <1>3, <1>a, <2>1
  <1>5. \A j, k \in D : (b[j] = b[k] => j = k) /\ (ids[j] = ids[k] => j = k)
    BY <1>2, <1>a
  <1>6. Z \cup {ids[k] : k \in D} = T /\ {b[k] : k \in D} = {n + k : k \in 1..c}
    BY <1>2, <1>3, <1>a DEF Range
  <1>7. \A k \in Z : h[k] \in Nat
    BY <1>3
  <1> HIDE DEF b, g
  <1>8. SumFunctionOnSet(f, S \cup {b[k] : k \in D})
            = SumFunctionOnSet(f, S) + SumFunctionOnSet(g, D)
    <2>1. IsFiniteSet(S) /\ IsFiniteSet(D) /\ \A x \in S : f[x] \in Nat
      BY <1>1, <1>2, <1>b
    <2>2. \A k \in D : b[k] \notin S /\ f[b[k]] = g[k] /\ g[k] \in Nat
      BY <1>4
    <2>3. \A j, k \in D : b[j] = b[k] => j = k
      BY <1>5
    <2> QED
      BY ONLY <2>1, <2>2, <2>3, SumJoin
  <1>9. SumFunctionOnSet(h, Z \cup {ids[k] : k \in D})
            = SumFunctionOnSet(h, Z) + SumFunctionOnSet(g, D)
    <2>1. IsFiniteSet(Z) /\ IsFiniteSet(D) /\ \A k \in Z : h[k] \in Nat
      BY <1>1, <1>2, <1>3, <1>7
    <2>2. \A k \in D : ids[k] \notin Z /\ h[ids[k]] = g[k] /\ g[k] \in Nat
      BY <1>4
    <2>3. \A j, k \in D : ids[j] = ids[k] => j = k
      BY <1>5
    <2> QED
      BY ONLY <2>1, <2>2, <2>3, SumJoin
  <1>10. SumFunctionOnSet(h, Z) = 0
    BY <1>3, SumEmpty
  <1> DEFINE x == SumFunctionOnSet(g, D)
  <1>11. x \in Nat
    BY ONLY <1>1, <1>2, <1>4, SumType
  <1>12. 0 + x = x
    BY ONLY <1>11
  <1>13. SumFunctionOnSet(h, T) = x
    BY ONLY <1>6, <1>9, <1>10, <1>12, Zenon
  <1>14. SumFunctionOnSet(f, S) = SumFunctionOnSet(e, S)
    BY ONLY <1>1, <1>b, SumSame
  <1> QED
    BY ONLY <1>a, <1>6, <1>8, <1>13, <1>14, Zenon

\* The sum over two sets that have nothing in common.
LEMMA SumApart ==
    ASSUME NEW S, IsFiniteSet(S), NEW T, IsFiniteSet(T), S \cap T = {},
           NEW f, \A x \in S \cup T : f[x] \in Int
    PROVE  SumFunctionOnSet(f, S \cup T) = SumFunctionOnSet(f, S) + SumFunctionOnSet(f, T)
  <1> DEFINE Apart(u) == SumFunctionOnSet(f, S \cup u) = SumFunctionOnSet(f, S) + SumFunctionOnSet(f, u)
             B == {u \in SUBSET T : ~Apart(u)}
  <1>1. ASSUME B # {}  PROVE FALSE
    <2>1. PICK u \in B : \A x \in u : u \ {x} \notin B
      <3>1. B \in SUBSET SUBSET T
        OBVIOUS
      <3> HIDE DEF B
      <3> QED
        BY <1>1, <3>1, LeastSet
    <2>2. u \in SUBSET T /\ ~Apart(u)
      OBVIOUS
    <2>3. \A x \in u : Apart(u \ {x})
      BY <2>1, <2>2
    <2> HIDE DEF B
    <2>4. SumFunctionOnSet(f, S) \in Int
      BY SumInt
    <2>5. CASE u = {}
      <3>1. SumFunctionOnSet(f, u) = 0 /\ S \cup u = S
        BY <2>5, SumEmpty
      <3>2. SumFunctionOnSet(f, S) = SumFunctionOnSet(f, S) + 0
        BY <2>4
      <3> QED
        BY <2>2, <3>1, <3>2
    <2>6. ASSUME NEW y \in u  PROVE FALSE
      <3>1. PICK v : v = u \ {y}
        OBVIOUS
      <3>2. PICK w : w = S \cup v
        OBVIOUS
      <3>3. /\ y \notin v /\ v \cup {y} = u /\ y \notin w /\ w \cup {y} = S \cup u
            /\ v \subseteq T /\ y \in T
        BY <2>2, <3>1, <3>2
      <3>4. IsFiniteSet(v) /\ IsFiniteSet(w)
        BY <3>2, <3>3, FS_Subset, FS_Union
      <3>5. (\A x \in v \cup {y} : f[x] \in Int) /\ (\A x \in w \cup {y} : f[x] \in Int)
        BY <3>2, <3>3
      <3>6. SumFunctionOnSet(f, v \cup {y}) = SumFunctionOnSet(f, v) + f[y]
        BY ONLY <3>3, <3>4, <3>5, SumAdd
      <3>7. SumFunctionOnSet(f, w \cup {y}) = SumFunctionOnSet(f, w) + f[y]
        BY ONLY <3>3, <3>4, <3>5, SumAdd
      <3>8. SumFunctionOnSet(f, w) = SumFunctionOnSet(f, S) + SumFunctionOnSet(f, v)
        BY <2>3, <3>1, <3>2
      <3>9. PICK i \in Int, j \in Int, k \in Int :
                i = SumFunctionOnSet(f, S) /\ j = SumFunctionOnSet(f, v) /\ k = f[y]
        <4>1. SumFunctionOnSet(f, v) \in Int
          BY <3>4, <3>5, SumInt
        <4> QED
          BY <2>4, <3>5, <4>1
      <3>10. (i + j) + k = i + (j + k)
        BY ONLY <3>9
      <3> QED
        BY <2>2, <3>3, <3>6, <3>7, <3>8, <3>9, <3>10
    <2> QED
      BY <2>5, <2>6
  <1> QED
    BY <1>1

\* A sum may be taken class by class.
ClassSums(g, f, S, c, n) == \A k \in 0..n : g[k] = SumFunctionOnSet(f, {x \in S : c[x] = k})

LEMMA SumClasses ==
    ASSUME NEW S, IsFiniteSet(S), NEW f, \A x \in S : f[x] \in Int,
           NEW c, \A x \in S : c[x] \in Nat, NEW n \in Nat,
           NEW g, ClassSums(g, f, S, c, n)
    PROVE  SumFunctionOnSet(g, 0..n) = SumFunctionOnSet(f, {x \in S : c[x] <= n})
  <1> USE DEF ClassSums
  <1> DEFINE Good(m) == SumFunctionOnSet(g, 0..m) = SumFunctionOnSet(f, {x \in S : c[x] <= m})
             B == {m \in 0..n : ~Good(m)}
  <1>1. \A P \in SUBSET S : IsFiniteSet(P) /\ SumFunctionOnSet(f, P) \in Int
    <2> SUFFICES ASSUME NEW P \in SUBSET S  PROVE IsFiniteSet(P) /\ SumFunctionOnSet(f, P) \in Int
      OBVIOUS
    <2>1. IsFiniteSet(P) /\ \A x \in P : f[x] \in Int
      BY FS_Subset
    <2> QED
      BY <2>1, SumInt
  <1>2. \A k \in 0..n : g[k] \in Int
    BY <1>1
  <1>3. ASSUME B # {}  PROVE FALSE
    <2>1. PICK m \in B : \A k \in B : m <= k
      <3>1. B \in SUBSET Nat
        OBVIOUS
      <3> HIDE DEF B
      <3> QED
        BY <1>3, <3>1, LeastNumber
    <2>2. m \in 0..n /\ ~Good(m)
      OBVIOUS
    <2>3. m # 0 => m - 1 \in 0..n /\ Good(m - 1)
      <3>1. m # 0 => m - 1 \in 0..n /\ m - 1 \notin B
        BY <2>1, <2>2
      <3> QED
        BY <3>1
    <2> HIDE DEF B
    <2>4. CASE m = 0
      <3>1. 0..m = {0} /\ 0 \in 0..n
        BY <2>2, <2>4
      <3>2. SumFunctionOnSet(g, {0}) = g[0]
        BY <1>2, <3>1, SumOne
      <3>3. {x \in S : c[x] <= m} = {x \in S : c[x] = 0}
        BY <2>4
      <3> QED
        BY <2>2, <3>1, <3>2, <3>3
    <2>5. CASE m # 0
      <3>1. PICK D : D = 0..(m - 1)
        OBVIOUS
      <3>2. IsFiniteSet(D) /\ m \notin D /\ D \cup {m} = 0..m /\ m \in 0..n /\ D \subseteq 0..n
        <4>1. IsFiniteSet(0..(m - 1))
          BY <2>2, FS_Interval
        <4> QED
          BY <2>2, <2>5, <3>1, <4>1
      <3>3. \A k \in D \cup {m} : g[k] \in Int
        BY <1>2, <3>2
      <3>4. SumFunctionOnSet(g, D \cup {m}) = SumFunctionOnSet(g, D) + g[m]
        BY ONLY <3>2, <3>3, SumAdd
      <3>5. PICK P \in SUBSET S, Q \in SUBSET S :
                P = {x \in S : c[x] <= m - 1} /\ Q = {x \in S : c[x] = m}
        OBVIOUS
      <3>6. P \cap Q = {} /\ P \cup Q = {x \in S : c[x] <= m}
        BY <2>2, <3>5
      <3>7. IsFiniteSet(P) /\ IsFiniteSet(Q) /\ \A x \in P \cup Q : f[x] \in Int
        BY <1>1
      <3>8. SumFunctionOnSet(f, P \cup Q) = SumFunctionOnSet(f, P) + SumFunctionOnSet(f, Q)
        BY ONLY <3>6, <3>7, SumApart
      <3>9. SumFunctionOnSet(g, D) = SumFunctionOnSet(f, P)
        BY <2>3, <2>5, <3>1, <3>5
      <3>10. g[m] = SumFunctionOnSet(f, Q)
        BY <3>2, <3>5
      <3> QED
        BY <2>2, <3>2, <3>4, <3>6, <3>8, <3>9, <3>10
    <2> QED
      BY <2>4, <2>5
  <1>4. n \in 0..n
    OBVIOUS
  <1>5. n \notin B
    <2> HIDE DEF B
    <2> QED
      BY <1>3
  <1>6. Good(n)
    BY <1>4, <1>5
  <1> QED
    BY <1>6
=============================================================================
