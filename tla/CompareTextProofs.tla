------------------------- MODULE CompareTextProofs -------------------------
(***************************************************************************)
(* Theorems about what is computed of two texts, over any characters: how  *)
(* alike they are, how many edits lie between them and which of their      *)
(* characters differ.  The algorithms of CompareAlgorithms meet the        *)
(* reference definitions of ComparePanel.                                  *)
(*                                                                         *)
(* A recursive function is defined by CHOOSE.  That there is one, and only *)
(* one, follows from RecursionExists and OneSolution, which need a step    *)
(* that looks at what ranks lower only.  Matchings are taken apart at a    *)
(* corner: a first or last pair of positions is in a matching, or one of   *)
(* the two positions is in none of its pairs.                              *)
(***************************************************************************)
EXTENDS ComparePanel, FiniteSetTheorems, SequenceTheorems, WellFoundedInduction, TLAPS

-----------------------------------------------------------------------------
(* Induction and recursion by a rank.                                      *)

LEMMA Least ==
  ASSUME NEW S \in SUBSET Nat, S # {}
  PROVE  \E m \in S : \A x \in S : m <= x
<1> DEFINE R == {p \in Nat \X Nat : p[1] < p[2]}
<1>1. IsWellFoundedOn(R, Nat)
  BY NatLessThanWellFounded DEF OpToRel
<1>2. \A x, y \in Nat : <<x, y>> \in R <=> x < y
  OBVIOUS
<1> HIDE DEF R
<1>3. PICK m \in S : \A x \in S : ~(<<x, m>> \in R)
  BY <1>1, WFMin
<1>4. ASSUME NEW x \in S
      PROVE  m <= x
  <2>1. ~(<<x, m>> \in R) /\ x \in Nat /\ m \in Nat
    BY <1>3
  <2>2. ~(x < m)
    BY <1>2, <2>1
  <2> QED
    BY <2>1, <2>2
<1> QED
  BY <1>4

LEMMA RankInduction ==
  ASSUME NEW D, NEW rank \in [D -> Nat], NEW S,
         \A p \in D : (\A q \in D : rank[q] < rank[p] => q \in S) => p \in S
  PROVE  \A p \in D : p \in S
<1> DEFINE bad == {rank[p] : p \in D \ S}
<1>1. SUFFICES ASSUME bad # {}
               PROVE  FALSE
  OBVIOUS
<1>2. bad \in SUBSET Nat
  OBVIOUS
<1>3. PICK m \in bad : \A x \in bad : m <= x
  <2> HIDE DEF bad
  <2> QED
    BY <1>1, <1>2, Least
<1>4. PICK p \in D \ S : rank[p] = m
  OBVIOUS
<1>5. \A q \in D : rank[q] < rank[p] => q \in S
  <2>1. ASSUME NEW q \in D, rank[q] < rank[p], q \notin S
        PROVE  FALSE
    <3>1. rank[q] \in bad
      BY <2>1
    <3> QED
      BY SMTT(30), <1>3, <1>4, <2>1, <3>1
  <2> QED
    BY <2>1
<1> QED
  BY <1>4, <1>5

LEMMA CountingUp ==
  ASSUME NEW N \in Nat, NEW S, 0 \in S, \A i \in 1..N : i - 1 \in S => i \in S
  PROVE  \A i \in 0..N : i \in S
<1> DEFINE rank == [i \in 0..N |-> i]
<1>1. rank \in [0..N -> Nat] /\ \A i \in 0..N : rank[i] = i
  OBVIOUS
<1>2. \A p \in 0..N : (\A q \in 0..N : rank[q] < rank[p] => q \in S) => p \in S
  <2> HIDE DEF rank
  <2>1. ASSUME NEW p \in 0..N, \A q \in 0..N : rank[q] < rank[p] => q \in S
        PROVE  p \in S
    <3>1. CASE p = 0
      BY <3>1
    <3>2. CASE p # 0
      <4>1. p - 1 \in 0..N /\ rank[p - 1] < rank[p] /\ p \in 1..N
        BY <1>1, <3>2
      <4> QED
        BY <2>1, <4>1
    <3> QED
      BY <3>1, <3>2
  <2> QED
    BY <2>1
<1>3. PICK D : D = 0..N
  OBVIOUS
<1>4. rank \in [D -> Nat] /\ \A p \in D : (\A q \in D : rank[q] < rank[p] => q \in S) => p \in S
  <2> HIDE DEF rank
  <2> QED
    BY <1>1, <1>2, <1>3
<1> HIDE DEF rank
<1>5. \A p \in D : p \in S
  BY <1>4, RankInduction
<1> QED
  BY <1>3, <1>5

\* What a value may depend on, and that a function is so defined on E.
Under(D, rank, p) == {q \in D : rank[q] < rank[p]}
Layer(D, rank, k) == {q \in D : rank[q] < k}
Known(f, D, rank, p) == [q \in Under(D, rank, p) |-> f[q]]
Typed(D, V, rank, step) == \A p \in D : \A g \in [Under(D, rank, p) -> V] : step[<<g, p>>] \in V
Solves(f, E, D, V, rank, step) ==
  /\ f \in [E -> V]
  /\ \A p \in E : f[p] = step[<<Known(f, D, rank, p), p>>]

LEMMA SolvesMore ==
  ASSUME NEW D, NEW V, NEW k \in Nat, NEW rank \in [D -> Nat], NEW step, NEW f,
         Typed(D, V, rank, step),
         Solves(f, Layer(D, rank, k), D, V, rank, step)
  PROVE  \E g : Solves(g, Layer(D, rank, k + 1), D, V, rank, step)
<1> DEFINE E == Layer(D, rank, k)
           F == Layer(D, rank, k + 1)
           g == [p \in F |-> step[<<Known(f, D, rank, p), p>>]]
<1>1. ASSUME NEW p \in F
      PROVE  /\ Under(D, rank, p) \subseteq E
             /\ Known(f, D, rank, p) \in [Under(D, rank, p) -> V]
  <2>1. Under(D, rank, p) \subseteq E
    <3>1. p \in D /\ rank[p] < k + 1 /\ rank[p] \in Nat
      BY DEF Layer
    <3>2. \A q \in D : rank[q] \in Nat /\ rank[q] < rank[p] => rank[q] < k
      BY <3>1
    <3> QED
      BY <3>2 DEF Under, Layer
  <2>2. \A q \in Under(D, rank, p) : f[q] \in V
    BY <2>1 DEF Solves
  <2> QED
    BY <2>1, <2>2 DEF Known
<1>2. g \in [F -> V]
  <2>1. \A p \in F : step[<<Known(f, D, rank, p), p>>] \in V
    <3>1. \A p \in F : p \in D
      BY DEF Layer
    <3> HIDE DEF F
    <3> QED
      BY <1>1, <3>1 DEF Typed
  <2> QED
    BY <2>1
<1>3. E \subseteq F /\ \A p \in E : g[p] = f[p]
  <2>1. E \subseteq F
    BY DEF Layer
  <2>2. \A p \in E : f[p] = step[<<Known(f, D, rank, p), p>>]
    BY DEF Solves
  <2>3. \A p \in F : g[p] = step[<<Known(f, D, rank, p), p>>]
    OBVIOUS
  <2> HIDE DEF g, E, F
  <2> QED
    BY <2>1, <2>2, <2>3
<1>4. ASSUME NEW p \in F
      PROVE  Known(g, D, rank, p) = Known(f, D, rank, p)
  <2>1. \A q \in Under(D, rank, p) : g[q] = f[q]
    BY <1>1, <1>3
  <2> HIDE DEF g
  <2> QED
    BY <2>1 DEF Known
<1>5. \A p \in F : g[p] = step[<<Known(f, D, rank, p), p>>]
  OBVIOUS
<1> HIDE DEF g
<1>6. Solves(g, F, D, V, rank, step)
  BY <1>2, <1>4, <1>5 DEF Solves
<1> QED
  BY <1>6

LEMMA RecursionExists ==
  ASSUME NEW D, NEW V, NEW N \in Nat, NEW rank \in [D -> 0..N], NEW step,
         Typed(D, V, rank, step)
  PROVE  \E f : Solves(f, D, D, V, rank, step)
<1> DEFINE E(k) == Layer(D, rank, k)
           S == {k \in 0..(N + 1) : \E f : Solves(f, E(k), D, V, rank, step)}
<1>1. 0 \in S
  <2>1. E(0) = {}
    BY DEF Layer
  <2>2. Solves([p \in {} |-> p], {}, D, V, rank, step)
    BY DEF Solves
  <2>3. \E f : Solves(f, E(0), D, V, rank, step)
    <3> HIDE DEF E
    <3> QED
      BY <2>1, <2>2
  <2>4. 0 \in 0..(N + 1)
    OBVIOUS
  <2> HIDE DEF E
  <2> QED
    BY <2>3, <2>4
<1>2. ASSUME NEW i \in 1..(N + 1), i - 1 \in S
      PROVE  i \in S
  <2>1. PICK f : Solves(f, E(i - 1), D, V, rank, step)
    BY <1>2
  <2>2. i - 1 \in Nat /\ (i - 1) + 1 = i /\ i \in 0..(N + 1)
    OBVIOUS
  <2>3. rank \in [D -> Nat]
    OBVIOUS
  <2>4. PICK k \in Nat : k = i - 1
    BY <2>2
  <2>5. Solves(f, Layer(D, rank, k), D, V, rank, step)
    BY <2>1, <2>4
  <2>6. \E g : Solves(g, Layer(D, rank, k + 1), D, V, rank, step)
    BY <2>3, <2>5, SolvesMore
  <2>7. Layer(D, rank, k + 1) = E(i)
    BY <2>2, <2>4
  <2>8. \E g : Solves(g, E(i), D, V, rank, step)
    <3> HIDE DEF E
    <3> QED
      BY <2>6, <2>7
  <2> HIDE DEF E
  <2> QED
    BY <2>2, <2>8
<1>3. N + 1 \in 0..(N + 1)
  OBVIOUS
<1>4. N + 1 \in S
  <2> HIDE DEF S
  <2> QED
    BY <1>1, <1>2, <1>3, CountingUp
<1>5. E(N + 1) = D
  BY DEF Layer
<1>6. PICK f : Solves(f, D, D, V, rank, step)
  BY <1>4, <1>5
<1> QED
  BY <1>6

LEMMA KnownIs ==
  ASSUME NEW D, NEW rank \in [D -> Nat], NEW p \in D, NEW f
  PROVE  \A q \in D : rank[q] < rank[p] => Known(f, D, rank, p)[q] = f[q]
BY DEF Known, Under

\* Two functions that agree wherever they agree on all that a value depends on.
IsFcn(f, D) == f = [p \in D |-> f[p]]
Settled(f, h, D, rank) == \A p \in D : (\A q \in Under(D, rank, p) : f[q] = h[q]) => f[p] = h[p]

LEMMA OneSolution ==
  ASSUME NEW D, NEW rank \in [D -> Nat], NEW f, NEW h, IsFcn(f, D), IsFcn(h, D), Settled(f, h, D, rank)
  PROVE  f = h
<1> DEFINE S == {p \in D : f[p] = h[p]}
<1>1. \A p \in D : (\A q \in D : rank[q] < rank[p] => q \in S) => p \in S
  BY DEF Settled, Under
<1>2. \A p \in D : p \in S
  <2> HIDE DEF S
  <2> QED
    BY <1>1, RankInduction
<1>3. \A p \in D : f[p] = h[p]
  BY <1>2
<1> QED
  BY <1>3 DEF IsFcn

-----------------------------------------------------------------------------
(* Sums over finite sets.                                                  *)


SumsUp(f, g, U) ==
  \A s \in SUBSET U :
    f[s] = IF s = {} THEN 0 ELSE LET x == CHOOSE x \in s : TRUE IN g[x] + f[s \ {x}]
IsSum(f, g, U) == f \in [SUBSET U -> Int] /\ SumsUp(f, g, U)

LEMMA SetInduction ==
  ASSUME NEW U, IsFiniteSet(U), NEW S,
         \A s \in SUBSET U : (\A t \in SUBSET s : t # s => t \in S) => s \in S
  PROVE  \A s \in SUBSET U : s \in S
<1> DEFINE D == SUBSET U
           rank == [s \in D |-> Cardinality(s)]
<1>1. \A s \in D : IsFiniteSet(s) /\ Cardinality(s) \in Nat
  BY FS_Subset, FS_CardinalityType
<1>2. rank \in [D -> Nat] /\ \A s \in D : rank[s] = Cardinality(s)
  BY <1>1
<1>3. \A s \in D : \A t \in SUBSET s : t # s => t \in D /\ rank[t] < rank[s]
  <2>1. ASSUME NEW s \in D, NEW t \in SUBSET s, t # s
        PROVE  t \in D /\ rank[t] < rank[s]
    <3>1. IsFiniteSet(s) /\ t \in D
      BY <1>1
    <3>2. Cardinality(t) <= Cardinality(s) /\ Cardinality(s) # Cardinality(t)
      BY <2>1, <3>1, FS_Subset
    <3> HIDE DEF D, rank
    <3> QED
      BY <1>1, <1>2, <3>1, <3>2
  <2> HIDE DEF D, rank
  <2> QED
    BY <2>1
<1>4. \A s \in D : (\A t \in D : rank[t] < rank[s] => t \in S) => s \in S
  <2>1. \A s \in D : (\A t \in SUBSET s : t # s => t \in S) => s \in S
    OBVIOUS
  <2> HIDE DEF D, rank
  <2> QED
    BY <1>3, <2>1
<1>5. \A s \in D : s \in S
  <2> HIDE DEF D, rank
  <2> QED
    BY <1>2, <1>4, RankInduction
<1> QED
  BY <1>5

LEMMA SumExists ==
  ASSUME NEW U, IsFiniteSet(U), NEW g, \A x \in U : g[x] \in Int
  PROVE  \E f : IsSum(f, g, U)
<1> DEFINE D == SUBSET U
           rank == [s \in D |-> Cardinality(s)]
           N == Cardinality(U)
           Body(f, s) == IF s = {} THEN 0 ELSE LET x == CHOOSE x \in s : TRUE IN g[x] + f[s \ {x}]
           Dom == (UNION {[Under(D, rank, s) -> Int] : s \in D}) \X D
           step == [a \in Dom |-> Body(a[1], a[2])]
<1>1. \A s \in D : IsFiniteSet(s) /\ Cardinality(s) \in 0..N
  BY FS_Subset, FS_CardinalityType
<1>2. rank \in [D -> 0..N] /\ \A s \in D : rank[s] = Cardinality(s)
  BY <1>1
<1>3. N \in Nat
  BY FS_CardinalityType
<1>4. ASSUME NEW s \in D, s # {}
      PROVE  LET x == CHOOSE x \in s : TRUE
             IN x \in U /\ s \ {x} \in D /\ rank[s \ {x}] < rank[s] /\ s \ {x} \in Under(D, rank, s)
  <2>1. PICK x : x = CHOOSE y \in s : TRUE
    OBVIOUS
  <2>2. x \in s
    BY <1>4, <2>1
  <2>3. x \in U /\ s \ {x} \in D
    BY <2>2
  <2>4. Cardinality(s \ {x}) = Cardinality(s) - 1
    BY <1>1, <2>2, FS_RemoveElement
  <2>5. rank[s \ {x}] < rank[s]
    <3> HIDE DEF D, rank, N
    <3> QED
      BY <1>1, <1>2, <1>3, <2>3, <2>4
  <2>6. s \ {x} \in Under(D, rank, s)
    BY <2>3, <2>5 DEF Under
  <2> QED
    BY <2>1, <2>3, <2>5, <2>6
<1>5. ASSUME NEW s \in D, NEW h \in [Under(D, rank, s) -> Int]
      PROVE  step[<<h, s>>] = Body(h, s) /\ step[<<h, s>>] \in Int
  <2>1. PICK a : a = <<h, s>>
    OBVIOUS
  <2>4. a \in Dom
    <3> HIDE DEF D, rank
    <3> QED
      BY <2>1
  <2>5. step[a] = Body(a[1], a[2])
    <3> HIDE DEF Dom, Body
    <3> QED
      BY <2>4
  <2>2. step[<<h, s>>] = Body(h, s)
    <3> HIDE DEF step, Body
    <3> QED
      BY <2>1, <2>5
  <2>3. Body(h, s) \in Int
    <3>1. CASE s = {}
      BY <3>1
    <3>2. CASE s # {}
      <4>1. PICK x : x = CHOOSE y \in s : TRUE
        OBVIOUS
      <4>2. x \in U /\ s \ {x} \in Under(D, rank, s)
        BY <1>4, <3>2, <4>1
      <4>3. g[x] \in Int /\ h[s \ {x}] \in Int
        <5> HIDE DEF D, rank
        <5> QED
          BY <4>2
      <4> QED
        BY <3>2, <4>1, <4>3
    <3> QED
      BY <3>1, <3>2
  <2> HIDE DEF Body, step
  <2> QED
    BY <2>2, <2>3
<1>6. PICK f \in [D -> Int] : \A s \in D : f[s] = step[<<Known(f, D, rank, s), s>>]
  <2>1. PICK V : V = Int
    OBVIOUS
  <2>2. Typed(D, V, rank, step)
    <3> HIDE DEF D, rank, N, Body, step
    <3> QED
      BY <1>5, <2>1 DEF Typed
  <2>3. \E f : Solves(f, D, D, V, rank, step)
    <3> HIDE DEF D, rank, N, Body, step
    <3> QED
      BY <1>2, <1>3, <2>2, RecursionExists
  <2> HIDE DEF D, rank, N, Body, step
  <2> QED
    BY <2>1, <2>3 DEF Solves
<1>7. ASSUME NEW s \in D
      PROVE  f[s] = Body(f, s)
  <2>1. Known(f, D, rank, s) \in [Under(D, rank, s) -> Int]
    <3> HIDE DEF D, rank
    <3> QED
      BY DEF Known, Under
  <2>2. f[s] = Body(Known(f, D, rank, s), s)
    <3> HIDE DEF D, rank, N, Body, step
    <3> QED
      BY <1>5, <1>6, <2>1
  <2>3. CASE s = {}
    BY <2>2, <2>3
  <2>4. CASE s # {}
    <3>1. PICK x : x = CHOOSE y \in s : TRUE
      OBVIOUS
    <3>2. s \ {x} \in Under(D, rank, s)
      BY <1>4, <2>4, <3>1
    <3>3. Known(f, D, rank, s)[s \ {x}] = f[s \ {x}]
      BY <3>2 DEF Known
    <3> QED
      BY <2>2, <2>4, <3>1, <3>3
  <2> QED
    BY <2>3, <2>4
<1>8. IsSum(f, g, U)
  BY <1>7 DEF IsSum, SumsUp
<1> QED
  BY <1>8

Agree(f, h, U) == \A s \in SUBSET U : f[s] = h[s]

LEMMA SumsAgree ==
  ASSUME NEW U, NEW W, IsFiniteSet(U), U \in SUBSET W, NEW g, NEW f, NEW h, SumsUp(f, g, U),
         IsSum(h, g, W)
  PROVE  Agree(f, h, U)
<1> DEFINE S == {s \in SUBSET U : f[s] = h[s]}
<1>1. \A s \in SUBSET U : (\A t \in SUBSET s : t # s => t \in S) => s \in S
  <2>1. ASSUME NEW s \in SUBSET U, \A t \in SUBSET s : t # s => t \in S
        PROVE  f[s] = h[s]
    <3>1. s \in SUBSET W
      OBVIOUS
    <3>2. h[s] = IF s = {} THEN 0 ELSE LET x == CHOOSE x \in s : TRUE IN g[x] + h[s \ {x}]
      BY <3>1 DEF IsSum, SumsUp
    <3>5. f[s] = IF s = {} THEN 0 ELSE LET x == CHOOSE x \in s : TRUE IN g[x] + f[s \ {x}]
      BY DEF SumsUp
    <3>3. CASE s = {}
      BY <3>2, <3>3, <3>5
    <3>4. CASE s # {}
      <4>1. PICK x : x = CHOOSE y \in s : TRUE
        OBVIOUS
      <4>2. x \in s
        BY <3>4, <4>1
      <4>3. f[s \ {x}] = h[s \ {x}]
        BY <2>1, <4>2
      <4> QED
        BY <3>2, <3>4, <3>5, <4>1, <4>3
    <3> QED
      BY <3>3, <3>4
  <2> QED
    BY <2>1
<1>2. \A s \in SUBSET U : s \in S
  <2> HIDE DEF S
  <2> QED
    BY <1>1, SetInduction
<1> QED
  BY <1>2 DEF Agree

LEMMA TotalIs ==
  ASSUME NEW U, NEW W, IsFiniteSet(U), U \in SUBSET W, NEW g, NEW h, IsSum(h, g, W)
  PROVE  Total(g, U) = h[U]
<1> DEFINE Eq(f) == f = [s \in SUBSET U |-> IF s = {} THEN 0
                                            ELSE LET x == CHOOSE x \in s : TRUE IN g[x] + f[s \ {x}]]
           sum == CHOOSE f : Eq(f)
<1>1. Total(g, U) = sum[U]
  BY DEF Total, MapThenSumSet, MapThenFoldSet
<1>2. \E f : Eq(f)
  <2> DEFINE f == [s \in SUBSET U |-> h[s]]
  <2>1. \A s \in SUBSET U : f[s] = h[s]
    OBVIOUS
  <2>2. ASSUME NEW s \in SUBSET U
        PROVE  h[s] = IF s = {} THEN 0 ELSE LET x == CHOOSE x \in s : TRUE IN g[x] + f[s \ {x}]
    <3>1. s \in SUBSET W
      OBVIOUS
    <3>2. h[s] = IF s = {} THEN 0 ELSE LET x == CHOOSE x \in s : TRUE IN g[x] + h[s \ {x}]
      BY <3>1 DEF IsSum, SumsUp
    <3>3. \A x : s \ {x} \in SUBSET U
      OBVIOUS
    <3>4. \A x : f[s \ {x}] = h[s \ {x}]
      <4> HIDE DEF f
      <4> QED
        BY <2>1, <3>3
    <3> HIDE DEF f
    <3> QED
      BY <3>2, <3>4
  <2>3. f = [s \in SUBSET U |-> IF s = {} THEN 0
                                ELSE LET x == CHOOSE x \in s : TRUE IN g[x] + f[s \ {x}]]
    <3>1. f = [s \in SUBSET U |-> f[s]]
      OBVIOUS
    <3> HIDE DEF f
    <3> QED
      BY <2>1, <2>2, <3>1
  <2> HIDE DEF f
  <2> QED
    BY <2>3
<1>3. Eq(sum)
  <2> HIDE DEF Eq
  <2> QED
    BY <1>2
<1>4. SumsUp(sum, g, U)
  <2> HIDE DEF sum
  <2> QED
    BY <1>3 DEF SumsUp
<1>5. Agree(sum, h, U)
  <2> HIDE DEF sum
  <2> QED
    BY <1>4, SumsAgree
<1> HIDE DEF sum
<1> QED
  BY <1>1, <1>5 DEF Agree

LEMMA TotalType ==
  ASSUME NEW U, IsFiniteSet(U), NEW g, \A x \in U : g[x] \in Int
  PROVE  Total(g, U) \in Int
<1>1. PICK h : IsSum(h, g, U)
  BY SumExists
<1>2. Total(g, U) = h[U]
  BY <1>1, TotalIs
<1> QED
  BY <1>1, <1>2 DEF IsSum

LEMMA TotalEmpty ==
  ASSUME NEW g
  PROVE  Total(g, {}) = 0
<1>1. IsFiniteSet({})
  BY FS_EmptySet
<1>2. PICK h : IsSum(h, g, {})
  BY <1>1, SumExists
<1>3. Total(g, {}) = h[{}]
  BY <1>1, <1>2, TotalIs
<1> QED
  BY <1>2, <1>3 DEF IsSum, SumsUp

\* Whichever element a sum begins with.
LEMMA TotalLess ==
  ASSUME NEW U, IsFiniteSet(U), NEW g, \A x \in U : g[x] \in Int, NEW h, IsSum(h, g, U)
  PROVE  \A s \in SUBSET U : \A y \in s : h[s] = g[y] + h[s \ {y}]
<1> DEFINE S == {s \in SUBSET U : \A y \in s : h[s] = g[y] + h[s \ {y}]}
<1>1. ASSUME NEW s \in SUBSET U, \A t \in SUBSET s : t # s => t \in S
      PROVE  s \in S
  <2>1. ASSUME NEW y \in s
        PROVE  h[s] = g[y] + h[s \ {y}]
    <3>1. PICK x : x = CHOOSE z \in s : TRUE
      OBVIOUS
    <3>2. x \in s
      BY <3>1
    <3>3. h[s] = g[x] + h[s \ {x}]
      BY <3>1, <3>2 DEF IsSum, SumsUp
    <3>4. CASE x = y
      BY <3>3, <3>4
    <3>5. CASE x # y
      <4>1. PICK a : a = s \ {x}
        OBVIOUS
      <4>2. PICK b : b = s \ {y}
        OBVIOUS
      <4>3. PICK c : c = (s \ {x}) \ {y}
        OBVIOUS
      <4>4. a \in S /\ y \in a /\ a \ {y} = c
        BY <1>1, <3>2, <3>5, <4>1, <4>3
      <4>5. b \in S /\ x \in b /\ b \ {x} = c
        BY <1>1, <3>2, <3>5, <4>2, <4>3
      <4>6. h[a] = g[y] + h[c]
        BY <4>4
      <4>7. h[b] = g[x] + h[c]
        BY <4>5
      <4>8. c \in SUBSET U /\ g[x] \in Int /\ g[y] \in Int
        BY <4>3, <3>2
      <4>9. h[c] \in Int
        BY <4>8 DEF IsSum
      <4>10. g[x] + (g[y] + h[c]) = g[y] + (g[x] + h[c])
        BY <4>8, <4>9
      <4> QED
        BY <3>3, <4>1, <4>2, <4>6, <4>7, <4>10
    <3> QED
      BY <3>4, <3>5
  <2> QED
    BY <2>1
<1>2. \A s \in SUBSET U : s \in S
  <2> HIDE DEF S
  <2> QED
    BY <1>1, SetInduction
<1> QED
  BY <1>2

LEMMA TotalWith ==
  ASSUME NEW U, IsFiniteSet(U), NEW g, \A z \in U : g[z] \in Int, NEW x \in U
  PROVE  Total(g, U) = g[x] + Total(g, U \ {x})
<1>1. PICK h : IsSum(h, g, U)
  BY SumExists
<1>2. PICK V : V = U \ {x}
  OBVIOUS
<1>3. IsFiniteSet(V) /\ V \subseteq U
  BY <1>2, FS_Subset
<1>4. Total(g, U) = h[U] /\ Total(g, V) = h[V]
  BY <1>1, <1>3, TotalIs
<1>5. h[U] = g[x] + h[U \ {x}]
  BY <1>1, TotalLess
<1> QED
  BY <1>2, <1>4, <1>5

LEMMA TotalOfUnion ==
  ASSUME NEW A, NEW B, IsFiniteSet(A), IsFiniteSet(B), A \cap B = {},
         NEW g, \A z \in A \cup B : g[z] \in Int
  PROVE  Total(g, A \cup B) = Total(g, A) + Total(g, B)
<1> DEFINE S == {s \in SUBSET B : Total(g, A \cup s) = Total(g, A) + Total(g, s)}
<1>1. ASSUME NEW s \in SUBSET B, \A t \in SUBSET s : t # s => t \in S
      PROVE  s \in S
  <2>1. Total(g, A) \in Int
    BY TotalType
  <2>2. CASE s = {}
    <3>1. A \cup s = A
      BY <2>2
    <3> QED
      BY <2>1, <2>2, <3>1, TotalEmpty
  <2>3. CASE s # {}
    <3>1. PICK x : x \in s
      BY <2>3
    <3>2. PICK t : t = s \ {x}
      OBVIOUS
    <3>3. t \in S
      BY <1>1, <3>1, <3>2
    <3>4. PICK U : U = A \cup s
      OBVIOUS
    <3>5. U \ {x} = A \cup t /\ x \in U
      BY <3>1, <3>2, <3>4
    <3>6. IsFiniteSet(s) /\ IsFiniteSet(t) /\ IsFiniteSet(U)
      BY <3>2, <3>4, FS_Subset, FS_Union
    <3>7. /\ \A z \in U : g[z] \in Int
          /\ \A z \in s : g[z] \in Int
          /\ \A z \in t : g[z] \in Int
      BY <3>4, <3>2
    <3>8. Total(g, U) = g[x] + Total(g, U \ {x})
      BY <3>5, <3>6, <3>7, TotalWith
    <3>9. Total(g, s) = g[x] + Total(g, t)
      BY <3>1, <3>2, <3>6, <3>7, TotalWith
    <3>10. Total(g, t) \in Int /\ g[x] \in Int
      BY <3>1, <3>6, <3>7, TotalType
    <3>11. Total(g, A \cup t) = Total(g, A) + Total(g, t)
      BY <3>3
    <3>12. g[x] + (Total(g, A) + Total(g, t)) = Total(g, A) + (g[x] + Total(g, t))
      BY <2>1, <3>10
    <3> QED
      BY <3>4, <3>5, <3>8, <3>9, <3>11, <3>12
  <2> QED
    BY <2>2, <2>3
<1>2. \A s \in SUBSET B : s \in S
  <2> HIDE DEF S
  <2> QED
    BY <1>1, SetInduction
<1> QED
  BY <1>2

LEMMA TotalOfSame ==
  ASSUME NEW U, IsFiniteSet(U), NEW c \in Int, NEW g, \A z \in U : g[z] = c
  PROVE  Total(g, U) = c * Cardinality(U)
<1> DEFINE S == {s \in SUBSET U : Total(g, s) = c * Cardinality(s)}
<1>1. ASSUME NEW s \in SUBSET U, \A t \in SUBSET s : t # s => t \in S
      PROVE  s \in S
  <2>1. CASE s = {}
    <3>1. Cardinality(s) = 0
      BY <2>1, FS_EmptySet
    <3> QED
      BY <2>1, <3>1, TotalEmpty
  <2>2. CASE s # {}
    <3>1. PICK x : x \in s
      BY <2>2
    <3>2. PICK t : t = s \ {x}
      OBVIOUS
    <3>3. t \in S
      BY <1>1, <3>1, <3>2
    <3>4. IsFiniteSet(s) /\ IsFiniteSet(t)
      BY <3>2, FS_Subset
    <3>5. Cardinality(t) = Cardinality(s) - 1 /\ Cardinality(s) \in Nat
      BY <3>1, <3>2, <3>4, FS_RemoveElement, FS_CardinalityType
    <3>6. \A z \in s : g[z] \in Int
      OBVIOUS
    <3>7. Total(g, s) = g[x] + Total(g, t)
      BY <3>1, <3>2, <3>4, <3>6, TotalWith
    <3>8. Total(g, s) = c + c * Cardinality(t)
      BY <3>1, <3>3, <3>7
    <3>9. \A k \in Int : c + c * (k - 1) = c * k
      OBVIOUS
    <3> QED
      BY <3>5, <3>8, <3>9
  <2> QED
    BY <2>1, <2>2
<1>2. \A s \in SUBSET U : s \in S
  <2> HIDE DEF S
  <2> QED
    BY <1>1, SetInduction
<1> QED
  BY <1>2

-----------------------------------------------------------------------------
(* Matchings of least total.  The corner of a set of pairs is beyond all   *)
(* of them on both sides.                                                  *)

InOrder(S) == \A p, q \in S : p # q => (p[1] < q[1] /\ p[2] < q[2]) \/ (q[1] < p[1] /\ q[2] < p[2])
Ways(E) == {S \in SUBSET E : InOrder(S)}
Cheapest(v, g, E) == (\E S \in Ways(E) : v = Total(g, S)) /\ \A S \in Ways(E) : v <= Total(g, S)

Priced(g, E) == IsFiniteSet(E) /\ E \subseteq Nat \X Nat /\ \A p \in E : g[p] \in Int
Corner(c, E) ==
  /\ c \in Nat \X Nat
  /\ \/ \A p \in E : p[1] <= c[1] /\ p[2] <= c[2]
     \/ \A p \in E : p[1] >= c[1] /\ p[2] >= c[2]
OffRow(E, c) == {p \in E : p[1] # c[1]}
OffColumn(E, c) == {p \in E : p[2] # c[2]}
OffBoth(E, c) == {p \in E : p[1] # c[1] /\ p[2] # c[2]}

LEMMA PricedPart ==
  ASSUME NEW g, NEW E, Priced(g, E), NEW S \in SUBSET E
  PROVE  Priced(g, S) /\ IsFiniteSet(S) /\ Total(g, S) \in Int
<1>1. IsFiniteSet(S) /\ \A p \in S : g[p] \in Int
  BY FS_Subset DEF Priced
<1>2. Total(g, S) \in Int
  BY <1>1, TotalType
<1> QED
  BY <1>1, <1>2 DEF Priced

LEMMA NothingToMatch ==
  ASSUME NEW g
  PROVE  Cheapest(0, g, {})
<1>1. Ways({}) = {{}}
  BY DEF Ways, InOrder
<1>2. PICK w \in Int : w = Total(g, {}) /\ w = 0
  BY TotalEmpty
<1>3. \A S \in Ways({}) : Total(g, S) = w
  BY <1>1, <1>2
<1> QED
  BY <1>1, <1>2, <1>3 DEF Cheapest

LEMMA CheapestType ==
  ASSUME NEW g, NEW E, Priced(g, E), NEW v, Cheapest(v, g, E)
  PROVE  v \in Int
<1>1. PICK S \in Ways(E) : v = Total(g, S)
  BY DEF Cheapest
<1>2. S \in SUBSET E
  BY DEF Ways
<1> QED
  BY <1>1, <1>2, PricedPart

LEMMA CheapestIsOne ==
  ASSUME NEW g, NEW E, Priced(g, E), NEW v, NEW w, Cheapest(v, g, E), Cheapest(w, g, E)
  PROVE  v = w
<1>1. v \in Int /\ w \in Int
  BY CheapestType
<1>2. v <= w /\ w <= v
  BY DEF Cheapest
<1> QED
  BY <1>1, <1>2

\* A matching misses the row or the column of a corner that it does not take.
LEMMA CornerMissed ==
  ASSUME NEW E \in SUBSET (Nat \X Nat), NEW c, Corner(c, E), NEW S \in Ways(E), c \notin S
  PROVE  S \in Ways(OffRow(E, c)) \/ S \in Ways(OffColumn(E, c))
<1>1. SUFFICES ASSUME NEW p \in S, p[1] = c[1], NEW q \in S, q[2] = c[2]
               PROVE  FALSE
  BY DEF Ways, OffRow, OffColumn
<1>2. /\ p \in E /\ q \in E /\ c \in Nat \X Nat
      /\ p[1] \in Nat /\ p[2] \in Nat /\ q[1] \in Nat /\ q[2] \in Nat
      /\ p = <<p[1], p[2]>> /\ q = <<q[1], q[2]>> /\ c = <<c[1], c[2]>>
  BY DEF Ways, Corner
<1>3. p # c /\ q # c
  OBVIOUS
<1>4. p[2] # c[2] /\ q[1] # c[1]
  BY <1>1, <1>2, <1>3
<1>5. p # q
  BY <1>1, <1>4
<1>6. (p[1] < q[1] /\ p[2] < q[2]) \/ (q[1] < p[1] /\ q[2] < p[2])
  BY <1>5 DEF Ways, InOrder
<1>7. c[1] \in Nat /\ c[2] \in Nat
  BY <1>2
<1>8. CASE \A r \in E : r[1] <= c[1] /\ r[2] <= c[2]
  <2>1. q[1] < c[1] /\ p[2] < c[2]
    BY <1>2, <1>4, <1>7, <1>8
  <2> QED
    BY <2>1, <1>1, <1>2, <1>6, <1>7
<1>9. CASE \A r \in E : r[1] >= c[1] /\ r[2] >= c[2]
  <2>1. q[1] > c[1] /\ p[2] > c[2]
    BY <1>2, <1>4, <1>7, <1>9
  <2> QED
    BY <2>1, <1>1, <1>2, <1>6, <1>7
<1> QED
  BY <1>8, <1>9 DEF Corner

LEMMA CornerLeft ==
  ASSUME NEW E \in SUBSET (Nat \X Nat), NEW c \in E, Corner(c, E), NEW S \in Ways(E), c \in S
  PROVE  S \ {c} \in Ways(OffBoth(E, c))
<1>1. ASSUME NEW p \in S, p # c
      PROVE  p[1] # c[1] /\ p[2] # c[2]
  <2>1. (p[1] < c[1] /\ p[2] < c[2]) \/ (c[1] < p[1] /\ c[2] < p[2])
    BY <1>1 DEF Ways, InOrder
  <2>2. p[1] \in Nat /\ p[2] \in Nat /\ c[1] \in Nat /\ c[2] \in Nat
    BY DEF Ways
  <2> QED
    BY <2>1, <2>2
<1> QED
  BY <1>1 DEF Ways, InOrder, OffBoth

LEMMA CornerAdded ==
  ASSUME NEW E \in SUBSET (Nat \X Nat), NEW c \in E, Corner(c, E), NEW S \in Ways(OffBoth(E, c))
  PROVE  S \cup {c} \in Ways(E) /\ c \notin S
<1>1. ASSUME NEW p \in S
      PROVE  (p[1] < c[1] /\ p[2] < c[2]) \/ (c[1] < p[1] /\ c[2] < p[2])
  <2>1. p \in E /\ p[1] # c[1] /\ p[2] # c[2]
    BY DEF Ways, OffBoth
  <2>2. p[1] \in Nat /\ p[2] \in Nat /\ c[1] \in Nat /\ c[2] \in Nat
    BY <2>1
  <2> QED
    BY <2>1, <2>2 DEF Corner
<1>2. c \notin S
  BY DEF Ways, OffBoth
<1>3. S \cup {c} \in SUBSET E
  BY DEF Ways, OffBoth
<1>4. InOrder(S \cup {c})
  BY <1>1 DEF Ways, InOrder
<1> QED
  BY <1>2, <1>3, <1>4 DEF Ways

LEMMA WaysGrow ==
  ASSUME NEW E, NEW c
  PROVE  /\ OffRow(E, c) \in SUBSET E /\ OffColumn(E, c) \in SUBSET E /\ OffBoth(E, c) \in SUBSET E
         /\ Ways(OffRow(E, c)) \in SUBSET Ways(E)
         /\ Ways(OffColumn(E, c)) \in SUBSET Ways(E)
         /\ Ways(OffBoth(E, c)) \in SUBSET Ways(E)
BY DEF Ways, OffRow, OffColumn, OffBoth

Lesser(x, y) == IF x <= y THEN x ELSE y

LEMMA CornerOut ==
  ASSUME NEW g, NEW E, Priced(g, E), NEW c, Corner(c, E), c \notin E,
         NEW x, Cheapest(x, g, OffRow(E, c)), NEW y, Cheapest(y, g, OffColumn(E, c))
  PROVE  Cheapest(Lesser(x, y), g, E)
<1>1. E \in SUBSET (Nat \X Nat)
  BY DEF Priced
<1>2. Priced(g, OffRow(E, c)) /\ Priced(g, OffColumn(E, c))
  BY WaysGrow, PricedPart
<1>3. x \in Int /\ y \in Int
  BY <1>2, CheapestType
<1>4. \E S \in Ways(E) : Lesser(x, y) = Total(g, S)
  BY WaysGrow DEF Cheapest, Lesser
<1>5. ASSUME NEW S \in Ways(E)
      PROVE  Lesser(x, y) <= Total(g, S)
  <2>1. c \notin S
    BY DEF Ways
  <2>2. S \in Ways(OffRow(E, c)) \/ S \in Ways(OffColumn(E, c))
    BY <1>1, <2>1, CornerMissed
  <2>3. x <= Total(g, S) \/ y <= Total(g, S)
    BY <2>2 DEF Cheapest
  <2>4. Total(g, S) \in Int
    BY PricedPart DEF Ways
  <2> QED
    BY <1>3, <2>3, <2>4 DEF Lesser
<1> QED
  BY <1>4, <1>5 DEF Cheapest

LEMMA CornerIn ==
  ASSUME NEW g, NEW E, Priced(g, E), NEW c \in E, Corner(c, E),
         NEW x, Cheapest(x, g, OffRow(E, c)), NEW y, Cheapest(y, g, OffColumn(E, c)),
         NEW z, Cheapest(z, g, OffBoth(E, c))
  PROVE  Cheapest(Lesser(Lesser(x, y), z + g[c]), g, E)
<1>1. E \in SUBSET (Nat \X Nat)
  BY DEF Priced
<1>2. Priced(g, OffRow(E, c)) /\ Priced(g, OffColumn(E, c)) /\ Priced(g, OffBoth(E, c))
  BY WaysGrow, PricedPart
<1>3. x \in Int /\ y \in Int /\ z \in Int /\ g[c] \in Int
  BY <1>2, CheapestType DEF Priced
<1>4. \E S \in Ways(E) : z + g[c] = Total(g, S)
  <2>1. PICK S \in Ways(OffBoth(E, c)) : z = Total(g, S)
    BY DEF Cheapest
  <2>2. PICK T : T = S \cup {c}
    OBVIOUS
  <2>3. T \in Ways(E) /\ c \notin S /\ T \ {c} = S /\ c \in T
    BY <1>1, <2>2, CornerAdded
  <2>4. IsFiniteSet(T) /\ \A p \in T : g[p] \in Int
    BY <2>3, PricedPart DEF Ways, Priced
  <2>5. Total(g, T) = g[c] + Total(g, S)
    BY <2>3, <2>4, TotalWith
  <2> QED
    BY <1>3, <2>1, <2>3, <2>5
<1>5. \E S \in Ways(E) : Lesser(Lesser(x, y), z + g[c]) = Total(g, S)
  BY <1>4, WaysGrow DEF Cheapest, Lesser
<1>6. ASSUME NEW S \in Ways(E)
      PROVE  x <= Total(g, S) \/ y <= Total(g, S) \/ z + g[c] <= Total(g, S)
  <2>1. CASE c \notin S
    <3>1. S \in Ways(OffRow(E, c)) \/ S \in Ways(OffColumn(E, c))
      BY <1>1, <2>1, CornerMissed
    <3> QED
      BY <3>1 DEF Cheapest
  <2>2. CASE c \in S
    <3>1. PICK T : T = S \ {c}
      OBVIOUS
    <3>2. T \in Ways(OffBoth(E, c))
      BY <1>1, <2>2, <3>1, CornerLeft
    <3>3. IsFiniteSet(S) /\ (\A p \in S : g[p] \in Int) /\ T \in SUBSET E
      BY <3>1, PricedPart DEF Ways, Priced
    <3>4. Total(g, S) = g[c] + Total(g, T)
      BY <2>2, <3>1, <3>3, TotalWith
    <3>5. z <= Total(g, T) /\ Total(g, T) \in Int
      BY <3>2, <3>3, PricedPart DEF Cheapest
    <3>6. z + g[c] <= g[c] + Total(g, T)
      BY <1>3, <3>5
    <3> QED
      BY <3>4, <3>6
  <2> QED
    BY <2>1, <2>2
<1>7. ASSUME NEW S \in Ways(E)
      PROVE  Lesser(Lesser(x, y), z + g[c]) <= Total(g, S)
  <2>1. Total(g, S) \in Int
    BY PricedPart DEF Ways
  <2>2. x <= Total(g, S) \/ y <= Total(g, S) \/ z + g[c] <= Total(g, S)
    BY <1>6
  <2>3. PICK w \in Int : w = z + g[c]
    BY <1>3
  <2> QED
    BY <1>3, <2>1, <2>2, <2>3 DEF Lesser
<1> QED
  BY <1>5, <1>7 DEF Cheapest

\* A corner that is as cheap as any pair, and no dearer than none, may be taken.
LEMMA CornerTaken ==
  ASSUME NEW g, NEW E, Priced(g, E), NEW c \in E, Corner(c, E),
         g[c] <= 0, \A p \in E : g[c] <= g[p],
         NEW z, Cheapest(z, g, OffBoth(E, c))
  PROVE  Cheapest(z + g[c], g, E)
<1>1. E \in SUBSET (Nat \X Nat)
  BY DEF Priced
<1>2. Priced(g, OffBoth(E, c))
  BY WaysGrow, PricedPart
<1>3. z \in Int /\ g[c] \in Int
  BY <1>2, CheapestType DEF Priced
<1>4. \E S \in Ways(E) : z + g[c] = Total(g, S)
  <2>1. PICK S \in Ways(OffBoth(E, c)) : z = Total(g, S)
    BY DEF Cheapest
  <2>2. PICK T : T = S \cup {c}
    OBVIOUS
  <2>3. T \in Ways(E) /\ c \notin S /\ T \ {c} = S /\ c \in T
    BY <1>1, <2>2, CornerAdded
  <2>4. IsFiniteSet(T) /\ \A p \in T : g[p] \in Int
    BY <2>3, PricedPart DEF Ways, Priced
  <2>5. Total(g, T) = g[c] + Total(g, S)
    BY <2>3, <2>4, TotalWith
  <2> QED
    BY <1>3, <2>1, <2>3, <2>5
<1>5. ASSUME NEW S \in Ways(E)
      PROVE  S \in Ways(OffBoth(E, c)) \/ \E p \in S : S \ {p} \in Ways(OffBoth(E, c))
  <2>1. CASE c \in S
    BY <1>1, <2>1, CornerLeft
  <2>2. CASE c \notin S /\ S \in Ways(OffRow(E, c))
    <3>1. SUFFICES ASSUME NEW p \in S, p[2] = c[2]
                   PROVE  S \ {p} \in Ways(OffBoth(E, c))
      BY <2>2 DEF Ways, OffBoth, OffRow
    <3>2. ASSUME NEW q \in S, q # p
          PROVE  q[2] # c[2]
      <4>1. (p[1] < q[1] /\ p[2] < q[2]) \/ (q[1] < p[1] /\ q[2] < p[2])
        BY <3>2 DEF Ways, InOrder
      <4>2. p[2] \in Nat /\ q[2] \in Nat
        BY <1>1 DEF Ways
      <4> QED
        BY <3>1, <4>1, <4>2
    <3> QED
      BY <2>2, <3>2 DEF Ways, OffBoth, OffRow, InOrder
  <2>3. CASE c \notin S /\ S \in Ways(OffColumn(E, c))
    <3>1. SUFFICES ASSUME NEW p \in S, p[1] = c[1]
                   PROVE  S \ {p} \in Ways(OffBoth(E, c))
      BY <2>3 DEF Ways, OffBoth, OffColumn
    <3>2. ASSUME NEW q \in S, q # p
          PROVE  q[1] # c[1]
      <4>1. (p[1] < q[1] /\ p[2] < q[2]) \/ (q[1] < p[1] /\ q[2] < p[2])
        BY <3>2 DEF Ways, InOrder
      <4>2. p[1] \in Nat /\ q[1] \in Nat
        BY <1>1 DEF Ways
      <4> QED
        BY <3>1, <4>1, <4>2
    <3> QED
      BY <2>3, <3>2 DEF Ways, OffBoth, OffColumn, InOrder
  <2> QED
    BY <1>1, <2>1, <2>2, <2>3, CornerMissed
<1>6. ASSUME NEW S \in Ways(E)
      PROVE  z + g[c] <= Total(g, S)
  <2>1. IsFiniteSet(S) /\ (\A p \in S : g[p] \in Int /\ g[c] <= g[p]) /\ S \in SUBSET E
    BY PricedPart DEF Ways, Priced
  <2>2. Total(g, S) \in Int
    BY <2>1, PricedPart
  <2>3. CASE S \in Ways(OffBoth(E, c))
    <3>1. z <= Total(g, S)
      BY <2>3 DEF Cheapest
    <3> QED
      BY <1>3, <2>2, <3>1
  <2>4. ASSUME NEW p \in S, S \ {p} \in Ways(OffBoth(E, c))
        PROVE  z + g[c] <= Total(g, S)
    <3>1. PICK T : T = S \ {p}
      OBVIOUS
    <3>2. Total(g, S) = g[p] + Total(g, T)
      BY <2>1, <3>1, TotalWith
    <3>3. z <= Total(g, T) /\ Total(g, T) \in Int /\ g[p] \in Int /\ g[c] <= g[p]
      BY <2>1, <2>4, <3>1, PricedPart DEF Cheapest
    <3>4. z + g[c] <= g[p] + Total(g, T)
      BY <1>3, <3>3
    <3> QED
      BY <3>2, <3>4
  <2> QED
    BY <1>5, <2>3, <2>4
<1> QED
  BY <1>4, <1>6 DEF Cheapest

-----------------------------------------------------------------------------
(* Common ends.                                                            *)

LEMMA Initial ==
  ASSUME NEW A, NEW s \in Seq(A), NEW l \in 0..Len(s)
  PROVE  /\ SubSeq(s, 1, l) \in Seq(A) /\ Len(SubSeq(s, 1, l)) = l
         /\ \A k \in 1..l : SubSeq(s, 1, l)[k] = s[k]
<1>1. \A i \in 1..l : s[i] \in A
  BY ElementOfSeq
<1>2. l \in Int
  OBVIOUS
<1> QED
  BY <1>1, <1>2, SubSeqProperties

Alike(l, a, b) == l \in Nat /\ l <= Len(a) /\ l <= Len(b) /\ \A k \in 1..l : a[k] = b[k]

LEMMA CommonPrefixIs ==
  ASSUME NEW A, NEW a \in Seq(A), NEW b \in Seq(A)
  PROVE  Alike(Len(LongestCommonPrefix({a, b})), a, b)
<1> DEFINE C == CommonPrefixes({a, b})
           short == {Len(a) - Len(t) : t \in C}
<1>1. Len(a) \in Nat /\ Len(b) \in Nat
  OBVIOUS
<1>2. ASSUME NEW t \in C
      PROVE  /\ t \in Seq(A) /\ Len(t) \in Nat /\ Len(t) <= Len(a) /\ Len(t) <= Len(b)
             /\ \A k \in 1..Len(t) : a[k] = b[k]
  <2>1. IsPrefix(t, a) /\ IsPrefix(t, b)
    BY DEF CommonPrefixes
  <2>2. \E s \in {a, b} : \E l \in 0..Len(s) : t = SubSeq(s, 1, l)
    BY DEF CommonPrefixes, Prefixes
  <2>3. t \in Seq(A)
    BY <2>2, Initial
  <2>4. Len(t) \in Nat /\ Len(t) <= Len(a) /\ Len(t) <= Len(b)
    BY <2>1, <2>3 DEF IsPrefix
  <2>5. SubSeq(a, 1, Len(t)) = SubSeq(b, 1, Len(t))
    BY <2>1 DEF IsPrefix
  <2>6. \A k \in 1..Len(t) : SubSeq(a, 1, Len(t))[k] = a[k] /\ SubSeq(b, 1, Len(t))[k] = b[k]
    BY <1>1, <2>4, Initial
  <2> QED
    BY <2>3, <2>4, <2>5, <2>6
<1>3. C # {}
  <2>1. SubSeq(a, 1, 0) = <<>> /\ SubSeq(b, 1, 0) = <<>>
    BY SubSeqEmpty
  <2>2. <<>> \in Prefixes(a)
    BY <1>1, <2>1 DEF Prefixes
  <2>3. IsPrefix(<<>>, a) /\ IsPrefix(<<>>, b)
    BY <1>1, <2>1, SubSeqEmpty DEF IsPrefix
  <2> QED
    BY <2>2, <2>3 DEF CommonPrefixes
<1>4. \E t \in C : \A u \in C : Len(u) <= Len(t)
  <2>1. short \in SUBSET Nat /\ short # {}
    <3>1. \A t \in C : Len(a) - Len(t) \in Nat
      <4> HIDE DEF C
      <4> QED
        BY <1>1, <1>2
    <3> HIDE DEF C
    <3> QED
      BY <1>3, <3>1
  <2>2. PICK m \in short : \A x \in short : m <= x
    <3> HIDE DEF short
    <3> QED
      BY <2>1, Least
  <2>3. PICK t \in C : m = Len(a) - Len(t)
    OBVIOUS
  <2>4. ASSUME NEW u \in C
        PROVE  Len(u) <= Len(t)
    <3>1. Len(a) - Len(t) <= Len(a) - Len(u)
      BY <2>2, <2>3
    <3>2. Len(t) \in Nat /\ Len(u) \in Nat
      <4> HIDE DEF C
      <4> QED
        BY <1>2
    <3> QED
      BY <1>1, <3>1, <3>2
  <2> QED
    BY <2>4
<1>5. LongestCommonPrefix({a, b}) \in C
  <2>1. LongestCommonPrefix({a, b}) = CHOOSE t \in C : \A u \in C : Len(u) <= Len(t)
    BY DEF LongestCommonPrefix
  <2> HIDE DEF C
  <2> QED
    BY <1>4, <2>1
<1> HIDE DEF C
<1> QED
  BY <1>2, <1>5 DEF Alike

Ends(s, a, b) ==
  /\ s.prefix \in Nat /\ s.suffix \in Nat
  /\ s.prefix + s.suffix <= Len(a) /\ s.prefix + s.suffix <= Len(b)
  /\ \A k \in 1..s.prefix : a[k] = b[k]
  /\ \A k \in 1..s.suffix : a[Len(a) - s.suffix + k] = b[Len(b) - s.suffix + k]
  /\ s.a = SubSeq(a, s.prefix + 1, Len(a) - s.suffix)
  /\ s.b = SubSeq(b, s.prefix + 1, Len(b) - s.suffix)

LEMMA BackOf ==
  ASSUME NEW A, NEW s \in Seq(A), NEW p \in 0..Len(s)
  PROVE  LET r == Reverse(SubSeq(s, p + 1, Len(s)))
         IN /\ r \in Seq(A) /\ Len(r) = Len(s) - p
            /\ \A k \in 1..(Len(s) - p) : r[k] = s[Len(s) + 1 - k]
<1> DEFINE t == SubSeq(s, p + 1, Len(s))  r == Reverse(t)
<1>1. Len(s) \in Nat /\ p \in Nat /\ p <= Len(s)
  OBVIOUS
<1>2. \A i \in (p + 1)..Len(s) : s[i] \in A
  <2>1. \A i \in (p + 1)..Len(s) : i \in 1..Len(s)
    BY <1>1
  <2> QED
    BY <2>1, ElementOfSeq
<1>3. /\ t \in Seq(A) /\ Len(t) = Len(s) - p
      /\ \A i \in 1..(Len(s) - p) : t[i] = s[p + i]
  <2>1. p + 1 \in Int /\ Len(s) \in Int
    BY <1>1
  <2>2. /\ t \in Seq(A)
        /\ Len(t) = IF p + 1 <= Len(s) THEN Len(s) - (p + 1) + 1 ELSE 0
        /\ \A i \in 1..(Len(s) - (p + 1) + 1) : t[i] = s[(p + 1) + i - 1]
    BY <1>2, <2>1, SubSeqProperties
  <2>3. Len(t) = Len(s) - p
    BY <1>1, <2>2
  <2>4. ASSUME NEW i \in 1..(Len(s) - p)
        PROVE  t[i] = s[p + i]
    <3>1. i \in 1..(Len(s) - (p + 1) + 1) /\ (p + 1) + i - 1 = p + i
      BY <1>1
    <3> QED
      BY <2>2, <3>1
  <2> HIDE DEF t
  <2> QED
    BY <2>2, <2>3, <2>4
<1>4. r = [i \in 1..(Len(s) - p) |-> t[(Len(s) - p - i) + 1]]
  <2> HIDE DEF t
  <2> QED
    BY <1>3 DEF Reverse
<1>5. \A i \in 1..(Len(s) - p) : t[(Len(s) - p - i) + 1] = s[Len(s) + 1 - i]
  <2>1. ASSUME NEW i \in 1..(Len(s) - p)
        PROVE  t[(Len(s) - p - i) + 1] = s[Len(s) + 1 - i]
    <3>1. /\ (Len(s) - p - i) + 1 \in 1..(Len(s) - p)
          /\ p + ((Len(s) - p - i) + 1) = Len(s) + 1 - i
      BY <1>1
    <3> HIDE DEF t
    <3> QED
      BY <1>3, <3>1
  <2> HIDE DEF t
  <2> QED
    BY <2>1
<1>6. \A i \in 1..(Len(s) - p) : Len(s) + 1 - i \in 1..Len(s)
  BY <1>1
<1>7. \A i \in 1..(Len(s) - p) : s[Len(s) + 1 - i] \in A
  BY <1>6, ElementOfSeq
<1>8. PICK n \in Nat : n = Len(s) - p
  BY <1>1
<1> HIDE DEF t, r
<1>9. r = [i \in 1..n |-> t[(Len(s) - p - i) + 1]] /\ \A i \in 1..n : t[(Len(s) - p - i) + 1] \in A
  BY <1>4, <1>5, <1>7, <1>8
<1>10. r \in Seq(A) /\ Len(r) = n
  BY <1>9
<1>11. \A k \in 1..(Len(s) - p) : r[k] = s[Len(s) + 1 - k]
  BY <1>4, <1>5
<1> QED
  BY <1>8, <1>10, <1>11 DEF r, t

LEMMA StripIs ==
  ASSUME NEW A, NEW a \in Seq(A), NEW b \in Seq(A)
  PROVE  Ends(Strip(a, b), a, b)
<1> DEFINE p == Len(LongestCommonPrefix({a, b}))
           ra == Reverse(SubSeq(a, p + 1, Len(a)))
           rb == Reverse(SubSeq(b, p + 1, Len(b)))
           q == Len(LongestCommonPrefix({ra, rb}))
<1>1. Strip(a, b) = [prefix |-> p, suffix |-> q, a |-> SubSeq(a, p + 1, Len(a) - q),
                     b |-> SubSeq(b, p + 1, Len(b) - q)]
  BY DEF Strip
<1>2. p \in Nat /\ p <= Len(a) /\ p <= Len(b) /\ (\A k \in 1..p : a[k] = b[k])
      /\ Len(a) \in Nat /\ Len(b) \in Nat
  <2>1. Alike(p, a, b)
    BY CommonPrefixIs
  <2> HIDE DEF p
  <2> QED
    BY <2>1 DEF Alike
<1>3. p \in 0..Len(a) /\ p \in 0..Len(b)
  <2> HIDE DEF p
  <2> QED
    BY <1>2
<1>4. /\ ra \in Seq(A) /\ Len(ra) = Len(a) - p
      /\ \A k \in 1..(Len(a) - p) : ra[k] = a[Len(a) + 1 - k]
  <2> HIDE DEF p
  <2> QED
    BY <1>3, BackOf
<1>5. /\ rb \in Seq(A) /\ Len(rb) = Len(b) - p
      /\ \A k \in 1..(Len(b) - p) : rb[k] = b[Len(b) + 1 - k]
  <2> HIDE DEF p
  <2> QED
    BY <1>3, BackOf
<1>6. q \in Nat /\ q <= Len(ra) /\ q <= Len(rb) /\ \A k \in 1..q : ra[k] = rb[k]
  <2>1. Alike(q, ra, rb)
    <3> HIDE DEF ra, rb
    <3> QED
      BY <1>4, <1>5, CommonPrefixIs
  <2> HIDE DEF ra, rb, q
  <2> QED
    BY <1>4, <1>5, <2>1 DEF Alike
<1> HIDE DEF p, q, ra, rb
<1>7. p + q <= Len(a) /\ p + q <= Len(b)
  BY <1>2, <1>4, <1>5, <1>6
<1>8. ASSUME NEW k \in 1..q
      PROVE  a[Len(a) - q + k] = b[Len(b) - q + k]
  <2>1. PICK l \in Nat : l = q + 1 - k
    BY <1>6
  <2>2. l \in 1..q /\ l \in 1..(Len(a) - p) /\ l \in 1..(Len(b) - p)
    BY <1>2, <1>6, <1>7, <2>1
  <2>3. Len(a) + 1 - l = Len(a) - q + k /\ Len(b) + 1 - l = Len(b) - q + k
    BY <1>2, <1>6, <2>1
  <2>4. ra[l] = rb[l]
    BY <1>6, <2>2
  <2> QED
    BY <1>4, <1>5, <2>2, <2>3, <2>4
<1> QED
  BY <1>1, <1>2, <1>6, <1>7, <1>8 DEF Ends

\* The middle of a text.
LEMMA Middle ==
  ASSUME NEW A, NEW s \in Seq(A), NEW p \in Nat, NEW q \in Nat, p + q <= Len(s)
  PROVE  LET t == SubSeq(s, p + 1, Len(s) - q)
         IN /\ t \in Seq(A) /\ Len(t) = Len(s) - p - q
            /\ \A k \in 1..(Len(s) - p - q) : t[k] = s[p + k]
<1> DEFINE t == SubSeq(s, p + 1, Len(s) - q)
<1>1. Len(s) \in Nat
  OBVIOUS
<1>2. p + 1 \in Int /\ Len(s) - q \in Int
  BY <1>1
<1>3. \A i \in (p + 1)..(Len(s) - q) : s[i] \in A
  <2>1. \A i \in (p + 1)..(Len(s) - q) : i \in 1..Len(s)
    BY <1>1
  <2> QED
    BY <2>1, ElementOfSeq
<1>4. /\ t \in Seq(A)
      /\ Len(t) = IF p + 1 <= Len(s) - q THEN Len(s) - q - (p + 1) + 1 ELSE 0
      /\ \A i \in 1..(Len(s) - q - (p + 1) + 1) : t[i] = s[(p + 1) + i - 1]
  BY <1>2, <1>3, SubSeqProperties
<1>5. Len(t) = Len(s) - p - q
  BY <1>1, <1>4
<1>6. ASSUME NEW k \in 1..(Len(s) - p - q)
      PROVE  t[k] = s[p + k]
  <2>1. k \in 1..(Len(s) - q - (p + 1) + 1) /\ (p + 1) + k - 1 = p + k
    BY <1>1
  <2> QED
    BY <1>4, <2>1
<1> QED
  BY <1>4, <1>5, <1>6

-----------------------------------------------------------------------------
(* Matchings between two positions of either side.                         *)

Within(E, i, n, j, m) == {p \in E : i < p[1] /\ p[1] <= n /\ j < p[2] /\ p[2] <= m}

LEMMA LastCorner ==
  ASSUME NEW E \in SUBSET (Nat \X Nat), NEW i \in Nat, NEW n \in Nat, NEW j \in Nat, NEW m \in Nat,
         i < n, j < m
  PROVE  LET W == Within(E, i, n, j, m)  c == <<n, m>>
         IN /\ Corner(c, W)
            /\ OffRow(W, c) = Within(E, i, n - 1, j, m)
            /\ OffColumn(W, c) = Within(E, i, n, j, m - 1)
            /\ OffBoth(W, c) = Within(E, i, n - 1, j, m - 1)
            /\ c \in W <=> c \in E
<1>1. \A p \in E : p[1] \in Nat /\ p[2] \in Nat
  OBVIOUS
<1> QED
  BY <1>1 DEF Within, Corner, OffRow, OffColumn, OffBoth

LEMMA FirstCorner ==
  ASSUME NEW E \in SUBSET (Nat \X Nat), NEW i \in Nat, NEW n \in Nat, NEW j \in Nat, NEW m \in Nat,
         i < n, j < m
  PROVE  LET W == Within(E, i, n, j, m)  c == <<i + 1, j + 1>>
         IN /\ Corner(c, W)
            /\ OffRow(W, c) = Within(E, i + 1, n, j, m)
            /\ OffColumn(W, c) = Within(E, i, n, j + 1, m)
            /\ OffBoth(W, c) = Within(E, i + 1, n, j + 1, m)
            /\ c \in W <=> c \in E
<1>1. \A p \in E : p[1] \in Nat /\ p[2] \in Nat
  OBVIOUS
<1> QED
  BY <1>1 DEF Within, Corner, OffRow, OffColumn, OffBoth

LEMMA WithinPriced ==
  ASSUME NEW g, NEW E, Priced(g, E), NEW i, NEW n, NEW j, NEW m
  PROVE  Priced(g, Within(E, i, n, j, m)) /\ Within(E, i, n, j, m) \in SUBSET E
<1>1. Within(E, i, n, j, m) \in SUBSET E
  BY DEF Within
<1> QED
  BY <1>1, PricedPart

LEMMA WithinNothing ==
  ASSUME NEW E \in SUBSET (Nat \X Nat), NEW i \in Nat, NEW n \in Nat, NEW j \in Nat, NEW m \in Nat,
         i >= n \/ j >= m
  PROVE  Within(E, i, n, j, m) = {}
<1>1. \A p \in E : p[1] \in Nat /\ p[2] \in Nat
  OBVIOUS
<1> QED
  BY <1>1 DEF Within

\* Common ends are part of a cheapest matching when their pairs are the cheapest.
LEMMA TakeLast ==
  ASSUME NEW g, NEW E, Priced(g, E), NEW v,
         NEW i \in Nat, NEW n \in Nat, NEW j \in Nat, NEW m \in Nat, i < n, j < m,
         <<n, m>> \in E, NEW c \in Int, c <= 0, g[<<n, m>>] = c, \A e \in E : c <= g[e],
         Cheapest(v, g, Within(E, i, n - 1, j, m - 1))
  PROVE  Cheapest(v + c, g, Within(E, i, n, j, m))
<1>1. PICK W : W = Within(E, i, n, j, m)
  OBVIOUS
<1>2. PICK x : x = <<n, m>>
  OBVIOUS
<1>3. /\ Corner(x, W) /\ OffBoth(W, x) = Within(E, i, n - 1, j, m - 1) /\ x \in W
  <2>1. E \in SUBSET (Nat \X Nat)
    BY DEF Priced
  <2> QED
    BY <1>1, <1>2, <2>1, LastCorner
<1>4. Priced(g, W) /\ W \in SUBSET E
  BY <1>1, WithinPriced
<1>5. g[x] = c /\ g[x] <= 0 /\ \A e \in W : g[x] <= g[e]
  BY <1>2, <1>4
<1>6. Cheapest(v, g, OffBoth(W, x))
  BY <1>3
<1>7. Cheapest(v + g[x], g, W)
  BY <1>3, <1>4, <1>5, <1>6, CornerTaken
<1> QED
  BY <1>1, <1>5, <1>7

LEMMA TakeFirst ==
  ASSUME NEW g, NEW E, Priced(g, E), NEW v,
         NEW i \in Nat, NEW n \in Nat, NEW j \in Nat, NEW m \in Nat, i < n, j < m,
         <<i + 1, j + 1>> \in E, NEW c \in Int, c <= 0, g[<<i + 1, j + 1>>] = c, \A e \in E : c <= g[e],
         Cheapest(v, g, Within(E, i + 1, n, j + 1, m))
  PROVE  Cheapest(v + c, g, Within(E, i, n, j, m))
<1>1. PICK W : W = Within(E, i, n, j, m)
  OBVIOUS
<1>2. PICK x : x = <<i + 1, j + 1>>
  OBVIOUS
<1>3. /\ Corner(x, W) /\ OffBoth(W, x) = Within(E, i + 1, n, j + 1, m) /\ x \in W
  <2>1. E \in SUBSET (Nat \X Nat)
    BY DEF Priced
  <2> QED
    BY <1>1, <1>2, <2>1, FirstCorner
<1>4. Priced(g, W) /\ W \in SUBSET E
  BY <1>1, WithinPriced
<1>5. g[x] = c /\ g[x] <= 0 /\ \A e \in W : g[x] <= g[e]
  BY <1>2, <1>4
<1>6. Cheapest(v, g, OffBoth(W, x))
  BY <1>3
<1>7. Cheapest(v + g[x], g, W)
  BY <1>3, <1>4, <1>5, <1>6, CornerTaken
<1> QED
  BY <1>1, <1>5, <1>7

LEMMA AddEnds ==
  ASSUME NEW g, NEW E, Priced(g, E), NEW v, NEW n \in Nat, NEW m \in Nat,
         NEW p \in Nat, NEW q \in Nat, p + q <= n, p + q <= m,
         NEW c \in Int, c <= 0, \A e \in E : c <= g[e],
         \A k \in 1..p : <<k, k>> \in E /\ g[<<k, k>>] = c,
         \A k \in 1..q : <<n - q + k, m - q + k>> \in E /\ g[<<n - q + k, m - q + k>>] = c,
         Cheapest(v, g, Within(E, p, n - q, p, m - q))
  PROVE  Cheapest(v + c * (p + q), g, Within(E, 0, n, 0, m))
<1> DEFINE S == {k \in 0..p : Cheapest(v + c * k, g, Within(E, p - k, n - q, p - k, m - q))}
           T == {k \in 0..q : Cheapest(v + c * p + c * k, g, Within(E, 0, n - q + k, 0, m - q + k))}
<1>1. v \in Int
  BY WithinPriced, CheapestType
<1>2. \A x \in Int : \A k \in Int : x + c * (k - 1) + c = x + c * k /\ c * k \in Int
  OBVIOUS
<1>3. 0 \in S
  <2>1. v + c * 0 = v /\ p - 0 = p /\ 0 \in 0..p
    BY <1>1
  <2> QED
    BY <2>1
<1>4. ASSUME NEW k \in 1..p, k - 1 \in S
      PROVE  k \in S
  <2>1. PICK i \in Nat : i = p - k
    OBVIOUS
  <2>2. i + 1 = p - (k - 1) /\ i + 1 \in 1..p /\ i < n - q /\ i < m - q /\ n - q \in Nat /\ m - q \in Nat
    BY <2>1
  <2>3. Cheapest(v + c * (k - 1), g, Within(E, i + 1, n - q, i + 1, m - q))
    BY <1>4, <2>2
  <2>4. <<i + 1, i + 1>> \in E /\ g[<<i + 1, i + 1>>] = c
    BY <2>2
  <2>5. Cheapest(v + c * (k - 1) + c, g, Within(E, i, n - q, i, m - q))
    BY <2>2, <2>3, <2>4, TakeFirst
  <2>6. v + c * (k - 1) + c = v + c * k
    BY <1>1, <1>2
  <2> QED
    BY <2>1, <2>5, <2>6
<1>5. p \in S
  <2>1. p \in 0..p
    OBVIOUS
  <2> HIDE DEF S
  <2> QED
    BY <1>3, <1>4, <2>1, CountingUp
<1>6. Cheapest(v + c * p, g, Within(E, 0, n - q, 0, m - q))
  <2>1. p - p = 0
    OBVIOUS
  <2> QED
    BY <1>5, <2>1
<1>7. 0 \in T
  <2>1. v + c * p + c * 0 = v + c * p /\ n - q + 0 = n - q /\ m - q + 0 = m - q /\ 0 \in 0..q
    BY <1>1, <1>2
  <2> QED
    BY <1>6, <2>1
<1>8. ASSUME NEW k \in 1..q, k - 1 \in T
      PROVE  k \in T
  <2>1. PICK a \in Nat : a = n - q + k
    OBVIOUS
  <2>2. PICK b \in Nat : b = m - q + k
    OBVIOUS
  <2>3. a - 1 = n - q + (k - 1) /\ b - 1 = m - q + (k - 1) /\ 0 < a /\ 0 < b /\ 0 \in Nat
    BY <2>1, <2>2
  <2>4. Cheapest(v + c * p + c * (k - 1), g, Within(E, 0, a - 1, 0, b - 1))
    BY <1>8, <2>3
  <2>5. <<a, b>> \in E /\ g[<<a, b>>] = c
    BY <2>1, <2>2
  <2>6. Cheapest(v + c * p + c * (k - 1) + c, g, Within(E, 0, a, 0, b))
    BY <2>3, <2>4, <2>5, TakeLast
  <2>7. v + c * p + c * (k - 1) + c = v + c * p + c * k
    BY <1>1, <1>2
  <2> QED
    BY <2>1, <2>2, <2>6, <2>7
<1>9. q \in T
  <2>1. q \in 0..q
    OBVIOUS
  <2> HIDE DEF T
  <2> QED
    BY <1>7, <1>8, <2>1, CountingUp
<1>10. Cheapest(v + c * p + c * q, g, Within(E, 0, n, 0, m))
  <2>1. n - q + q = n /\ m - q + q = m
    OBVIOUS
  <2> QED
    BY <1>9, <2>1
<1>11. v + c * p + c * q = v + c * (p + q)
  BY <1>1
<1> QED
  BY <1>10, <1>11

-----------------------------------------------------------------------------
(* The longest common subsequence.                                         *)

Grid(n, m) == (0..n) \X (0..m)

LEMMA GridIs ==
  ASSUME NEW n \in Nat, NEW m \in Nat, NEW p \in Grid(n, m)
  PROVE  p[1] \in 0..n /\ p[2] \in 0..m /\ p = <<p[1], p[2]>>
BY DEF Grid

\* How much of both sides follows, or comes before, a position.
Behind(n, m) == [p \in Grid(n, m) |-> (n - p[1]) + (m - p[2])]
Before(n, m) == [p \in Grid(n, m) |-> p[1] + p[2]]

LEMMA RankOfGrid ==
  ASSUME NEW n \in Nat, NEW m \in Nat
  PROVE  /\ n + m \in Nat
         /\ Behind(n, m) \in [Grid(n, m) -> 0..(n + m)]
         /\ Before(n, m) \in [Grid(n, m) -> 0..(n + m)]
         /\ \A p \in Grid(n, m) : \A q \in Grid(n, m) :
              /\ (p[1] <= q[1] /\ p[2] <= q[2] /\ p # q) => Behind(n, m)[q] < Behind(n, m)[p]
              /\ (p[1] <= q[1] /\ p[2] <= q[2] /\ p # q) => Before(n, m)[p] < Before(n, m)[q]
<1>1. \A p \in Grid(n, m) : p[1] \in 0..n /\ p[2] \in 0..m /\ p = <<p[1], p[2]>>
  BY GridIs
<1>2. PICK D : D = Grid(n, m)
  OBVIOUS
<1>3. \A p \in D : /\ (n - p[1]) + (m - p[2]) \in 0..(n + m)
                   /\ p[1] + p[2] \in 0..(n + m)
  BY <1>1, <1>2
<1>4. /\ Behind(n, m) \in [D -> 0..(n + m)] /\ Before(n, m) \in [D -> 0..(n + m)]
      /\ \A p \in D : Behind(n, m)[p] = (n - p[1]) + (m - p[2])
      /\ \A p \in D : Before(n, m)[p] = p[1] + p[2]
  BY <1>2, <1>3 DEF Behind, Before
<1>5. ASSUME NEW p \in D, NEW q \in D, p[1] <= q[1], p[2] <= q[2], p # q
      PROVE  Behind(n, m)[q] < Behind(n, m)[p] /\ Before(n, m)[p] < Before(n, m)[q]
  <2>1. p[1] \in Nat /\ p[2] \in Nat /\ q[1] \in Nat /\ q[2] \in Nat
    BY <1>1, <1>2
  <2>2. p[1] # q[1] \/ p[2] # q[2]
    BY <1>1, <1>2, <1>5
  <2>3. p[1] + p[2] < q[1] + q[2]
    BY <1>5, <2>1, <2>2
  <2>4. (n - q[1]) + (m - q[2]) < (n - p[1]) + (m - p[2])
    BY <2>1, <2>3
  <2> QED
    BY <1>4, <2>3, <2>4
<1> QED
  BY <1>2, <1>4, <1>5

CommonStep(a, b, f, p) ==
  LET i == p[1]  j == p[2]
  IN IF i = Len(a) \/ j = Len(b) THEN 0
     ELSE IF a[i + 1] = b[j + 1] THEN 1 + f[<<i + 1, j + 1>>]
     ELSE Max2(f[<<i + 1, j>>], f[<<i, j + 1>>])

LEMMA CommonStepLooksAhead ==
  ASSUME NEW A, NEW a \in Seq(A), NEW b \in Seq(A), NEW D, D = Grid(Len(a), Len(b)),
         NEW p \in D, NEW f, NEW h,
         \A q \in Under(D, Behind(Len(a), Len(b)), p) : f[q] = h[q] /\ f[q] \in Nat
  PROVE  CommonStep(a, b, f, p) = CommonStep(a, b, h, p) /\ CommonStep(a, b, f, p) \in Nat
<1>1. Len(a) \in Nat /\ Len(b) \in Nat
  OBVIOUS
<1>2. p[1] \in 0..Len(a) /\ p[2] \in 0..Len(b) /\ p = <<p[1], p[2]>>
  BY <1>1, GridIs
<1>3. CASE p[1] = Len(a) \/ p[2] = Len(b)
  BY <1>3 DEF CommonStep
<1>4. CASE p[1] # Len(a) /\ p[2] # Len(b)
  <2>1. PICK i \in Nat, j \in Nat : p = <<i, j>> /\ i < Len(a) /\ j < Len(b)
    BY <1>1, <1>2, <1>4
  <2>2. ASSUME NEW q \in D, q = <<i + 1, j + 1>> \/ q = <<i + 1, j>> \/ q = <<i, j + 1>>
        PROVE  q \in Under(D, Behind(Len(a), Len(b)), p)
    <3>1. p[1] <= q[1] /\ p[2] <= q[2] /\ p # q
      BY <2>1, <2>2
    <3> QED
      BY <1>1, <3>1, RankOfGrid DEF Under
  <2>3. <<i + 1, j + 1>> \in D /\ <<i + 1, j>> \in D /\ <<i, j + 1>> \in D
    BY <1>1, <2>1 DEF Grid
  <2>4. /\ f[<<i + 1, j + 1>>] = h[<<i + 1, j + 1>>] /\ f[<<i + 1, j + 1>>] \in Nat
        /\ f[<<i + 1, j>>] = h[<<i + 1, j>>] /\ f[<<i + 1, j>>] \in Nat
        /\ f[<<i, j + 1>>] = h[<<i, j + 1>>] /\ f[<<i, j + 1>>] \in Nat
    BY <2>2, <2>3
  <2>5. p[1] = i /\ p[2] = j
    BY <2>1
  <2> QED
    BY <2>4, <2>5 DEF CommonStep, Max2
<1> QED
  BY <1>3, <1>4

IsCommon(f, a, b) ==
  /\ f \in [Grid(Len(a), Len(b)) -> Nat]
  /\ \A p \in Grid(Len(a), Len(b)) : f[p] = CommonStep(a, b, f, p)

LEMMA CommonExists ==
  ASSUME NEW A, NEW a \in Seq(A), NEW b \in Seq(A)
  PROVE  \E f : IsCommon(f, a, b)
<1>1. Len(a) \in Nat /\ Len(b) \in Nat
  OBVIOUS
<1>2. PICK D : D = Grid(Len(a), Len(b))
  OBVIOUS
<1>3. PICK rank : rank = Behind(Len(a), Len(b))
  OBVIOUS
<1>4. PICK N \in Nat : N = Len(a) + Len(b)
  BY <1>1
<1>5. rank \in [D -> 0..N]
  BY <1>1, <1>2, <1>3, <1>4, RankOfGrid
<1>6. PICK V : V = Nat
  OBVIOUS
<1>7. PICK Dom : Dom = (UNION {[Under(D, rank, p) -> V] : p \in D}) \X D
  OBVIOUS
<1> DEFINE step == [x \in Dom |-> CommonStep(a, b, x[1], x[2])]
<1>8. ASSUME NEW p \in D, NEW h \in [Under(D, rank, p) -> V]
      PROVE  step[<<h, p>>] = CommonStep(a, b, h, p) /\ step[<<h, p>>] \in V
  <2>1. PICK x : x = <<h, p>>
    OBVIOUS
  <2>2. x \in Dom /\ x[1] = h /\ x[2] = p
    BY <1>7, <2>1
  <2>3. step[x] = CommonStep(a, b, x[1], x[2])
    BY <2>2
  <2>4. CommonStep(a, b, h, p) \in Nat
    <3>1. \A q \in Under(D, Behind(Len(a), Len(b)), p) : h[q] = h[q] /\ h[q] \in Nat
      BY <1>3, <1>6
    <3> QED
      BY <1>2, <3>1, CommonStepLooksAhead
  <2> HIDE DEF step
  <2> QED
    BY <1>6, <2>1, <2>2, <2>3, <2>4
<1>9. Typed(D, V, rank, step)
  <2> HIDE DEF step
  <2> QED
    BY <1>8 DEF Typed
<1>10. PICK f : Solves(f, D, D, V, rank, step)
  <2> HIDE DEF step
  <2> QED
    BY <1>5, <1>9, RecursionExists
<1>11. ASSUME NEW p \in D
       PROVE  f[p] = CommonStep(a, b, f, p)
  <2>1. PICK h : h = Known(f, D, rank, p)
    OBVIOUS
  <2>2. Under(D, rank, p) \subseteq D /\ f \in [D -> V]
    BY <1>10 DEF Under, Solves
  <2>3. h \in [Under(D, rank, p) -> V] /\ \A q \in Under(D, rank, p) : h[q] = f[q] /\ h[q] \in V
    BY <2>1, <2>2 DEF Known
  <2>4. f[p] = step[<<h, p>>]
    BY <1>10, <2>1 DEF Solves
  <2>5. step[<<h, p>>] = CommonStep(a, b, h, p)
    BY <1>8, <2>3
  <2>6. CommonStep(a, b, h, p) = CommonStep(a, b, f, p)
    <3>1. \A q \in Under(D, Behind(Len(a), Len(b)), p) : h[q] = f[q] /\ h[q] \in Nat
      BY <1>3, <1>6, <2>3
    <3> HIDE DEF step
    <3> QED
      BY <1>2, <3>1, CommonStepLooksAhead
  <2> HIDE DEF step
  <2> QED
    BY <2>4, <2>5, <2>6
<1>12. f \in [D -> Nat]
  BY <1>6, <1>10 DEF Solves
<1> QED
  BY <1>2, <1>11, <1>12 DEF IsCommon

LEMMA CommonAfterIs ==
  ASSUME NEW A, NEW a \in Seq(A), NEW b \in Seq(A)
  PROVE  IsCommon(CommonAfter(a, b), a, b)
<1>1. PICK D : D = Grid(Len(a), Len(b))
  OBVIOUS
<1> DEFINE Eq(f) == f = [p \in D |-> CommonStep(a, b, f, p)]
<1>2. CommonAfter(a, b) = CHOOSE f : Eq(f)
  BY <1>1 DEF CommonAfter, CommonStep, Grid
<1>3. PICK f : IsCommon(f, a, b)
  BY CommonExists
<1>4. Eq(f)
  BY <1>1, <1>3 DEF IsCommon
<1>5. PICK F : F = CommonAfter(a, b)
  OBVIOUS
<1>6. Eq(F)
  <2> HIDE DEF Eq
  <2> QED
    BY <1>2, <1>4, <1>5
<1>7. PICK rank : rank = Behind(Len(a), Len(b))
  OBVIOUS
<1>8. rank \in [D -> Nat]
  BY <1>1, <1>7, RankOfGrid
<1>9. ASSUME NEW p \in D, \A q \in Under(D, rank, p) : f[q] = F[q]
      PROVE  f[p] = F[p]
  <2>1. \A q \in Under(D, Behind(Len(a), Len(b)), p) : f[q] = F[q] /\ f[q] \in Nat
    BY <1>1, <1>3, <1>7, <1>9 DEF IsCommon, Under
  <2>2. CommonStep(a, b, f, p) = CommonStep(a, b, F, p)
    BY <1>1, <2>1, CommonStepLooksAhead
  <2> QED
    BY <1>4, <1>6, <2>2
<1>10. f = F
  <2>1. IsFcn(f, D) /\ IsFcn(F, D)
    BY <1>4, <1>6 DEF IsFcn
  <2>2. Settled(f, F, D, rank)
    BY <1>9 DEF Settled
  <2> QED
    BY <1>8, <2>1, <2>2, OneSolution
<1> QED
  BY <1>3, <1>5, <1>10

\* The pairs of equal elements, each of which counts for one.
Pairs(n, m) == (1..n) \X (1..m)
EqualPairs(a, b) == {e \in Pairs(Len(a), Len(b)) : a[e[1]] = b[e[2]]}
CountDown(n, m) == [e \in Pairs(n, m) |-> -1]

LEMMA PairsAre ==
  ASSUME NEW n \in Nat, NEW m \in Nat
  PROVE  /\ IsFiniteSet(Pairs(n, m)) /\ Pairs(n, m) \in SUBSET (Nat \X Nat)
         /\ \A e \in Pairs(n, m) : e[1] \in 1..n /\ e[2] \in 1..m /\ e = <<e[1], e[2]>>
<1>1. IsFiniteSet(1..n) /\ IsFiniteSet(1..m)
  BY FS_Interval
<1>2. IsFiniteSet(Pairs(n, m))
  BY <1>1, FS_Product DEF Pairs
<1> QED
  BY <1>2 DEF Pairs

LEMMA CountsDown ==
  ASSUME NEW n \in Nat, NEW m \in Nat, NEW E \in SUBSET Pairs(n, m)
  PROVE  Priced(CountDown(n, m), E) /\ \A e \in E : CountDown(n, m)[e] = -1
<1>1. IsFiniteSet(E) /\ E \in SUBSET (Nat \X Nat)
  BY PairsAre, FS_Subset
<1>2. \A e \in E : CountDown(n, m)[e] = -1
  BY DEF CountDown
<1> QED
  BY <1>1, <1>2 DEF Priced

LEMMA WholeWithin ==
  ASSUME NEW n \in Nat, NEW m \in Nat, NEW E \in SUBSET Pairs(n, m)
  PROVE  Within(E, 0, n, 0, m) = E
<1>1. \A e \in E : e[1] \in 1..n /\ e[2] \in 1..m
  BY PairsAre
<1> QED
  BY <1>1 DEF Within

\* Of the middles of two texts.
IsMiddle(x, a, p, q) == Len(x) = Len(a) - p - q /\ \A k \in 1..Len(x) : x[k] = a[p + k]

LEMMA MiddleIs ==
  ASSUME NEW A, NEW s \in Seq(A), NEW p \in Nat, NEW q \in Nat, p + q <= Len(s)
  PROVE  IsMiddle(SubSeq(s, p + 1, Len(s) - q), s, p, q) /\ SubSeq(s, p + 1, Len(s) - q) \in Seq(A)
<1>1. PICK t : t = SubSeq(s, p + 1, Len(s) - q)
  OBVIOUS
<1>2. /\ t \in Seq(A) /\ Len(t) = Len(s) - p - q
      /\ \A k \in 1..(Len(s) - p - q) : t[k] = s[p + k]
  BY <1>1, Middle
<1> QED
  BY <1>1, <1>2 DEF IsMiddle

LEMMA CommonIsMost ==
  ASSUME NEW A, NEW a \in Seq(A), NEW b \in Seq(A), NEW x \in Seq(A), NEW y \in Seq(A),
         NEW p \in Nat, NEW q \in Nat, p + q <= Len(a), p + q <= Len(b),
         IsMiddle(x, a, p, q), IsMiddle(y, b, p, q), NEW f, IsCommon(f, x, y)
  PROVE  Cheapest(0 - f[<<0, 0>>], CountDown(Len(a), Len(b)),
                  Within(EqualPairs(a, b), p, Len(a) - q, p, Len(b) - q))
<1>1. Len(a) \in Nat /\ Len(b) \in Nat /\ Len(x) \in Nat /\ Len(y) \in Nat
  OBVIOUS
<1>15. PICK la \in Nat, lb \in Nat, lx \in Nat, ly \in Nat :
         la = Len(a) /\ lb = Len(b) /\ lx = Len(x) /\ ly = Len(y)
  BY <1>1
<1>16. lx = la - p - q /\ ly = lb - p - q /\ p + q <= la /\ p + q <= lb
  BY <1>15 DEF IsMiddle
<1>17. /\ \A k \in 1..lx : x[k] = a[p + k]
       /\ \A k \in 1..ly : y[k] = b[p + k]
  BY <1>15 DEF IsMiddle
<1>2. PICK n \in Nat : n = la - q
  BY <1>16
<1>3. PICK m \in Nat : m = lb - q
  BY <1>16
<1>4. PICK g : g = CountDown(Len(a), Len(b))
  OBVIOUS
<1>5. PICK E : E = EqualPairs(a, b)
  OBVIOUS
<1>6. E \in SUBSET Pairs(Len(a), Len(b)) /\ E \in SUBSET (Nat \X Nat)
      /\ Priced(g, E) /\ \A e \in E : g[e] = -1
  <2>1. E \in SUBSET Pairs(Len(a), Len(b))
    BY <1>5 DEF EqualPairs
  <2> QED
    BY <1>1, <1>4, <2>1, CountsDown, PairsAre
<1>7. PICK D : D = Grid(Len(x), Len(y))
  OBVIOUS
<1>8. PICK rank : rank = Behind(Len(x), Len(y))
  OBVIOUS
<1>9. rank \in [D -> Nat]
  <2>1. PICK N \in Nat : N = Len(x) + Len(y)
    BY <1>1
  <2>2. rank \in [D -> 0..N]
    BY <1>1, <1>7, <1>8, <2>1, RankOfGrid
  <2> QED
    BY <2>2
<1> DEFINE Good(w) == Cheapest(0 - f[w], g, Within(E, p + w[1], n, p + w[2], m))
           S == {w \in D : Good(w)}
<1>10. ASSUME NEW w \in D, \A u \in D : rank[u] < rank[w] => u \in S
       PROVE  w \in S
  <2>1. w[1] \in 0..Len(x) /\ w[2] \in 0..Len(y) /\ w = <<w[1], w[2]>>
    BY <1>1, <1>7, GridIs
  <2>2. PICK i \in 0..Len(x), j \in 0..Len(y) : w = <<i, j>> /\ w[1] = i /\ w[2] = j
    BY <2>1
  <2>3. f[w] = CommonStep(x, y, f, w)
    BY <1>7 DEF IsCommon
  <2>4. PICK I \in Nat : I = p + i
    BY <1>1
  <2>5. PICK J \in Nat : J = p + j
    BY <1>1
  <2>6. PICK W : W = Within(E, I, n, J, m)
    OBVIOUS
  <2>7. Priced(g, W)
    BY <1>6, <2>6, WithinPriced
  <2>8. SUFFICES Cheapest(0 - f[w], g, W)
    BY <2>2, <2>4, <2>5, <2>6
  <2>9. CASE i = Len(x) \/ j = Len(y)
    <3>1. f[w] = 0
      BY <2>2, <2>3, <2>9 DEF CommonStep
    <3>2. I >= n \/ J >= m
      BY <1>15, <1>16, <1>2, <1>3, <2>4, <2>5, <2>9
    <3>3. W = {}
      BY <1>6, <2>6, <3>2, WithinNothing
    <3>4. PICK v \in Int : v = f[w] /\ v = 0
      BY <3>1
    <3>5. 0 - v = 0
      BY <3>4
    <3> QED
      BY <3>3, <3>4, <3>5, NothingToMatch
  <2>10. CASE i # Len(x) /\ j # Len(y)
    <3>12. i < lx /\ j < ly /\ i \in Nat /\ j \in Nat
      BY <1>15, <2>10
    <3>1. I < n /\ J < m /\ i < Len(x) /\ j < Len(y)
      BY <1>15, <1>16, <1>2, <1>3, <2>4, <2>5, <3>12
    <3>2. ASSUME NEW u \in D, u = <<i + 1, j + 1>> \/ u = <<i + 1, j>> \/ u = <<i, j + 1>>
          PROVE  Good(u) /\ f[u] \in Nat
      <4>1. w[1] <= u[1] /\ w[2] <= u[2] /\ w # u
        BY <2>2, <3>2
      <4>2. rank[u] < rank[w]
        BY <1>1, <1>7, <1>8, <4>1, RankOfGrid
      <4>3. f[u] \in Nat
        BY <1>7 DEF IsCommon
      <4> QED
        BY <1>10, <4>2, <4>3
    <3>3. <<i + 1, j + 1>> \in D /\ <<i + 1, j>> \in D /\ <<i, j + 1>> \in D
      <4>1. i \in 0..lx /\ j \in 0..ly /\ i + 1 \in 0..lx /\ j + 1 \in 0..ly
        BY <3>12
      <4>2. D = (0..lx) \X (0..ly)
        BY <1>7, <1>15 DEF Grid
      <4> QED
        BY <4>1, <4>2
    <3>4. p + (i + 1) = I + 1 /\ p + (j + 1) = J + 1
      BY <1>1, <2>4, <2>5
    <3>5. PICK c : c = <<I + 1, J + 1>>
      OBVIOUS
    <3>6. /\ Corner(c, W)
          /\ OffRow(W, c) = Within(E, I + 1, n, J, m)
          /\ OffColumn(W, c) = Within(E, I, n, J + 1, m)
          /\ c \in W <=> c \in E
      BY SMTT(30), <1>6, <2>6, <3>1, <3>5, FirstCorner
    <3>7. i + 1 \in 1..lx /\ j + 1 \in 1..ly
      BY <3>12
    <3>8. x[i + 1] = a[I + 1] /\ y[j + 1] = b[J + 1]
      <4>1. x[i + 1] = a[p + (i + 1)] /\ y[j + 1] = b[p + (j + 1)]
        BY <1>17, <3>7
      <4> QED
        BY <3>4, <4>1
    <3>9. c \in E <=> x[i + 1] = y[j + 1]
      <4>1. I + 1 \in 1..Len(a) /\ J + 1 \in 1..Len(b)
        <5>1. I + 1 \in 1..la /\ J + 1 \in 1..lb
          BY <1>2, <1>3, <3>1
        <5> QED
          BY <1>15, <5>1
      <4> QED
        BY <1>5, <3>5, <3>8, <4>1 DEF EqualPairs, Pairs
    <3>10. CASE x[i + 1] = y[j + 1]
      <4>1. f[w] = 1 + f[<<i + 1, j + 1>>]
        BY <2>2, <2>3, <2>10, <3>10 DEF CommonStep
      <4>2. PICK v \in Nat : v = f[<<i + 1, j + 1>>]
        BY <3>2, <3>3
      <4>3. Good(<<i + 1, j + 1>>)
        BY <3>2, <3>3
      <4>4. Cheapest(0 - v, g, Within(E, I + 1, n, J + 1, m))
        BY <3>4, <4>2, <4>3
      <4>5. PICK d \in Int : d = -1
        OBVIOUS
      <4>6. <<I + 1, J + 1>> \in E /\ g[<<I + 1, J + 1>>] = d /\ d <= 0 /\ \A e \in E : d <= g[e]
        <5>1. c \in E
          BY <3>9, <3>10
        <5>2. \A e \in E : g[e] = d
          BY <1>6, <4>5
        <5>3. d <= 0 /\ d <= d
          BY <4>5
        <5> QED
          BY <3>5, <5>1, <5>2, <5>3
      <4>7. Cheapest(0 - v + d, g, W)
        BY <1>6, <2>6, <3>1, <4>4, <4>6, TakeFirst
      <4>8. 0 - v + d = 0 - f[w]
        BY SMTT(30), <4>1, <4>2, <4>5
      <4> QED
        BY <4>7, <4>8
    <3>11. CASE x[i + 1] # y[j + 1]
      <4>1. f[w] = Max2(f[<<i + 1, j>>], f[<<i, j + 1>>])
        BY <2>2, <2>3, <2>10, <3>11 DEF CommonStep
      <4>2. PICK v \in Nat : v = f[<<i + 1, j>>]
        BY <3>2, <3>3
      <4>3. PICK z \in Nat : z = f[<<i, j + 1>>]
        BY <3>2, <3>3
      <4>4. Good(<<i + 1, j>>) /\ Good(<<i, j + 1>>)
        BY <3>2, <3>3
      <4>5. Cheapest(0 - v, g, OffRow(W, c)) /\ Cheapest(0 - z, g, OffColumn(W, c))
        BY <2>4, <2>5, <3>4, <3>6, <4>2, <4>3, <4>4
      <4>6. c \notin W
        BY <3>6, <3>9, <3>11
      <4>7. Cheapest(Lesser(0 - v, 0 - z), g, W)
        BY <2>7, <3>6, <4>5, <4>6, CornerOut
      <4>8. Lesser(0 - v, 0 - z) = 0 - f[w]
        <5>1. PICK h : h = f[w]
          OBVIOUS
        <5>2. h = Max2(v, z)
          BY <4>1, <4>2, <4>3, <5>1
        <5>3. Lesser(0 - v, 0 - z) = 0 - h
          BY <5>2 DEF Lesser, Max2
        <5> QED
          BY <5>1, <5>3
      <4> QED
        BY <4>7, <4>8
    <3> QED
      BY <3>10, <3>11
  <2> QED
    BY <2>9, <2>10
<1>11. \A w \in D : w \in S
  <2> HIDE DEF S
  <2> QED
    BY <1>9, <1>10, RankInduction
<1>12. <<0, 0>> \in D
  BY <1>1, <1>7 DEF Grid
<1>13. Good(<<0, 0>>)
  BY <1>11, <1>12
<1>14. p + 0 = p /\ n = Len(a) - q /\ m = Len(b) - q
  BY <1>2, <1>3, <1>15
<1> QED
  BY <1>4, <1>5, <1>13, <1>14

\* What Ratio counts.
CommonCount(a, b) ==
  LET rest == Strip(a, b)
  IN rest.prefix + rest.suffix + CommonAfter(rest.a, rest.b)[<<0, 0>>]

LEMMA CommonCountIsMost ==
  ASSUME NEW A, NEW a \in Seq(A), NEW b \in Seq(A)
  PROVE  /\ CommonCount(a, b) \in Nat
         /\ Cheapest(0 - CommonCount(a, b), CountDown(Len(a), Len(b)), EqualPairs(a, b))
<1>1. PICK s : s = Strip(a, b)
  OBVIOUS
<1>2. Ends(s, a, b)
  BY <1>1, StripIs
<1>3. PICK p \in Nat, q \in Nat : p = s.prefix /\ q = s.suffix
  BY <1>2 DEF Ends
<1>4. p + q <= Len(a) /\ p + q <= Len(b) /\ Len(a) \in Nat /\ Len(b) \in Nat
  <2>1. Len(a) \in Nat /\ Len(b) \in Nat
    OBVIOUS
  <2> QED
    BY <1>2, <1>3, <2>1 DEF Ends
<1>5. IsMiddle(s.a, a, p, q) /\ s.a \in Seq(A) /\ IsMiddle(s.b, b, p, q) /\ s.b \in Seq(A)
  BY <1>2, <1>3, <1>4, MiddleIs DEF Ends
<1>6. PICK f : f = CommonAfter(s.a, s.b)
  OBVIOUS
<1>7. IsCommon(f, s.a, s.b)
  BY <1>5, <1>6, CommonAfterIs
<1>8. PICK v \in Nat : v = f[<<0, 0>>]
  <2>1. <<0, 0>> \in Grid(Len(s.a), Len(s.b))
    BY <1>5 DEF Grid
  <2> QED
    BY <1>7, <2>1 DEF IsCommon
<1>9. PICK g : g = CountDown(Len(a), Len(b))
  OBVIOUS
<1>10. PICK E : E = EqualPairs(a, b)
  OBVIOUS
<1>11. E \in SUBSET Pairs(Len(a), Len(b))
  BY <1>10 DEF EqualPairs
<1>12. Priced(g, E) /\ \A e \in E : g[e] = -1
  BY <1>4, <1>9, <1>11, CountsDown
<1>13. PICK n \in Nat, m \in Nat : n = Len(a) /\ m = Len(b)
  BY <1>4
<1>14. Cheapest(0 - v, g, Within(E, p, n - q, p, m - q))
  BY <1>4, <1>5, <1>7, <1>8, <1>9, <1>10, <1>13, CommonIsMost
<1>15. PICK c \in Int : c = -1
  OBVIOUS
<1>16. \A k \in 1..p : <<k, k>> \in E /\ g[<<k, k>>] = c
  <2>1. ASSUME NEW k \in 1..p
        PROVE  <<k, k>> \in E
    <3>1. a[k] = b[k]
      BY <1>2, <1>3 DEF Ends
    <3>2. k \in 1..Len(a) /\ k \in 1..Len(b)
      BY <1>4
    <3> QED
      BY <1>10, <3>1, <3>2 DEF EqualPairs, Pairs
  <2> QED
    BY <1>12, <1>15, <2>1
<1>17. \A k \in 1..q : <<n - q + k, m - q + k>> \in E /\ g[<<n - q + k, m - q + k>>] = c
  <2>1. ASSUME NEW k \in 1..q
        PROVE  <<n - q + k, m - q + k>> \in E
    <3>1. a[n - q + k] = b[m - q + k]
      BY <1>2, <1>3, <1>13 DEF Ends
    <3>2. n - q + k \in 1..Len(a) /\ m - q + k \in 1..Len(b)
      BY <1>4, <1>13
    <3> QED
      BY <1>10, <3>1, <3>2 DEF EqualPairs, Pairs
  <2> QED
    BY <1>12, <1>15, <2>1
<1>18. c <= 0 /\ \A e \in E : c <= g[e]
  BY <1>12, <1>15
<1>19. Cheapest(0 - v + c * (p + q), g, Within(E, 0, n, 0, m))
  BY <1>4, <1>12, <1>13, <1>14, <1>16, <1>17, <1>18, AddEnds
<1>20. Within(E, 0, n, 0, m) = E
  BY <1>11, <1>13, WholeWithin
<1>21. CommonCount(a, b) = p + q + v
  BY <1>1, <1>3, <1>6, <1>8 DEF CommonCount
<1>22. 0 - v + c * (p + q) = 0 - (p + q + v)
  BY <1>15
<1> QED
  BY <1>9, <1>10, <1>19, <1>20, <1>21, <1>22

-----------------------------------------------------------------------------
(* How alike two texts are.                                                *)

LEMMA MaxIs ==
  ASSUME NEW S \in SUBSET Int, NEW m \in S, \A x \in S : x <= m
  PROVE  Max(S) = m
<1>1. \A x \in S : m >= x
  OBVIOUS
<1>2. PICK x : x = Max(S)
  OBVIOUS
<1>3. x \in S /\ \A y \in S : x >= y
  BY <1>1, <1>2 DEF Max
<1>4. x >= m /\ m >= x /\ x \in Int /\ m \in Int
  BY <1>1, <1>3
<1> QED
  BY <1>2, <1>4

LEMMA MinIs ==
  ASSUME NEW S \in SUBSET Int, NEW m \in S, \A x \in S : m <= x
  PROVE  Min(S) = m
<1>1. PICK x : x = Min(S)
  OBVIOUS
<1>2. x \in S /\ \A y \in S : x <= y
  BY <1>1 DEF Min
<1>3. x >= m /\ m >= x /\ x \in Int /\ m \in Int
  BY <1>2
<1> QED
  BY <1>1, <1>3

LEMMA MatchingsAre ==
  ASSUME NEW n \in 0..Longest, NEW m \in 0..Longest
  PROVE  Matchings[<<n, m>>] = Ways(Pairs(n, m))
<1>1. PICK s : s = <<n, m>>
  OBVIOUS
<1>2. s \in (0..Longest) \X (0..Longest) /\ s[1] = n /\ s[2] = m
  BY <1>1
<1>3. Matchings[s] = {S \in SUBSET ((1..s[1]) \X (1..s[2])) :
        \A p, q \in S : p # q => (p[1] < q[1] /\ p[2] < q[2]) \/ (q[1] < p[1] /\ q[2] < p[2])}
  BY <1>2 DEF Matchings
<1> QED
  BY <1>1, <1>2, <1>3 DEF Ways, InOrder, Pairs

LEMMA MatchingsOfEqual ==
  ASSUME NEW A, NEW a \in Seq(A), NEW b \in Seq(A), Len(a) \in 0..Longest, Len(b) \in 0..Longest
  PROVE  {S \in Matchings[<<Len(a), Len(b)>>] : \A p \in S : a[p[1]] = b[p[2]]} = Ways(EqualPairs(a, b))
<1>1. Matchings[<<Len(a), Len(b)>>] = Ways(Pairs(Len(a), Len(b)))
  BY MatchingsAre
<1> QED
  BY <1>1 DEF Ways, EqualPairs

LEMMA CommonLengthIs ==
  ASSUME NEW A, NEW a \in Seq(A), NEW b \in Seq(A), Len(a) \in 0..Longest, Len(b) \in 0..Longest
  PROVE  CommonLength(a, b) = CommonCount(a, b) /\ CommonCount(a, b) \in Nat
<1>1. PICK g : g = CountDown(Len(a), Len(b))
  OBVIOUS
<1>2. PICK E : E = EqualPairs(a, b)
  OBVIOUS
<1>3. PICK v \in Nat : v = CommonCount(a, b)
  BY CommonCountIsMost
<1>4. Cheapest(0 - v, g, E)
  BY <1>1, <1>2, <1>3, CommonCountIsMost
<1>5. Len(a) \in Nat /\ Len(b) \in Nat
  OBVIOUS
<1>6. Priced(g, E) /\ \A e \in E : g[e] = -1
  BY <1>1, <1>2, <1>5, CountsDown DEF EqualPairs
<1>7. PICK c \in Int : c = -1
  OBVIOUS
<1>8. ASSUME NEW S \in Ways(E)
      PROVE  Total(g, S) = 0 - Cardinality(S) /\ Cardinality(S) \in Nat
  <2>1. IsFiniteSet(S) /\ S \in SUBSET E
    BY <1>6, PricedPart DEF Ways
  <2>2. \A z \in S : g[z] = c
    BY <1>6, <1>7, <2>1
  <2>3. Total(g, S) = c * Cardinality(S)
    BY <2>1, <2>2, TotalOfSame
  <2>4. PICK k \in Nat : k = Cardinality(S)
    BY <2>1, FS_CardinalityType
  <2>5. c * k = 0 - k
    BY <1>7
  <2> QED
    BY <2>3, <2>4, <2>5
<1>9. PICK M : M = {Cardinality(S) : S \in Ways(E)}
  OBVIOUS
<1>10. M \in SUBSET Int
  BY <1>8, <1>9
<1>11. v \in M
  <2>1. PICK S \in Ways(E) : 0 - v = Total(g, S)
    BY <1>4 DEF Cheapest
  <2>2. PICK k \in Nat : k = Cardinality(S)
    BY <1>8
  <2>3. 0 - v = 0 - k
    BY <1>8, <2>1, <2>2
  <2>4. v = k
    BY <2>3
  <2> QED
    BY <1>9, <2>2, <2>4
<1>12. ASSUME NEW k \in M
       PROVE  k <= v
  <2>1. PICK S \in Ways(E) : k = Cardinality(S)
    BY <1>9
  <2>2. 0 - v <= Total(g, S)
    BY <1>4 DEF Cheapest
  <2>3. 0 - v <= 0 - k /\ k \in Nat
    BY <1>8, <2>1, <2>2
  <2> QED
    BY <2>3
<1>13. Max(M) = v
  BY <1>10, <1>11, <1>12, MaxIs
<1>14. CommonLength(a, b) = Max(M)
  BY <1>2, <1>9, MatchingsOfEqual DEF CommonLength
<1> QED
  BY <1>3, <1>13, <1>14

\* No text has more in common with another than it has, and all of it only
\* with itself.
Bounded(f, x, y, i, j) ==
  /\ f[<<i, j>>] <= Len(x) - i /\ f[<<i, j>>] <= Len(y) - j
  /\ (f[<<i, j>>] = Len(x) - i /\ f[<<i, j>>] = Len(y) - j) =>
       \A k \in 1..(Len(x) - i) : x[i + k] = y[j + k]

LEMMA CommonIsBounded ==
  ASSUME NEW A, NEW x \in Seq(A), NEW y \in Seq(A), NEW f, IsCommon(f, x, y)
  PROVE  Bounded(f, x, y, 0, 0)
<1>1. PICK lx \in Nat, ly \in Nat : lx = Len(x) /\ ly = Len(y)
  OBVIOUS
<1>2. PICK D : D = Grid(lx, ly)
  OBVIOUS
<1>3. PICK rank : rank = Behind(lx, ly)
  OBVIOUS
<1>4. rank \in [D -> Nat]
  <2>1. PICK N \in Nat : N = lx + ly
    OBVIOUS
  <2>2. rank \in [D -> 0..N]
    BY <1>2, <1>3, <2>1, RankOfGrid
  <2> QED
    BY <2>2
<1> DEFINE S == {w \in D : Bounded(f, x, y, w[1], w[2])}
<1>5. ASSUME NEW w \in D, \A u \in D : rank[u] < rank[w] => u \in S
      PROVE  w \in S
  <2>1. w[1] \in 0..lx /\ w[2] \in 0..ly /\ w = <<w[1], w[2]>>
    BY <1>2, GridIs
  <2>2. PICK i \in 0..lx, j \in 0..ly : w = <<i, j>> /\ w[1] = i /\ w[2] = j
    BY <2>1
  <2>3. PICK v \in Nat : v = f[w]
    BY <1>1, <1>2 DEF IsCommon
  <2>4. v = CommonStep(x, y, f, w)
    BY <1>1, <1>2, <2>3 DEF IsCommon
  <2>5. SUFFICES /\ v <= lx - i /\ v <= ly - j
                 /\ (v = lx - i /\ v = ly - j) => \A k \in 1..(lx - i) : x[i + k] = y[j + k]
    BY <1>1, <2>2, <2>3 DEF Bounded
  <2>6. CASE i = lx \/ j = ly
    <3>1. v = 0
      BY <1>1, <2>2, <2>4, <2>6 DEF CommonStep
    <3> QED
      BY <2>6, <3>1
  <2>7. CASE i # lx /\ j # ly
    <3>1. i + 1 \in 0..lx /\ j + 1 \in 0..ly /\ i \in Nat /\ j \in Nat
      BY <2>7
    <3>2. ASSUME NEW u \in D, u = <<i + 1, j + 1>> \/ u = <<i + 1, j>> \/ u = <<i, j + 1>>
          PROVE  u \in S /\ f[u] \in Nat
      <4>1. w[1] <= u[1] /\ w[2] <= u[2] /\ w # u
        BY <2>2, <3>2
      <4>2. rank[u] < rank[w]
        BY <1>2, <1>3, <4>1, RankOfGrid
      <4>3. f[u] \in Nat
        BY <1>1, <1>2 DEF IsCommon
      <4> QED
        BY <1>5, <4>2, <4>3
    <3>3. <<i + 1, j + 1>> \in D /\ <<i + 1, j>> \in D /\ <<i, j + 1>> \in D
      BY <1>2, <3>1 DEF Grid
    <3>4. CASE x[i + 1] = y[j + 1]
      <4>1. PICK d \in Nat : d = f[<<i + 1, j + 1>>]
        BY <3>2, <3>3
      <4>2. v = 1 + d
        BY <1>1, <2>2, <2>4, <2>7, <3>4, <4>1 DEF CommonStep
      <4>3. Bounded(f, x, y, i + 1, j + 1)
        BY <3>2, <3>3
      <4>4. /\ d <= lx - (i + 1) /\ d <= ly - (j + 1)
            /\ (d = lx - (i + 1) /\ d = ly - (j + 1)) =>
                 \A k \in 1..(lx - (i + 1)) : x[(i + 1) + k] = y[(j + 1) + k]
        BY <1>1, <4>1, <4>3 DEF Bounded
      <4>5. ASSUME v = lx - i, v = ly - j, NEW k \in 1..(lx - i)
            PROVE  x[i + k] = y[j + k]
        <5>1. CASE k = 1
          BY <3>4, <5>1
        <5>2. CASE k # 1
          <6>1. k - 1 \in 1..(lx - (i + 1)) /\ (i + 1) + (k - 1) = i + k /\ (j + 1) + (k - 1) = j + k
            BY <3>1, <5>2
          <6>2. d = lx - (i + 1) /\ d = ly - (j + 1)
            BY <3>1, <4>2, <4>5
          <6> QED
            BY <4>4, <6>1, <6>2
        <5> QED
          BY <5>1, <5>2
      <4>6. v <= lx - i /\ v <= ly - j
        BY <3>1, <4>2, <4>4
      <4> QED
        BY <4>5, <4>6
    <3>5. CASE x[i + 1] # y[j + 1]
      <4>1. PICK d \in Nat, r \in Nat : d = f[<<i + 1, j>>] /\ r = f[<<i, j + 1>>]
        BY <3>2, <3>3
      <4>2. v = Max2(d, r)
        BY <1>1, <2>2, <2>4, <2>7, <3>5, <4>1 DEF CommonStep
      <4>3. Bounded(f, x, y, i + 1, j) /\ Bounded(f, x, y, i, j + 1)
        BY <3>2, <3>3
      <4>4. /\ d <= lx - (i + 1) /\ d <= ly - j
            /\ r <= lx - i /\ r <= ly - (j + 1)
        BY <1>1, <4>1, <4>3 DEF Bounded
      <4>5. v <= lx - i /\ v <= ly - j /\ ~(v = lx - i /\ v = ly - j)
        BY <3>1, <4>2, <4>4 DEF Max2
      <4> QED
        BY <4>5
    <3> QED
      BY <3>4, <3>5
  <2> QED
    BY <2>6, <2>7
<1>6. \A w \in D : w \in S
  <2> HIDE DEF S
  <2> QED
    BY <1>4, <1>5, RankInduction
<1>7. <<0, 0>> \in D
  BY <1>2 DEF Grid
<1> QED
  BY <1>6, <1>7

LEMMA AllInCommon ==
  ASSUME NEW A, NEW x \in Seq(A), NEW f, IsCommon(f, x, x)
  PROVE  f[<<0, 0>>] = Len(x)
<1>1. PICK n \in Nat : n = Len(x)
  OBVIOUS
<1> DEFINE S == {k \in 0..n : f[<<n - k, n - k>>] = k}
<1>2. 0 \in S
  <2>1. <<n, n>> \in Grid(Len(x), Len(x)) /\ n - 0 = n
    BY <1>1 DEF Grid
  <2>2. f[<<n, n>>] = CommonStep(x, x, f, <<n, n>>)
    BY <2>1 DEF IsCommon
  <2>3. f[<<n, n>>] = 0
    BY <1>1, <2>2 DEF CommonStep
  <2> QED
    BY <2>1, <2>3
<1>3. ASSUME NEW k \in 1..n, k - 1 \in S
      PROVE  k \in S
  <2>1. PICK i \in Nat : i = n - k
    OBVIOUS
  <2>2. i + 1 = n - (k - 1) /\ i \in 0..n /\ i # n
    BY <2>1
  <2>3. <<i, i>> \in Grid(Len(x), Len(x))
    BY <1>1, <2>2 DEF Grid
  <2>4. PICK w : w = <<i, i>>
    OBVIOUS
  <2>5. f[w] = CommonStep(x, x, f, w) /\ w[1] = i /\ w[2] = i
    BY <2>3, <2>4 DEF IsCommon
  <2>6. f[w] = 1 + f[<<i + 1, i + 1>>]
    BY <1>1, <2>2, <2>5 DEF CommonStep
  <2>7. f[<<i + 1, i + 1>>] = k - 1
    BY <1>3, <2>2
  <2>8. f[w] = k
    BY <2>6, <2>7
  <2> QED
    BY <2>1, <2>4, <2>8
<1>4. n \in S
  <2>1. n \in 0..n
    OBVIOUS
  <2> HIDE DEF S
  <2> QED
    BY <1>2, <1>3, <2>1, CountingUp
<1>5. n - n = 0
  OBVIOUS
<1> QED
  BY <1>1, <1>4, <1>5

LEMMA CommonCountBounded ==
  ASSUME NEW A, NEW a \in Seq(A), NEW b \in Seq(A)
  PROVE  /\ CommonCount(a, b) \in Nat
         /\ CommonCount(a, b) <= Len(a) /\ CommonCount(a, b) <= Len(b)
         /\ (CommonCount(a, b) = Len(a) /\ CommonCount(a, b) = Len(b)) => a = b
         /\ CommonCount(a, a) = Len(a)
<1>1. PICK s : s = Strip(a, b)
  OBVIOUS
<1>2. Ends(s, a, b)
  BY <1>1, StripIs
<1>3. PICK p \in Nat, q \in Nat : p = s.prefix /\ q = s.suffix
  BY <1>2 DEF Ends
<1>4. PICK n \in Nat, m \in Nat : n = Len(a) /\ m = Len(b)
  OBVIOUS
<1>5. /\ p + q <= n /\ p + q <= m
      /\ \A k \in 1..p : a[k] = b[k]
      /\ \A k \in 1..q : a[n - q + k] = b[m - q + k]
  BY <1>2, <1>3, <1>4 DEF Ends
<1>6. IsMiddle(s.a, a, p, q) /\ s.a \in Seq(A) /\ IsMiddle(s.b, b, p, q) /\ s.b \in Seq(A)
  BY ZenonT(30), <1>2, <1>3, <1>4, <1>5, MiddleIs DEF Ends
<1>7. PICK f : f = CommonAfter(s.a, s.b)
  OBVIOUS
<1>8. IsCommon(f, s.a, s.b)
  BY <1>6, <1>7, CommonAfterIs
<1>9. PICK v \in Nat : v = f[<<0, 0>>]
  <2>1. <<0, 0>> \in Grid(Len(s.a), Len(s.b))
    BY <1>6 DEF Grid
  <2> QED
    BY <1>8, <2>1 DEF IsCommon
<1>10. CommonCount(a, b) = p + q + v
  BY <1>1, <1>3, <1>7, <1>9 DEF CommonCount
<1>11. Bounded(f, s.a, s.b, 0, 0)
  BY <1>6, <1>8, CommonIsBounded
<1>12. /\ Len(s.a) = n - p - q /\ Len(s.b) = m - p - q
       /\ \A k \in 1..(n - p - q) : s.a[k] = a[p + k]
       /\ \A k \in 1..(m - p - q) : s.b[k] = b[p + k]
  BY <1>4, <1>6 DEF IsMiddle
<1>13. v <= n - p - q /\ v <= m - p - q
  <2>1. n - p - q - 0 = n - p - q /\ m - p - q - 0 = m - p - q
    OBVIOUS
  <2> QED
    BY <1>9, <1>11, <1>12, <2>1 DEF Bounded
<1>14. ASSUME p + q + v = n, p + q + v = m
       PROVE  a = b
  <2>1. v = n - p - q /\ v = m - p - q
    BY <1>14
  <2>2. \A k \in 1..v : s.a[0 + k] = s.b[0 + k]
    <3>1. v - 0 = v
      OBVIOUS
    <3> QED
      BY <1>9, <1>11, <1>12, <2>1, <3>1 DEF Bounded
  <2>3. ASSUME NEW k \in 1..n
        PROVE  a[k] = b[k]
    <3>1. CASE k <= p
      BY <1>5, <3>1
    <3>2. CASE k > p /\ k <= p + v
      <4>1. PICK l \in 1..v : l = k - p
        BY <3>2
      <4>2. 0 + l = l /\ p + l = k
        BY <4>1
      <4>3. s.a[l] = s.b[l]
        BY <2>2, <4>2
      <4>4. s.a[l] = a[p + l] /\ s.b[l] = b[p + l]
        BY <1>12, <2>1
      <4> QED
        BY <4>2, <4>3, <4>4
    <3>3. CASE k > p + v
      <4>1. PICK l \in 1..q : l = k - (p + v)
        BY <1>14, <3>3
      <4>2. n - q + l = k /\ m - q + l = k
        BY <1>14, <4>1
      <4> QED
        BY <1>5, <4>2
    <3> QED
      BY <3>1, <3>2, <3>3
  <2> QED
    BY <1>4, <1>14, <2>3, SeqEqual
<1>15. CommonCount(a, a) = n
  <2>1. PICK t : t = Strip(a, a)
    OBVIOUS
  <2>2. Ends(t, a, a)
    BY <2>1, StripIs
  <2>3. PICK x \in Nat, y \in Nat : x = t.prefix /\ y = t.suffix
    BY <2>2 DEF Ends
  <2>4. x + y <= n /\ t.a = t.b /\ t.a = SubSeq(a, x + 1, Len(a) - y)
    BY <1>4, <2>2, <2>3 DEF Ends
  <2>5. IsMiddle(t.a, a, x, y) /\ t.a \in Seq(A)
    BY <1>4, <2>4, MiddleIs
  <2>6. PICK h : h = CommonAfter(t.a, t.a)
    OBVIOUS
  <2>7. h[<<0, 0>>] = Len(t.a)
    BY <2>5, <2>6, CommonAfterIs, AllInCommon
  <2>8. Len(t.a) = n - x - y
    BY <1>4, <2>5 DEF IsMiddle
  <2>9. CommonCount(a, a) = x + y + (n - x - y)
    BY <2>1, <2>3, <2>4, <2>6, <2>7, <2>8 DEF CommonCount
  <2> QED
    BY <2>9
<1>16. p + q + v \in Nat /\ p + q + v <= n /\ p + q + v <= m
  BY <1>13
<1> QED
  BY <1>4, <1>10, <1>14, <1>15, <1>16

LEMMA RatioIs ==
  ASSUME NEW A, NEW a \in Seq(A), NEW b \in Seq(A)
  PROVE  Ratio(a, b) = IF a = <<>> /\ b = <<>> THEN Percent(100)
                       ELSE (200 * Scale * CommonCount(a, b)) \div (Len(a) + Len(b))
<1>1. Scale \in Nat
  BY CompareAlgorithmsAssumption
<1>2. PICK n \in Nat, m \in Nat : n = Len(a) /\ m = Len(b)
  OBVIOUS
<1>3. PICK k \in Nat : k = CommonCount(a, b)
  BY CommonCountBounded
<1>4. /\ k <= n /\ k <= m /\ (a = b => k = n)
      /\ (a = <<>> <=> n = 0) /\ (b = <<>> <=> m = 0)
  BY <1>2, <1>3, CommonCountBounded
<1>5. CASE a = <<>> /\ b = <<>>
  BY <1>5 DEF Ratio
<1>6. CASE a = b /\ a # <<>>
  <2>1. n > 0 /\ m = n /\ k = n
    BY <1>2, <1>4, <1>6
  <2>2. (200 * Scale * n) \div (n + n) = 100 * Scale
    <3>1. 200 * Scale * n = (100 * Scale) * (n + n)
      BY <1>1
    <3>2. PICK c \in Nat : c = 100 * Scale
      BY <1>1
    <3>3. PICK d \in Nat : d = n + n /\ d > 0
      BY <2>1
    <3>4. (c * d) \div d = c
      BY <3>3
    <3> QED
      BY <3>1, <3>2, <3>3, <3>4
  <2> QED
    BY <1>2, <1>3, <1>6, <2>1, <2>2 DEF Ratio, Percent
<1>7. CASE a # b /\ (a = <<>> \/ b = <<>>)
  <2>1. k = 0 /\ n + m > 0
    BY <1>4, <1>7
  <2>2. PICK d \in Nat : d = n + m /\ d > 0
    BY <2>1
  <2>3. 200 * Scale * k = 0
    BY <1>1, <2>1
  <2>4. 0 \div d = 0
    BY <2>2
  <2> QED
    BY <1>2, <1>3, <1>7, <2>2, <2>3, <2>4 DEF Ratio
<1>8. CASE a # b /\ a # <<>> /\ b # <<>>
  BY <1>8 DEF Ratio, CommonCount
<1> QED
  BY <1>5, <1>6, <1>7, <1>8

\* TextSimilarity::Ratio is 200 times the longest common subsequence over the
\* sum of the lengths, whatever ends it strips and whatever it returns early.
THEOREM RatioIsSimilarity ==
  ASSUME NEW A, NEW a \in Seq(A), NEW b \in Seq(A), Len(a) \in 0..Longest, Len(b) \in 0..Longest
  PROVE  Ratio(a, b) = Similarity(a, b)
<1>1. CommonLength(a, b) = CommonCount(a, b)
  BY CommonLengthIs
<1> QED
  BY <1>1, RatioIs DEF Similarity

\* TextSimilarity::Ratio: texts are wholly similar only when they are the same.
THEOREM RatioIsFull ==
  ASSUME NEW A, NEW a \in Seq(A), NEW b \in Seq(A)
  PROVE  Ratio(a, b) \in Nat /\ (Ratio(a, b) >= Percent(100) <=> a = b)
<1>1. Scale \in Nat \ {0}
  BY CompareAlgorithmsAssumption
<1>2. PICK n \in Nat, m \in Nat : n = Len(a) /\ m = Len(b)
  OBVIOUS
<1>3. PICK k \in Nat : k = CommonCount(a, b)
  BY CommonCountBounded
<1>4. /\ k <= n /\ k <= m /\ (a = b => k = n /\ n = m) /\ (k = n /\ k = m => a = b)
      /\ (a = <<>> <=> n = 0) /\ (b = <<>> <=> m = 0)
  BY <1>2, <1>3, CommonCountBounded
<1>5. CASE a = <<>> /\ b = <<>>
  <2>1. Ratio(a, b) = Percent(100) /\ Percent(100) \in Nat
    <3>1. Percent(100) \in Nat
      BY <1>1 DEF Percent
    <3>2. a = b
      BY <1>5
    <3> QED
      BY <3>1, <3>2 DEF Ratio
  <2> QED
    BY <1>5, <2>1
<1>6. CASE ~(a = <<>> /\ b = <<>>)
  <2>1. PICK d \in Nat : d = n + m /\ d > 0
    BY <1>4, <1>6
  <2>2. PICK t \in Nat : t = 200 * Scale * k
    BY <1>1
  <2>3. Ratio(a, b) = t \div d
    BY <1>2, <1>3, <1>6, <2>1, <2>2, RatioIs
  <2>4. PICK r \in Nat : r = t \div d
    BY <2>1
  <2>5. PICK c \in Nat : c = 100 * Scale /\ c > 0
    BY <1>1
  <2>6. r >= c <=> t >= c * d
    BY <2>1, <2>4
  <2>7. t = c * (2 * k)
    BY <1>1, <2>2, <2>5
  <2>8. t >= c * d <=> 2 * k >= d
    BY <2>5, <2>7
  <2>9. 2 * k >= d <=> a = b
    BY <1>4, <2>1
  <2> QED
    BY <2>3, <2>4, <2>5, <2>6, <2>8, <2>9 DEF Percent
<1> QED
  BY <1>5, <1>6

-----------------------------------------------------------------------------
(* What a fold over a sequence computes.                                   *)

LEMMA MaxInterval ==
  ASSUME NEW k \in Nat, k > 0
  PROVE  Max(1..k) = k /\ (1..k) \ {k} = 1..(k - 1) /\ 1..k # {}
<1>1. 1..k \in SUBSET Int /\ k \in 1..k /\ \A x \in 1..k : x <= k
  OBVIOUS
<1>2. PICK S \in SUBSET Int : S = 1..k
  BY <1>1
<1>3. Max(S) = k
  BY <1>1, <1>2, MaxIs
<1>4. (1..k) \ {k} = 1..(k - 1)
  OBVIOUS
<1> QED
  BY <1>1, <1>2, <1>3, <1>4

LEMMA MaxOfPositions ==
  ASSUME NEW n \in Nat, NEW t \in SUBSET (1..n), t # {}
  PROVE  Max(t) \in t
<1>1. t \in SUBSET Nat
  OBVIOUS
<1> DEFINE back == {n - x : x \in t}
<1>2. back \in SUBSET Nat /\ back # {}
  BY <1>1
<1>3. PICK m \in back : \A x \in back : m <= x
  <2> HIDE DEF back
  <2> QED
    BY <1>2, Least
<1>4. PICK x \in t : m = n - x
  BY <1>3
<1>5. ASSUME NEW y \in t
      PROVE  y <= x
  <2>1. n - x <= n - y
    BY <1>3, <1>4
  <2>2. x \in Nat /\ y \in Nat
    BY <1>1
  <2> QED
    BY <2>1, <2>2
<1>6. t \in SUBSET Int /\ x \in t /\ \A y \in t : y <= x
  BY <1>1, <1>4, <1>5
<1>7. Max(t) = x
  BY <1>6, MaxIs
<1> QED
  BY <1>4, <1>7

\* A fold whose step, at every position, is the function st.
FoldsBy(f, n, base, st) ==
  \A t \in SUBSET (1..n) : f[t] = IF t = {} THEN base ELSE st[<<f[t \ {Max(t)}], Max(t)>>]

LEMMA FoldExists ==
  ASSUME NEW V, NEW n \in Nat, NEW base \in V, NEW st \in [V \X (1..n) -> V]
  PROVE  \E f \in [SUBSET (1..n) -> V] : FoldsBy(f, n, base, st)
<1>1. PICK U : U = 1..n
  OBVIOUS
<1>2. IsFiniteSet(U)
  BY <1>1, FS_Interval
<1>3. PICK D : D = SUBSET U
  OBVIOUS
<1>4. \A t \in D : IsFiniteSet(t) /\ Cardinality(t) \in Nat /\ Cardinality(t) <= Cardinality(U)
  BY <1>2, <1>3, FS_Subset, FS_CardinalityType
<1>5. PICK N \in Nat : N = Cardinality(U)
  BY <1>2, FS_CardinalityType
<1>6. PICK rank : rank = [t \in D |-> Cardinality(t)]
  OBVIOUS
<1>7. rank \in [D -> 0..N] /\ \A t \in D : rank[t] = Cardinality(t)
  BY <1>4, <1>5, <1>6
<1>8. ASSUME NEW t \in D, t # {}
      PROVE  Max(t) \in U /\ t \ {Max(t)} \in Under(D, rank, t)
  <2>1. PICK x : x = Max(t)
    OBVIOUS
  <2>2. x \in t
    BY <1>1, <1>3, <1>8, <2>1, MaxOfPositions
  <2>3. PICK r : r = t \ {x}
    OBVIOUS
  <2>4. r \in D /\ x \in U
    BY <1>3, <2>2, <2>3
  <2>5. Cardinality(r) = Cardinality(t) - 1
    BY <1>4, <2>2, <2>3, FS_RemoveElement
  <2>6. rank[r] < rank[t]
    BY <1>4, <1>7, <2>4, <2>5
  <2> QED
    BY <2>1, <2>3, <2>4, <2>6 DEF Under
<1> DEFINE Body(h, t) == IF t = {} THEN base ELSE st[<<h[t \ {Max(t)}], Max(t)>>]
           Dom == (UNION {[Under(D, rank, t) -> V] : t \in D}) \X D
           step == [x \in Dom |-> Body(x[1], x[2])]
<1>9. ASSUME NEW t \in D, NEW h, \A r \in Under(D, rank, t) : h[r] \in V
      PROVE  Body(h, t) \in V
  <2>1. CASE t = {}
    BY <2>1
  <2>2. CASE t # {}
    <3>1. PICK x \in U, r \in Under(D, rank, t) : x = Max(t) /\ r = t \ {Max(t)}
      BY <1>8, <2>2
    <3>2. <<h[r], x>> \in V \X (1..n)
      BY <1>1, <1>9, <3>1
    <3>3. st[<<h[r], x>>] \in V
      BY <3>2
    <3> QED
      BY <2>2, <3>1, <3>3
  <2> QED
    BY <2>1, <2>2
<1>10. ASSUME NEW t \in D, NEW h \in [Under(D, rank, t) -> V]
       PROVE  step[<<h, t>>] = Body(h, t) /\ step[<<h, t>>] \in V
  <2>1. PICK x : x = <<h, t>>
    OBVIOUS
  <2>2. x \in Dom /\ x[1] = h /\ x[2] = t
    BY <2>1
  <2>3. step[x] = Body(x[1], x[2])
    <3> HIDE DEF Body, Dom
    <3> QED
      BY <2>2
  <2>4. Body(h, t) \in V
    <3> HIDE DEF Body
    <3> QED
      BY <1>9
  <2> HIDE DEF Body, Dom, step
  <2> QED
    BY <2>1, <2>2, <2>3, <2>4
<1>11. Typed(D, V, rank, step)
  <2> HIDE DEF step
  <2> QED
    BY <1>10 DEF Typed
<1>12. PICK f : Solves(f, D, D, V, rank, step)
  <2> HIDE DEF step
  <2> QED
    BY <1>7, <1>11, RecursionExists
<1>13. ASSUME NEW t \in D
       PROVE  f[t] = Body(f, t)
  <2>1. PICK h : h = Known(f, D, rank, t)
    OBVIOUS
  <2>2. Under(D, rank, t) \subseteq D /\ f \in [D -> V]
    BY <1>12 DEF Under, Solves
  <2>3. h \in [Under(D, rank, t) -> V] /\ \A q \in Under(D, rank, t) : h[q] = f[q]
    BY <2>1, <2>2 DEF Known
  <2>4. f[t] = step[<<h, t>>]
    BY ZenonT(30), <1>12, <2>1 DEF Solves
  <2>5. step[<<h, t>>] = Body(h, t)
    BY <1>10, <2>3
  <2>6. Body(h, t) = Body(f, t)
    BY <1>8, <2>3
  <2> HIDE DEF Body, step
  <2> QED
    BY <2>4, <2>5, <2>6
<1>14. f \in [D -> V]
  BY <1>12 DEF Solves
<1> QED
  BY <1>1, <1>3, <1>13, <1>14 DEF FoldsBy

\* Elements taken one by one.
Taken(f, s, S) ==
  /\ f[0] = <<>>
  /\ \A k \in 1..Len(s) : f[k] = IF s[k] \in S THEN Append(f[k - 1], s[k]) ELSE f[k - 1]

LEMMA SelectRuns ==
  ASSUME NEW A, NEW s \in Seq(A), NEW S
  PROVE  \E f : Taken(f, s, S) /\ Select(s, S) = f[Len(s)]
<1>1. PICK n \in Nat : n = Len(s) /\ DOMAIN s = 1..n
  OBVIOUS
<1>2. PICK V : V = Seq(A)
  OBVIOUS
<1> DEFINE Op(out, x) == IF s[x] \in S THEN Append(out, s[x]) ELSE out
           Eq(f) == f = [t \in SUBSET (1..n) |-> IF t = {} THEN <<>> ELSE Op(f[t \ {Max(t)}], Max(t))]
           st == [p \in V \X (1..n) |-> Op(p[1], p[2])]
<1>3. Select(s, S) = (CHOOSE f : Eq(f))[1..n]
  BY <1>1 DEF Select, FoldLeft, MapThenFoldSet
<1>4. ASSUME NEW out \in V, NEW x \in 1..n
      PROVE  st[<<out, x>>] = Op(out, x) /\ Op(out, x) \in V
  <2>1. s[x] \in A
    BY <1>1
  <2>2. Op(out, x) \in V
    BY <1>2, <2>1
  <2>3. PICK p \in V \X (1..n) : p = <<out, x>>
    OBVIOUS
  <2>4. st[p] = Op(p[1], p[2]) /\ p[1] = out /\ p[2] = x
    BY <2>3
  <2> HIDE DEF Op, st
  <2> QED
    BY <2>2, <2>3, <2>4
<1>5. st \in [V \X (1..n) -> V]
  <2>1. \A p \in V \X (1..n) : Op(p[1], p[2]) \in V
    <3> HIDE DEF Op
    <3> QED
      BY <1>4
  <2> HIDE DEF Op
  <2> QED
    BY <2>1
<1>6. PICK f \in [SUBSET (1..n) -> V] : FoldsBy(f, n, <<>>, st)
  <2>1. <<>> \in V
    BY <1>2
  <2> HIDE DEF st
  <2> QED
    BY <1>5, <2>1, FoldExists
<1>7. Eq(f)
  <2>1. ASSUME NEW t \in SUBSET (1..n)
        PROVE  f[t] = IF t = {} THEN <<>> ELSE Op(f[t \ {Max(t)}], Max(t))
    <3>1. CASE t = {}
      BY <1>6, <3>1 DEF FoldsBy
    <3>2. CASE t # {}
      <4>1. PICK x \in 1..n : x = Max(t)
        BY <3>2, MaxOfPositions
      <4>2. PICK out \in V : out = f[t \ {x}]
        OBVIOUS
      <4>3. f[t] = st[<<out, x>>]
        BY <1>6, <3>2, <4>1, <4>2 DEF FoldsBy
      <4> HIDE DEF Op, st
      <4> QED
        BY <1>4, <3>2, <4>1, <4>2, <4>3
    <3> QED
      BY <3>1, <3>2
  <2> HIDE DEF Op
  <2> QED
    BY <2>1
<1>8. PICK h : h = CHOOSE e : Eq(e)
  OBVIOUS
<1>9. Eq(h)
  <2> HIDE DEF Eq
  <2> QED
    BY <1>7, <1>8
<1>10. PICK z : z = [k \in 0..n |-> h[1..k]]
  OBVIOUS
<1>11. z[0] = <<>>
  <2>1. 1..0 = {} /\ {} \in SUBSET (1..n)
    OBVIOUS
  <2>2. h[{}] = <<>>
    BY <1>9, <2>1
  <2> QED
    BY <1>10, <2>1, <2>2
<1>12. ASSUME NEW k \in 1..n
       PROVE  z[k] = Op(z[k - 1], k)
  <2>1. 1..k \in SUBSET (1..n) /\ k \in Nat /\ k > 0 /\ k - 1 \in 0..n /\ k \in 0..n
    OBVIOUS
  <2>2. h[1..k] = IF 1..k = {} THEN <<>> ELSE Op(h[(1..k) \ {Max(1..k)}], Max(1..k))
    <3> HIDE DEF Op
    <3> QED
      BY <1>9, <2>1
  <2>3. h[1..k] = Op(h[1..(k - 1)], k)
    <3> HIDE DEF Op
    <3> QED
      BY <2>1, <2>2, MaxInterval
  <2> HIDE DEF Op
  <2> QED
    BY <1>10, <2>1, <2>3
<1>13. Taken(z, s, S)
  BY <1>1, <1>11, <1>12 DEF Taken
<1>14. Select(s, S) = z[Len(s)]
  <2> HIDE DEF Eq
  <2> QED
    BY <1>1, <1>3, <1>8, <1>10
<1> QED
  BY <1>13, <1>14

LEMMA SelectIs ==
  ASSUME NEW A, NEW s \in Seq(A), NEW S, NEW f, Taken(f, s, S)
  PROVE  Select(s, S) = f[Len(s)]
<1>1. PICK n \in Nat : n = Len(s)
  OBVIOUS
<1>2. PICK z : Taken(z, s, S) /\ Select(s, S) = z[n]
  BY <1>1, SelectRuns
<1>3. PICK T : T = {k \in 0..n : z[k] = f[k]}
  OBVIOUS
<1>4. 0 \in T
  BY <1>2, <1>3 DEF Taken
<1>5. ASSUME NEW k \in 1..n, k - 1 \in T
      PROVE  k \in T
  <2>1. /\ z[k] = IF s[k] \in S THEN Append(z[k - 1], s[k]) ELSE z[k - 1]
        /\ f[k] = IF s[k] \in S THEN Append(f[k - 1], s[k]) ELSE f[k - 1]
    BY <1>1, <1>2 DEF Taken
  <2>2. z[k - 1] = f[k - 1] /\ k \in 0..n
    BY <1>3, <1>5
  <2> QED
    BY <1>3, <2>1, <2>2
<1>6. n \in 0..n
  OBVIOUS
<1>7. n \in T
  BY <1>4, <1>5, <1>6, CountingUp
<1> QED
  BY <1>1, <1>2, <1>3, <1>7

-----------------------------------------------------------------------------
(* The fragments of a side that are the same as the other side's.          *)

LEMMA AppendLast ==
  ASSUME NEW F, NEW l \in Seq(F), NEW x \in Seq(F), NEW e \in F
  PROVE  l \o Append(x, e) = Append(l \o x, e)
<1>1. PICK t : t = <<e>>
  OBVIOUS
<1>2. t \in Seq(F)
  BY <1>1
<1>3. Append(x, e) = x \o t /\ l \o x \in Seq(F)
  BY <1>1, AppendIsConcat, ConcatProperties
<1>4. Append(l \o x, e) = (l \o x) \o t
  BY <1>1, <1>3, AppendIsConcat
<1> QED
  BY SMTT(30), <1>2, <1>3, <1>4, ConcatAssociative

Fragments(A) == [text : A, same : BOOLEAN]

Keeping(f, s) ==
  /\ f[0] = <<>>
  /\ \A k \in 1..Len(s) : f[k] = IF s[k].same THEN Append(f[k - 1], s[k]) ELSE f[k - 1]

LEMMA KeepingIsTaking ==
  ASSUME NEW F, NEW s \in Seq(F), NEW f, NEW S, S = {fragment \in ToSet(s) : fragment.same}
  PROVE  Keeping(f, s) <=> Taken(f, s, S)
<1>1. \A k \in 1..Len(s) : s[k] \in S <=> s[k].same
  BY DEF ToSet
<1> QED
  BY <1>1 DEF Keeping, Taken

LEMMA KeptRuns ==
  ASSUME NEW F, NEW s \in Seq(F)
  PROVE  \E f \in [0..Len(s) -> Seq(F)] : Keeping(f, s) /\ Kept(s) = f[Len(s)]
<1>1. PICK n \in Nat : n = Len(s)
  OBVIOUS
<1>2. PICK S : S = {fragment \in ToSet(s) : fragment.same}
  OBVIOUS
<1>3. PICK z : Taken(z, s, S) /\ Select(s, S) = z[n]
  BY <1>1, SelectRuns
<1>4. PICK T : T = {k \in 0..n : z[k] \in Seq(F)}
  OBVIOUS
<1>5. 0 \in T
  <2>1. z[0] = <<>> /\ 0 \in 0..n
    BY <1>3 DEF Taken
  <2> QED
    BY <1>4, <2>1, EmptySeq
<1>6. ASSUME NEW k \in 1..n, k - 1 \in T
      PROVE  k \in T
  <2>1. z[k] = IF s[k] \in S THEN Append(z[k - 1], s[k]) ELSE z[k - 1]
    BY <1>1, <1>3 DEF Taken
  <2>2. z[k - 1] \in Seq(F) /\ k \in 0..n /\ s[k] \in F
    BY <1>1, <1>4, <1>6
  <2>3. PICK x \in Seq(F), e \in F : x = z[k - 1] /\ e = s[k]
    BY <2>2
  <2>4. Append(x, e) \in Seq(F)
    BY AppendProperties
  <2> QED
    BY <1>4, <2>1, <2>2, <2>3, <2>4
<1>7. \A k \in 0..n : k \in T
  BY <1>5, <1>6, CountingUp
<1>8. PICK f : f = [k \in 0..n |-> z[k]]
  OBVIOUS
<1>9. f \in [0..n -> Seq(F)] /\ \A k \in 0..n : f[k] = z[k]
  BY <1>4, <1>7, <1>8
<1>10. Taken(f, s, S)
  <2>1. \A k \in 1..n : k \in 0..n /\ k - 1 \in 0..n
    OBVIOUS
  <2>2. 0 \in 0..n
    OBVIOUS
  <2> QED
    BY <1>1, <1>3, <1>9, <2>1, <2>2 DEF Taken
<1>11. Keeping(f, s)
  BY <1>2, <1>10, KeepingIsTaking
<1>12. Kept(s) = f[n]
  <2>1. n \in 0..n
    OBVIOUS
  <2> QED
    BY <1>2, <1>3, <1>9, <2>1 DEF Kept
<1> QED
  BY <1>1, <1>9, <1>11, <1>12

LEMMA KeptIs ==
  ASSUME NEW F, NEW s \in Seq(F), NEW f, Keeping(f, s)
  PROVE  Kept(s) = f[Len(s)]
<1>1. PICK S : S = {fragment \in ToSet(s) : fragment.same}
  OBVIOUS
<1>2. Taken(f, s, S)
  BY <1>1, KeepingIsTaking
<1>3. Select(s, S) = f[Len(s)]
  BY <1>2, SelectIs
<1> QED
  BY <1>1, <1>3 DEF Kept

LEMMA KeptType ==
  ASSUME NEW F, NEW s \in Seq(F)
  PROVE  Kept(s) \in Seq(F)
<1>1. PICK f \in [0..Len(s) -> Seq(F)] : Kept(s) = f[Len(s)]
  BY KeptRuns
<1>2. Len(s) \in 0..Len(s)
  OBVIOUS
<1> QED
  BY <1>1, <1>2

LEMMA KeptJoined ==
  ASSUME NEW F, NEW s \in Seq(F), NEW t \in Seq(F)
  PROVE  Kept(s \o t) = Kept(s) \o Kept(t)
<1>1. PICK n \in Nat, m \in Nat : n = Len(s) /\ m = Len(t)
  OBVIOUS
<1>2. PICK f \in [0..n -> Seq(F)] : Keeping(f, s) /\ Kept(s) = f[n]
  BY <1>1, KeptRuns
<1>3. PICK g \in [0..m -> Seq(F)] : Keeping(g, t) /\ Kept(t) = g[m]
  BY <1>1, KeptRuns
<1>4. PICK u \in Seq(F) : u = s \o t
  BY ConcatProperties
<1>5. /\ Len(u) = n + m
      /\ \A k \in 1..n : u[k] = s[k]
      /\ \A k \in 1..m : u[n + k] = t[k]
  BY <1>1, <1>4
<1>6. PICK l \in Seq(F) : l = f[n]
  <2>1. n \in 0..n
    OBVIOUS
  <2> QED
    BY <2>1
<1>7. PICK h : h = [k \in 0..(n + m) |-> IF k <= n THEN f[k] ELSE l \o g[k - n]]
  OBVIOUS
<1>8. h[0] = <<>>
  <2>1. 0 \in 0..(n + m) /\ 0 <= n
    OBVIOUS
  <2> QED
    BY <1>2, <1>7, <2>1 DEF Keeping
<1>9. ASSUME NEW k \in 1..(n + m)
      PROVE  h[k] = IF u[k].same THEN Append(h[k - 1], u[k]) ELSE h[k - 1]
  <2>1. k \in 0..(n + m) /\ k - 1 \in 0..(n + m)
    OBVIOUS
  <2>2. CASE k <= n
    <3>1. k \in 1..n /\ k - 1 <= n
      BY <2>2
    <3>2. h[k] = f[k] /\ h[k - 1] = f[k - 1] /\ u[k] = s[k]
      BY <1>5, <1>7, <2>1, <2>2, <3>1
    <3>3. f[k] = IF s[k].same THEN Append(f[k - 1], s[k]) ELSE f[k - 1]
      BY <1>1, <1>2, <3>1 DEF Keeping
    <3> QED
      BY <3>2, <3>3
  <2>3. CASE k > n
    <3>1. PICK j \in 1..m : k = n + j
      <4>1. k - n \in 1..m /\ k = n + (k - n)
        BY <2>3
      <4> QED
        BY <4>1
    <3>2. k - n = j /\ (k - 1) - n = j - 1 /\ j \in 0..m /\ j - 1 \in 0..m
      BY <3>1
    <3>3. PICK x \in Seq(F) : x = g[j - 1]
      BY <3>2
    <3>4. PICK e \in F : e = t[j] /\ e = u[k]
      BY <1>1, <1>5, <3>1
    <3>5. h[k] = l \o g[j]
      BY <1>7, <2>1, <2>3, <3>2
    <3>6. h[k - 1] = l \o x
      <4>1. CASE k - 1 <= n
        <5>1. k - 1 = n /\ j - 1 = 0
          BY <2>3, <3>2, <4>1
        <5>2. h[k - 1] = l
          BY <1>6, <1>7, <2>1, <4>1, <5>1
        <5>3. x = <<>>
          BY <1>3, <3>3, <5>1 DEF Keeping
        <5> QED
          BY <5>2, <5>3
      <4>2. CASE ~(k - 1 <= n)
        BY <1>7, <2>1, <3>2, <3>3, <4>2
      <4> QED
        BY <4>1, <4>2
    <3>7. g[j] = IF e.same THEN Append(x, e) ELSE x
      BY <1>1, <1>3, <3>1, <3>3, <3>4 DEF Keeping
    <3>8. l \o Append(x, e) = Append(l \o x, e)
      BY SMTT(30), AppendLast
    <3> QED
      BY <3>4, <3>5, <3>6, <3>7, <3>8
  <2> QED
    BY <2>2, <2>3
<1>10. Keeping(h, u)
  BY <1>5, <1>8, <1>9 DEF Keeping
<1>11. Kept(u) = h[n + m]
  BY <1>5, <1>10, KeptIs
<1>12. h[n + m] = l \o g[m]
  <2>1. n + m \in 0..(n + m)
    OBVIOUS
  <2>2. CASE m = 0
    <3>1. n + m <= n /\ n + m = n
      BY <2>2
    <3>2. h[n + m] = l
      BY <1>6, <1>7, <2>1, <3>1
    <3>3. g[m] = <<>>
      BY <1>3, <2>2 DEF Keeping
    <3> QED
      BY <3>2, <3>3
  <2>3. CASE m # 0
    <3>1. ~(n + m <= n) /\ (n + m) - n = m
      BY <2>3
    <3> QED
      BY <1>7, <2>1, <3>1
  <2> QED
    BY <2>2, <2>3
<1> QED
  BY <1>2, <1>3, <1>4, <1>6, <1>11, <1>12

LEMMA MarkType ==
  ASSUME NEW A, NEW t \in Seq(A), NEW kind \in BOOLEAN
  PROVE  /\ Mark(t, kind) \in Seq(Fragments(A)) /\ Len(Mark(t, kind)) = Len(t)
         /\ \A k \in 1..Len(t) : Mark(t, kind)[k] = [text |-> t[k], same |-> kind]
<1>1. PICK n \in Nat : n = Len(t) /\ DOMAIN t = 1..n /\ \A k \in 1..n : t[k] \in A
  OBVIOUS
<1>2. \A k \in 1..n : [text |-> t[k], same |-> kind] \in Fragments(A)
  BY <1>1 DEF Fragments
<1>3. PICK s : s = Mark(t, kind)
  OBVIOUS
<1>4. s = [k \in 1..n |-> [text |-> t[k], same |-> kind]]
  BY <1>1, <1>3 DEF Mark
<1>5. s \in Seq(Fragments(A)) /\ Len(s) = n
  BY <1>2, <1>4
<1> QED
  BY <1>1, <1>3, <1>4, <1>5

LEMMA KeptOfMark ==
  ASSUME NEW A, NEW t \in Seq(A)
  PROVE  Kept(Mark(t, TRUE)) = Mark(t, TRUE) /\ Kept(Mark(t, FALSE)) = <<>>
<1>1. PICK F : F = Fragments(A)
  OBVIOUS
<1>2. PICK n \in Nat : n = Len(t)
  OBVIOUS
<1>3. Kept(Mark(t, TRUE)) = Mark(t, TRUE)
  <2>1. PICK s \in Seq(F) : s = Mark(t, TRUE)
    BY <1>1, MarkType
  <2>2. Len(s) = n /\ \A k \in 1..n : s[k].same = TRUE
    <3>1. Len(s) = n /\ \A k \in 1..n : s[k] = [text |-> t[k], same |-> TRUE]
      BY <1>2, <2>1, MarkType
    <3> QED
      BY <3>1
  <2>3. PICK f : f = [k \in 0..n |-> [i \in 1..k |-> s[i]]]
    OBVIOUS
  <2>4. f[0] = <<>>
    <3>1. 0 \in 0..n /\ 1..0 = {}
      OBVIOUS
    <3>2. f[0] = [i \in 1..0 |-> s[i]]
      BY <2>3, <3>1
    <3> QED
      BY <3>2
  <2>5. ASSUME NEW k \in 1..n
        PROVE  f[k] = Append(f[k - 1], s[k])
    <3>1. k \in 0..n /\ k - 1 \in 0..n /\ k - 1 \in Nat
      OBVIOUS
    <3>2. PICK l \in Nat : l = k - 1
      BY <3>1
    <3>3. \A i \in 1..k : s[i] \in F
      BY <2>2
    <3>4. PICK x \in Seq(F) : x = [i \in 1..l |-> s[i]] /\ Len(x) = l
      <4>1. \A i \in 1..l : s[i] \in F
        BY <3>2, <3>3
      <4>2. [i \in 1..l |-> s[i]] \in Seq(F) /\ Len([i \in 1..l |-> s[i]]) = l
        BY <4>1
      <4> QED
        BY <4>2
    <3>5. Append(x, s[k]) = [i \in 1..(l + 1) |-> s[i]]
      BY <3>2, <3>3, <3>4
    <3> QED
      BY <2>3, <3>1, <3>2, <3>4, <3>5
  <2>6. Keeping(f, s)
    BY <2>2, <2>4, <2>5 DEF Keeping
  <2>7. Kept(s) = f[n]
    BY <2>2, <2>6, KeptIs
  <2>8. f[n] = s
    <3>1. n \in 0..n
      OBVIOUS
    <3>2. f[n] = [i \in 1..n |-> s[i]]
      BY <2>3, <3>1
    <3> QED
      BY <2>2, <3>2
  <2> QED
    BY <2>1, <2>7, <2>8
<1>4. Kept(Mark(t, FALSE)) = <<>>
  <2>1. PICK s \in Seq(F) : s = Mark(t, FALSE)
    BY <1>1, MarkType
  <2>2. Len(s) = n /\ \A k \in 1..n : s[k].same = FALSE
    <3>1. Len(s) = n /\ \A k \in 1..n : s[k] = [text |-> t[k], same |-> FALSE]
      BY <1>2, <2>1, MarkType
    <3> QED
      BY <3>1
  <2>3. PICK f : f = [k \in 0..n |-> <<>>]
    OBVIOUS
  <2>4. Keeping(f, s) /\ f[n] = <<>>
    BY <2>2, <2>3 DEF Keeping
  <2> QED
    BY <2>1, <2>2, <2>4, KeptIs
<1> QED
  BY <1>3, <1>4

-----------------------------------------------------------------------------
(* What lies between the ends.                                             *)

BothSides(A) == [reference : Seq(Fragments(A)), actual : Seq(Fragments(A))]

DiffStep(x, y, lcs, f, p) ==
  LET i == p[1]  j == p[2]
  IN IF i = Len(x) /\ j = Len(y) THEN [reference |-> <<>>, actual |-> <<>>]
     ELSE IF i < Len(x) /\ j < Len(y) /\ x[i + 1] = y[j + 1]
          THEN LET w == f[<<i + 1, j + 1>>]
               IN [reference |-> Mark(<<x[i + 1]>>, TRUE) \o w.reference,
                   actual |-> Mark(<<y[j + 1]>>, TRUE) \o w.actual]
     ELSE IF i < Len(x) /\ (j = Len(y) \/ lcs[<<i + 1, j>>] >= lcs[<<i, j + 1>>])
          THEN LET w == f[<<i + 1, j>>]
               IN [w EXCEPT !.reference = Mark(<<x[i + 1]>>, FALSE) \o @]
     ELSE LET w == f[<<i, j + 1>>] IN [w EXCEPT !.actual = Mark(<<y[j + 1]>>, FALSE) \o @]

LEMMA MarkOne ==
  ASSUME NEW A, NEW c \in A, NEW kind \in BOOLEAN
  PROVE  /\ Mark(<<c>>, kind) \in Seq(Fragments(A))
         /\ Mark(<<c>>, kind) = <<[text |-> c, same |-> kind]>>
         /\ Kept(Mark(<<c>>, kind)) = IF kind THEN Mark(<<c>>, kind) ELSE <<>>
<1>1. PICK t : t = <<c>>
  OBVIOUS
<1>2. t \in Seq(A) /\ Len(t) = 1 /\ t[1] = c
  BY <1>1
<1>3. PICK s \in Seq(Fragments(A)) : s = Mark(t, kind)
  BY <1>2, MarkType
<1>4. Len(s) = 1 /\ \A k \in 1..1 : s[k] = [text |-> t[k], same |-> kind]
  BY <1>2, <1>3, MarkType
<1>5. PICK e : e = [text |-> c, same |-> kind]
  OBVIOUS
<1>6. s[1] = e
  BY <1>2, <1>4, <1>5
<1>7. s = <<e>>
  BY <1>4, <1>6
<1>8. Kept(Mark(t, TRUE)) = Mark(t, TRUE) /\ Kept(Mark(t, FALSE)) = <<>>
  BY <1>2, KeptOfMark
<1> QED
  BY <1>1, <1>3, <1>5, <1>7, <1>8

LEMMA SidesWith ==
  ASSUME NEW A, NEW s, s \in Seq(Fragments(A)), NEW w \in BothSides(A), NEW t \in Seq(Fragments(A))
  PROVE  /\ [reference |-> s \o w.reference, actual |-> t \o w.actual] \in BothSides(A)
         /\ [w EXCEPT !.reference = s \o @] \in BothSides(A)
         /\ [w EXCEPT !.actual = s \o @] \in BothSides(A)
<1>1. w.reference \in Seq(Fragments(A)) /\ w.actual \in Seq(Fragments(A))
  BY DEF BothSides
<1>2. /\ s \o w.reference \in Seq(Fragments(A)) /\ s \o w.actual \in Seq(Fragments(A))
      /\ t \o w.actual \in Seq(Fragments(A))
  BY <1>1, ConcatProperties
<1> QED
  BY <1>1, <1>2 DEF BothSides

LEMMA DiffStepLooksAhead ==
  ASSUME NEW A, NEW x \in Seq(A), NEW y \in Seq(A), NEW lcs, NEW D, D = Grid(Len(x), Len(y)),
         NEW p \in D, NEW f, NEW h,
         \A q \in Under(D, Behind(Len(x), Len(y)), p) : f[q] = h[q] /\ f[q] \in BothSides(A)
  PROVE  DiffStep(x, y, lcs, f, p) = DiffStep(x, y, lcs, h, p) /\ DiffStep(x, y, lcs, f, p) \in BothSides(A)
<1>1. PICK n \in Nat, m \in Nat : n = Len(x) /\ m = Len(y)
  OBVIOUS
<1>2. p[1] \in 0..n /\ p[2] \in 0..m /\ p = <<p[1], p[2]>>
  BY <1>1, GridIs
<1>3. PICK i \in 0..n, j \in 0..m : p = <<i, j>> /\ p[1] = i /\ p[2] = j
  BY <1>2
<1>4. ASSUME NEW q \in D, q = <<i + 1, j + 1>> \/ q = <<i + 1, j>> \/ q = <<i, j + 1>>
      PROVE  q \in Under(D, Behind(Len(x), Len(y)), p)
  <2>1. p[1] <= q[1] /\ p[2] <= q[2] /\ p # q
    BY <1>3, <1>4
  <2> QED
    BY <1>1, <2>1, RankOfGrid DEF Under
<1>5. D = (0..n) \X (0..m)
  BY <1>1 DEF Grid
<1>6. CASE i = n /\ j = m
  <2>1. <<>> \in Seq(Fragments(A))
    BY EmptySeq
  <2>2. [reference |-> <<>>, actual |-> <<>>] \in BothSides(A)
    BY <2>1 DEF BothSides
  <2> QED
    BY <1>1, <1>3, <1>6, <2>2 DEF DiffStep
<1>7. CASE i < n /\ j < m /\ x[i + 1] = y[j + 1]
  <2>1. <<i + 1, j + 1>> \in D
    BY <1>5, <1>7
  <2>2. PICK w \in BothSides(A) : w = f[<<i + 1, j + 1>>] /\ w = h[<<i + 1, j + 1>>]
    BY <1>4, <2>1
  <2>3. x[i + 1] \in A /\ y[j + 1] \in A
    BY <1>1, <1>7, ElementOfSeq
  <2>4. PICK s \in Seq(Fragments(A)), t \in Seq(Fragments(A)) :
            s = Mark(<<x[i + 1]>>, TRUE) /\ t = Mark(<<y[j + 1]>>, TRUE)
    BY <2>3, MarkOne
  <2>5. PICK r : r = [reference |-> s \o w.reference, actual |-> t \o w.actual]
    OBVIOUS
  <2>6. r \in BothSides(A)
    BY <2>5, SidesWith
  <2>9. p[1] # Len(x) /\ p[1] < Len(x) /\ p[2] < Len(y) /\ x[p[1] + 1] = y[p[2] + 1]
    BY <1>1, <1>3, <1>7
  <2>7. DiffStep(x, y, lcs, f, p) = r
    <3>1. DiffStep(x, y, lcs, f, p) = LET v == f[<<p[1] + 1, p[2] + 1>>]
            IN [reference |-> Mark(<<x[p[1] + 1]>>, TRUE) \o v.reference,
                actual |-> Mark(<<y[p[2] + 1]>>, TRUE) \o v.actual]
      BY <2>9 DEF DiffStep
    <3> QED
      BY <1>3, <2>2, <2>4, <2>5, <3>1
  <2>8. DiffStep(x, y, lcs, h, p) = r
    <3>1. DiffStep(x, y, lcs, h, p) = LET v == h[<<p[1] + 1, p[2] + 1>>]
            IN [reference |-> Mark(<<x[p[1] + 1]>>, TRUE) \o v.reference,
                actual |-> Mark(<<y[p[2] + 1]>>, TRUE) \o v.actual]
      BY <2>9 DEF DiffStep
    <3> QED
      BY <1>3, <2>2, <2>4, <2>5, <3>1
  <2> QED
    BY <2>6, <2>7, <2>8
<1>8. CASE /\ ~(i = n /\ j = m) /\ ~(i < n /\ j < m /\ x[i + 1] = y[j + 1])
           /\ i < n /\ (j = m \/ lcs[<<i + 1, j>>] >= lcs[<<i, j + 1>>])
  <2>1. <<i + 1, j>> \in D
    BY <1>5, <1>8
  <2>2. PICK w \in BothSides(A) : w = f[<<i + 1, j>>] /\ w = h[<<i + 1, j>>]
    BY <1>4, <2>1
  <2>3. x[i + 1] \in A
    BY <1>1, <1>8, ElementOfSeq
  <2>4. PICK s \in Seq(Fragments(A)) : s = Mark(<<x[i + 1]>>, FALSE)
    BY <2>3, MarkOne
  <2>5. PICK r : r = [w EXCEPT !.reference = s \o @]
    OBVIOUS
  <2>6. r \in BothSides(A)
    BY <2>5, SidesWith
  <2>7. DiffStep(x, y, lcs, f, p) = r
    BY <1>1, <1>3, <1>8, <2>2, <2>4, <2>5 DEF DiffStep
  <2>8. DiffStep(x, y, lcs, h, p) = r
    BY <1>1, <1>3, <1>8, <2>2, <2>4, <2>5 DEF DiffStep
  <2> QED
    BY <2>6, <2>7, <2>8
<1>9. CASE /\ ~(i = n /\ j = m) /\ ~(i < n /\ j < m /\ x[i + 1] = y[j + 1])
           /\ ~(i < n /\ (j = m \/ lcs[<<i + 1, j>>] >= lcs[<<i, j + 1>>]))
  <2>1. <<i, j + 1>> \in D /\ j < m
    BY <1>5, <1>9
  <2>2. PICK w \in BothSides(A) : w = f[<<i, j + 1>>] /\ w = h[<<i, j + 1>>]
    BY <1>4, <2>1
  <2>3. y[j + 1] \in A
    BY <1>1, <2>1, ElementOfSeq
  <2>4. PICK s \in Seq(Fragments(A)) : s = Mark(<<y[j + 1]>>, FALSE)
    BY <2>3, MarkOne
  <2>5. PICK r : r = [w EXCEPT !.actual = s \o @]
    OBVIOUS
  <2>6. r \in BothSides(A)
    BY <2>5, SidesWith
  <2>7. DiffStep(x, y, lcs, f, p) = r
    BY <1>1, <1>3, <1>9, <2>2, <2>4, <2>5 DEF DiffStep
  <2>8. DiffStep(x, y, lcs, h, p) = r
    BY <1>1, <1>3, <1>9, <2>2, <2>4, <2>5 DEF DiffStep
  <2> QED
    BY <2>6, <2>7, <2>8
<1> QED
  BY <1>6, <1>7, <1>8, <1>9

IsDiff(f, A, x, y, lcs) ==
  /\ f \in [Grid(Len(x), Len(y)) -> BothSides(A)]
  /\ \A p \in Grid(Len(x), Len(y)) : f[p] = DiffStep(x, y, lcs, f, p)

LEMMA DiffExists ==
  ASSUME NEW A, NEW x \in Seq(A), NEW y \in Seq(A), NEW lcs
  PROVE  \E f : IsDiff(f, A, x, y, lcs)
<1>1. Len(x) \in Nat /\ Len(y) \in Nat
  OBVIOUS
<1>2. PICK D : D = Grid(Len(x), Len(y))
  OBVIOUS
<1>3. PICK rank : rank = Behind(Len(x), Len(y))
  OBVIOUS
<1>4. PICK N \in Nat : N = Len(x) + Len(y)
  BY <1>1
<1>5. rank \in [D -> 0..N]
  BY <1>1, <1>2, <1>3, <1>4, RankOfGrid
<1>6. PICK V : V = BothSides(A)
  OBVIOUS
<1>7. PICK Dom : Dom = (UNION {[Under(D, rank, p) -> V] : p \in D}) \X D
  OBVIOUS
<1> DEFINE step == [z \in Dom |-> DiffStep(x, y, lcs, z[1], z[2])]
<1>8. ASSUME NEW p \in D, NEW h \in [Under(D, rank, p) -> V]
      PROVE  step[<<h, p>>] = DiffStep(x, y, lcs, h, p) /\ step[<<h, p>>] \in V
  <2>1. PICK z : z = <<h, p>>
    OBVIOUS
  <2>2. z \in Dom /\ z[1] = h /\ z[2] = p
    BY <1>7, <2>1
  <2>3. step[z] = DiffStep(x, y, lcs, z[1], z[2])
    BY <2>2
  <2>4. DiffStep(x, y, lcs, h, p) \in BothSides(A)
    <3>1. \A q \in Under(D, Behind(Len(x), Len(y)), p) : h[q] = h[q] /\ h[q] \in BothSides(A)
      BY <1>3, <1>6
    <3> QED
      BY <1>2, <3>1, DiffStepLooksAhead
  <2> HIDE DEF step
  <2> QED
    BY <1>6, <2>1, <2>2, <2>3, <2>4
<1>9. Typed(D, V, rank, step)
  <2> HIDE DEF step
  <2> QED
    BY <1>8 DEF Typed
<1>10. PICK f : Solves(f, D, D, V, rank, step)
  <2> HIDE DEF step
  <2> QED
    BY <1>5, <1>9, RecursionExists
<1>11. ASSUME NEW p \in D
       PROVE  f[p] = DiffStep(x, y, lcs, f, p)
  <2>1. PICK h : h = Known(f, D, rank, p)
    OBVIOUS
  <2>2. Under(D, rank, p) \subseteq D /\ f \in [D -> V]
    BY <1>10 DEF Under, Solves
  <2>3. h \in [Under(D, rank, p) -> V] /\ \A q \in Under(D, rank, p) : h[q] = f[q] /\ h[q] \in V
    BY <2>1, <2>2 DEF Known
  <2>4. f[p] = step[<<h, p>>]
    BY <1>10, <2>1 DEF Solves
  <2>5. step[<<h, p>>] = DiffStep(x, y, lcs, h, p)
    BY <1>8, <2>3
  <2>6. DiffStep(x, y, lcs, h, p) = DiffStep(x, y, lcs, f, p)
    <3>1. \A q \in Under(D, Behind(Len(x), Len(y)), p) : h[q] = f[q] /\ h[q] \in BothSides(A)
      BY <1>3, <1>6, <2>3
    <3> HIDE DEF step
    <3> QED
      BY <1>2, <3>1, DiffStepLooksAhead
  <2> HIDE DEF step
  <2> QED
    BY <2>4, <2>5, <2>6
<1>12. f \in [D -> BothSides(A)]
  BY <1>6, <1>10 DEF Solves
<1> QED
  BY <1>2, <1>11, <1>12 DEF IsDiff

LEMMA DiffAfterIs ==
  ASSUME NEW A, NEW x \in Seq(A), NEW y \in Seq(A), NEW lcs
  PROVE  IsDiff(DiffAfter(x, y, lcs), A, x, y, lcs)
<1>1. PICK D : D = Grid(Len(x), Len(y))
  OBVIOUS
<1> DEFINE Eq(f) == f = [p \in D |-> DiffStep(x, y, lcs, f, p)]
<1>2. DiffAfter(x, y, lcs) = CHOOSE f : Eq(f)
  BY <1>1 DEF DiffAfter, DiffStep, Grid
<1>3. PICK f : IsDiff(f, A, x, y, lcs)
  BY DiffExists
<1>4. Eq(f)
  BY <1>1, <1>3 DEF IsDiff
<1>5. PICK F : F = DiffAfter(x, y, lcs)
  OBVIOUS
<1>6. Eq(F)
  <2> HIDE DEF Eq
  <2> QED
    BY <1>2, <1>4, <1>5
<1>7. PICK rank : rank = Behind(Len(x), Len(y))
  OBVIOUS
<1>8. rank \in [D -> Nat]
  BY <1>1, <1>7, RankOfGrid
<1>9. ASSUME NEW p \in D, \A q \in Under(D, rank, p) : f[q] = F[q]
      PROVE  f[p] = F[p]
  <2>1. \A q \in Under(D, Behind(Len(x), Len(y)), p) : f[q] = F[q] /\ f[q] \in BothSides(A)
    BY <1>1, <1>3, <1>7, <1>9 DEF IsDiff, Under
  <2>2. DiffStep(x, y, lcs, f, p) = DiffStep(x, y, lcs, F, p)
    BY <1>1, <2>1, DiffStepLooksAhead
  <2> QED
    BY <1>4, <1>6, <2>2
<1>10. f = F
  <2>1. IsFcn(f, D) /\ IsFcn(F, D)
    BY <1>4, <1>6 DEF IsFcn
  <2>2. Settled(f, F, D, rank)
    BY <1>9 DEF Settled
  <2> QED
    BY <1>8, <2>1, <2>2, OneSolution
<1> QED
  BY <1>3, <1>5, <1>10

\* A side that rebuilds a text from a position on.
Rebuilds(s, t, i) == Len(s) = Len(t) - i /\ \A k \in 1..(Len(t) - i) : s[k].text = t[i + k]

LEMMA ConcatIs ==
  ASSUME NEW F, NEW s \in Seq(F), NEW t \in Seq(F), NEW n \in Nat, NEW m \in Nat, n = Len(s), m = Len(t)
  PROVE  /\ s \o t \in Seq(F) /\ Len(s \o t) = n + m
         /\ \A k \in 1..n : (s \o t)[k] = s[k]
         /\ \A k \in (n + 1)..(n + m) : (s \o t)[k] = t[k - n]
<1>1. PICK u \in Seq(F) : u = s \o t
  BY ConcatProperties
<1>2. Len(u) = n + m
  BY <1>1, ConcatProperties
<1>3. \A k \in 1..(n + m) : u[k] = IF k <= n THEN s[k] ELSE t[k - n]
  BY <1>1, ConcatProperties
<1>4. \A k \in 1..n : k \in 1..(n + m) /\ k <= n
  OBVIOUS
<1>5. \A k \in (n + 1)..(n + m) : k \in 1..(n + m) /\ ~(k <= n)
  OBVIOUS
<1> QED
  BY <1>1, <1>2, <1>3, <1>4, <1>5

LEMMA ConcatOne ==
  ASSUME NEW F, NEW e \in Seq(F), NEW s \in Seq(F), NEW l \in Nat, l = Len(s)
  PROVE  Len(e) = 1 => /\ e \o s \in Seq(F) /\ Len(e \o s) = 1 + l /\ (e \o s)[1] = e[1]
                       /\ \A k \in 2..(1 + l) : (e \o s)[k] = s[k - 1]
<1>1. PICK o \in Nat : o = Len(e)
  OBVIOUS
<1>2. /\ e \o s \in Seq(F) /\ Len(e \o s) = o + l
      /\ \A k \in 1..o : (e \o s)[k] = e[k]
      /\ \A k \in (o + 1)..(o + l) : (e \o s)[k] = s[k - o]
  BY <1>1, ConcatIs
<1> QED
  BY <1>1, <1>2

LEMMA FragmentFirst ==
  ASSUME NEW A, NEW t \in Seq(A), NEW i \in Nat, i < Len(t), NEW F, NEW s \in Seq(F),
         NEW e \in Seq(F), Len(e) = 1, e[1].text = t[i + 1], Rebuilds(s, t, i + 1)
  PROVE  Rebuilds(e \o s, t, i)
<1>2. PICK n \in Nat : n = Len(t)
  OBVIOUS
<1>6. PICK u \in Seq(F) : u = e \o s
  BY ConcatProperties
<1>7. PICK l \in Nat : l = Len(s)
  OBVIOUS
<1>8. Len(u) = 1 + l /\ u[1] = e[1] /\ \A k \in 2..(1 + l) : u[k] = s[k - 1]
  BY <1>6, <1>7, ConcatOne
<1>9. l = n - (i + 1) /\ \A k \in 1..(n - (i + 1)) : s[k].text = t[(i + 1) + k]
  BY <1>2, <1>7 DEF Rebuilds
<1>10. Len(u) = n - i
  BY <1>8, <1>9
<1>11. ASSUME NEW k \in 1..(n - i)
       PROVE  u[k].text = t[i + k]
  <2>2. CASE k = 1
    BY <1>8, <2>2
  <2>3. CASE k # 1
    <3>1. k - 1 \in 1..(n - (i + 1)) /\ (i + 1) + (k - 1) = i + k /\ k \in 2..(1 + l)
      BY <1>9, <2>3
    <3>2. u[k] = s[k - 1]
      BY <1>8, <3>1
    <3> QED
      BY <1>9, <3>1, <3>2
  <2> QED
    BY <2>2, <2>3
<1> QED
  BY <1>2, <1>6, <1>10, <1>11 DEF Rebuilds

Same(c) == Mark(<<c>>, TRUE)
Other(c) == Mark(<<c>>, FALSE)

LEMMA SameFirst ==
  ASSUME NEW A, NEW c \in A, NEW s \in Seq(Fragments(A)), NEW e, e = Same(c)
  PROVE  /\ e \in Seq(Fragments(A)) /\ Len(e) = 1 /\ e[1].text = c
         /\ Kept(e \o s) = e \o Kept(s) /\ Len(Kept(e \o s)) = 1 + Len(Kept(s))
<1>1. PICK F : F = Fragments(A)
  OBVIOUS
<1>2. e \in Seq(F) /\ e = <<[text |-> c, same |-> TRUE]>> /\ Kept(e) = e
  BY <1>1, MarkOne DEF Same
<1>3. Len(e) = 1 /\ e[1].text = c
  <2>1. PICK x : x = [text |-> c, same |-> TRUE]
    OBVIOUS
  <2>2. e = <<x>> /\ x.text = c
    BY <1>2, <2>1
  <2>3. e[1] = x /\ Len(e) = 1
    BY <2>2
  <2> QED
    BY <2>2, <2>3
<1>4. Kept(e \o s) = e \o Kept(s)
  BY <1>1, <1>2, KeptJoined
<1>5. PICK r \in Seq(F) : r = Kept(s)
  BY <1>1, KeptType
<1>6. Len(e \o r) = Len(e) + Len(r)
  BY <1>2, ConcatProperties
<1> QED
  BY <1>1, <1>2, <1>3, <1>4, <1>5, <1>6

LEMMA OtherFirst ==
  ASSUME NEW A, NEW c \in A, NEW s \in Seq(Fragments(A)), NEW e, e = Other(c)
  PROVE  e \in Seq(Fragments(A)) /\ Len(e) = 1 /\ e[1].text = c /\ Kept(e \o s) = Kept(s)
<1>1. PICK F : F = Fragments(A)
  OBVIOUS
<1>2. e \in Seq(F) /\ e = <<[text |-> c, same |-> FALSE]>> /\ Kept(e) = <<>>
  BY <1>1, MarkOne DEF Other
<1>3. Len(e) = 1 /\ e[1].text = c
  <2>1. PICK x : x = [text |-> c, same |-> FALSE]
    OBVIOUS
  <2>2. e = <<x>> /\ x.text = c
    BY <1>2, <2>1
  <2>3. e[1] = x /\ Len(e) = 1
    BY <2>2
  <2> QED
    BY <2>2, <2>3
<1>4. Kept(e \o s) = <<>> \o Kept(s)
  BY <1>1, <1>2, KeptJoined
<1>5. PICK r \in Seq(F) : r = Kept(s)
  BY <1>1, KeptType
<1> QED
  BY <1>1, <1>2, <1>3, <1>4, <1>5, ConcatEmptySeq

DiffIsRight(d, x, y, i, j, l) ==
  /\ Rebuilds(d.reference, x, i) /\ Rebuilds(d.actual, y, j)
  /\ Kept(d.reference) = Kept(d.actual) /\ Len(Kept(d.reference)) = l

LEMMA WalkIsRight ==
  ASSUME NEW A, NEW x \in Seq(A), NEW y \in Seq(A), NEW lcs, IsCommon(lcs, x, y),
         NEW f, IsDiff(f, A, x, y, lcs)
  PROVE  DiffIsRight(f[<<0, 0>>], x, y, 0, 0, lcs[<<0, 0>>])
<1>1. PICK lx \in Nat, ly \in Nat : lx = Len(x) /\ ly = Len(y)
  OBVIOUS
<1>2. PICK D : D = Grid(lx, ly)
  OBVIOUS
<1>3. PICK rank : rank = Behind(lx, ly)
  OBVIOUS
<1>4. rank \in [D -> Nat]
  <2>1. PICK N \in Nat : N = lx + ly
    OBVIOUS
  <2>2. rank \in [D -> 0..N]
    BY <1>2, <1>3, <2>1, RankOfGrid
  <2> QED
    BY <2>2
<1>5. PICK S : S = {w \in D : DiffIsRight(f[w], x, y, w[1], w[2], lcs[w])}
  OBVIOUS
<1>6. ASSUME NEW w \in D, \A u \in D : rank[u] < rank[w] => u \in S
      PROVE  w \in S
  <2>1. w[1] \in 0..lx /\ w[2] \in 0..ly /\ w = <<w[1], w[2]>>
    BY <1>2, GridIs
  <2>2. PICK i \in 0..lx, j \in 0..ly : w = <<i, j>> /\ w[1] = i /\ w[2] = j
    BY <2>1
  <2>3. f[w] = DiffStep(x, y, lcs, f, w) /\ lcs[w] = CommonStep(x, y, lcs, w)
    BY <1>1, <1>2 DEF IsDiff, IsCommon
  <2>4. D = (0..lx) \X (0..ly)
    BY <1>2 DEF Grid
  <2>5. ASSUME NEW u \in D, u = <<i + 1, j + 1>> \/ u = <<i + 1, j>> \/ u = <<i, j + 1>>
        PROVE  DiffIsRight(f[u], x, y, u[1], u[2], lcs[u]) /\ f[u] \in BothSides(A) /\ lcs[u] \in Nat
    <3>1. w[1] <= u[1] /\ w[2] <= u[2] /\ w # u
      BY <2>2, <2>5
    <3>2. rank[u] < rank[w]
      BY <1>2, <1>3, <3>1, RankOfGrid
    <3>3. f[u] \in BothSides(A) /\ lcs[u] \in Nat
      BY <1>1, <1>2 DEF IsDiff, IsCommon
    <3> QED
      BY <1>5, <1>6, <3>2, <3>3
  <2>6. SUFFICES DiffIsRight(f[w], x, y, i, j, lcs[w])
    BY <1>5, <2>2
  <2>7. CASE i = lx /\ j = ly
    <3>1. PICK d : d = [reference |-> <<>>, actual |-> <<>>]
      OBVIOUS
    <3>2. f[w] = d
      BY <1>1, <2>2, <2>3, <2>7, <3>1 DEF DiffStep
    <3>3. lcs[w] = 0
      BY <1>1, <2>2, <2>3, <2>7 DEF CommonStep
    <3>4. d.reference = <<>> /\ d.actual = <<>>
      BY <3>1
    <3>5. Len(x) - i = 0 /\ Len(y) - j = 0
      BY <1>1, <2>7
    <3>6. Rebuilds(<<>>, x, i) /\ Rebuilds(<<>>, y, j)
      BY <3>5 DEF Rebuilds
    <3>7. Kept(<<>>) = <<>>
      <4>1. PICK s \in Seq(A) : s = <<>>
        BY EmptySeq
      <4>2. PICK g : g = [k \in {0} |-> <<>>]
        OBVIOUS
      <4>3. Keeping(g, s) /\ g[Len(s)] = <<>>
        BY <4>1, <4>2 DEF Keeping
      <4> QED
        BY <4>1, <4>3, KeptIs
    <3>8. Len(Kept(<<>>)) = 0
      BY <3>7
    <3> QED
      BY <3>2, <3>3, <3>4, <3>6, <3>8 DEF DiffIsRight
  <2>8. CASE i < lx /\ j < ly /\ x[i + 1] = y[j + 1]
    <3>16. <<i + 1, j + 1>> \in D
      BY <2>4, <2>8
    <3>1. PICK u \in D : u = <<i + 1, j + 1>> /\ u[1] = i + 1 /\ u[2] = j + 1
      BY <3>16
    <3>2. PICK d \in BothSides(A) : d = f[u]
      BY <2>5, <3>1
    <3>3. PICK l \in Nat : l = lcs[u]
      BY <2>5, <3>1
    <3>4. DiffIsRight(d, x, y, i + 1, j + 1, l)
      BY <2>5, <3>1, <3>2, <3>3
    <3>5. w[1] # Len(x) /\ w[1] < Len(x) /\ w[2] # Len(y) /\ w[2] < Len(y) /\ x[w[1] + 1] = y[w[2] + 1]
      BY <1>1, <2>2, <2>8
    <3>6. lcs[w] = 1 + l
      <4>1. lcs[w] = 1 + lcs[<<w[1] + 1, w[2] + 1>>]
        BY <2>3, <3>5 DEF CommonStep
      <4> QED
        BY <2>2, <3>1, <3>3, <4>1
    <3>7. PICK s : s = Mark(<<x[i + 1]>>, TRUE)
      OBVIOUS
    <3>8. PICK r : r = [reference |-> s \o d.reference, actual |-> s \o d.actual]
      OBVIOUS
    <3>9. f[w] = r
      <4>1. f[w] = LET v == f[<<w[1] + 1, w[2] + 1>>]
                   IN [reference |-> Mark(<<x[w[1] + 1]>>, TRUE) \o v.reference,
                       actual |-> Mark(<<y[w[2] + 1]>>, TRUE) \o v.actual]
        BY <2>3, <3>5 DEF DiffStep
      <4> QED
        BY <2>2, <2>8, <3>1, <3>2, <3>7, <3>8, <4>1
    <3>10. PICK dr \in Seq(Fragments(A)), da \in Seq(Fragments(A)) : dr = d.reference /\ da = d.actual
      BY DEF BothSides
    <3>11. /\ Rebuilds(dr, x, i + 1) /\ Rebuilds(da, y, j + 1)
           /\ Kept(dr) = Kept(da) /\ Len(Kept(dr)) = l
      BY <3>4, <3>10 DEF DiffIsRight
    <3>12. i \in Nat /\ j \in Nat /\ i < Len(x) /\ j < Len(y) /\ s = Mark(<<y[j + 1]>>, TRUE)
      BY <1>1, <2>8, <3>7
    <3>17. PICK c \in A : c = x[i + 1] /\ c = y[j + 1]
      BY <1>1, <2>8, ElementOfSeq
    <3>20. s = Same(c)
      BY <3>7, <3>17 DEF Same
    <3>21. /\ s \in Seq(Fragments(A)) /\ Len(s) = 1 /\ s[1].text = c
           /\ Kept(s \o dr) = s \o Kept(dr) /\ Len(Kept(s \o dr)) = 1 + Len(Kept(dr))
      BY <3>20, SameFirst
    <3>22. Kept(s \o da) = s \o Kept(da)
      BY SMTT(30), <3>20, SameFirst
    <3>18. /\ s \in Seq(Fragments(A)) /\ Len(s) = 1 /\ s[1].text = c
           /\ Kept(s \o dr) = s \o Kept(dr) /\ Len(Kept(s \o dr)) = 1 + Len(Kept(dr))
           /\ Kept(s \o da) = s \o Kept(da)
      BY <3>21, <3>22
    <3>13. Rebuilds(s \o dr, x, i)
      BY <3>11, <3>12, <3>17, <3>18, FragmentFirst
    <3>14. Rebuilds(s \o da, y, j)
      BY <3>11, <3>12, <3>17, <3>18, FragmentFirst
    <3>15. f[w].reference = s \o dr /\ f[w].actual = s \o da
      BY SMTT(30), <3>8, <3>9, <3>10
    <3> QED
      BY <3>6, <3>11, <3>13, <3>14, <3>15, <3>18 DEF DiffIsRight
  <2>9. CASE /\ ~(i = lx /\ j = ly) /\ ~(i < lx /\ j < ly /\ x[i + 1] = y[j + 1])
             /\ i < lx /\ (j = ly \/ lcs[<<i + 1, j>>] >= lcs[<<i, j + 1>>])
    <3>14. i < lx
      BY <2>9
    <3>16. <<i + 1, j>> \in D
      BY <2>4, <3>14
    <3>1. PICK u \in D : u = <<i + 1, j>> /\ u[1] = i + 1 /\ u[2] = j
      BY <3>16
    <3>2. PICK d \in BothSides(A) : d = f[u]
      BY <2>5, <3>1
    <3>3. PICK l \in Nat : l = lcs[u]
      BY <2>5, <3>1
    <3>4. DiffIsRight(d, x, y, i + 1, j, l)
      BY <2>5, <3>1, <3>2, <3>3
    <3>6. lcs[w] = l
      <4>1. CASE j = ly
        <5>1. lcs[w] = 0
          BY <1>1, <2>2, <2>3, <4>1 DEF CommonStep
        <5>2. l = CommonStep(x, y, lcs, u)
          BY <1>1, <1>2, <3>3 DEF IsCommon
        <5>3. l = 0
          BY <1>1, <3>1, <4>1, <5>2 DEF CommonStep
        <5> QED
          BY <5>1, <5>3
      <4>2. CASE j # ly
        <5>1. j < ly /\ x[i + 1] # y[j + 1]
          BY <2>9, <4>2
        <5>2. <<i, j + 1>> \in D
          BY <2>4, <5>1
        <5>3. PICK v \in Nat : v = lcs[<<i, j + 1>>]
          BY <2>5, <5>2
        <5>4. w[1] # Len(x) /\ w[2] # Len(y) /\ x[w[1] + 1] # y[w[2] + 1]
          BY <1>1, <2>2, <2>9, <5>1
        <5>5. lcs[w] = Max2(lcs[<<w[1] + 1, w[2]>>], lcs[<<w[1], w[2] + 1>>])
          BY <2>3, <5>4 DEF CommonStep
        <5>6. lcs[w] = Max2(l, v)
          BY <2>2, <3>1, <3>3, <5>3, <5>5
        <5>7. l >= v
          BY <2>9, <3>1, <3>3, <4>2, <5>3
        <5> QED
          BY <5>6, <5>7 DEF Max2
      <4> QED
        BY <4>1, <4>2
    <3>7. PICK s : s = Mark(<<x[i + 1]>>, FALSE)
      OBVIOUS
    <3>8. PICK r : r = [d EXCEPT !.reference = s \o @]
      OBVIOUS
    <3>9. f[w] = r
      BY <1>1, <2>2, <2>3, <2>9, <3>1, <3>2, <3>7, <3>8 DEF DiffStep
    <3>10. PICK dr \in Seq(Fragments(A)), da \in Seq(Fragments(A)) : dr = d.reference /\ da = d.actual
      BY DEF BothSides
    <3>11. /\ Rebuilds(dr, x, i + 1) /\ Rebuilds(da, y, j)
           /\ Kept(dr) = Kept(da) /\ Len(Kept(dr)) = l
      BY <3>4, <3>10 DEF DiffIsRight
    <3>12. i \in Nat /\ i < Len(x)
      BY <1>1, <2>9
    <3>17. PICK c \in A : c = x[i + 1]
      BY <1>1, <2>9, ElementOfSeq
    <3>20. s = Other(c)
      BY <3>7, <3>17 DEF Other
    <3>18. /\ s \in Seq(Fragments(A)) /\ Len(s) = 1 /\ s[1].text = c
           /\ Kept(s \o dr) = Kept(dr)
      BY <3>20, OtherFirst
    <3>13. Rebuilds(s \o dr, x, i)
      BY <3>11, <3>12, <3>17, <3>18, FragmentFirst
    <3>15. f[w].reference = s \o dr /\ f[w].actual = da
      BY <3>8, <3>9, <3>10 DEF BothSides
    <3> QED
      BY <3>6, <3>11, <3>13, <3>15, <3>18 DEF DiffIsRight
  <2>10. CASE /\ ~(i = lx /\ j = ly) /\ ~(i < lx /\ j < ly /\ x[i + 1] = y[j + 1])
              /\ ~(i < lx /\ (j = ly \/ lcs[<<i + 1, j>>] >= lcs[<<i, j + 1>>]))
    <3>16. j < ly
      BY <2>10
    <3>17. <<i, j + 1>> \in D
      BY <2>4, <3>16
    <3>1. PICK u \in D : u = <<i, j + 1>> /\ u[1] = i /\ u[2] = j + 1
      BY <3>17
    <3>2. PICK d \in BothSides(A) : d = f[u]
      BY <2>5, <3>1
    <3>3. PICK l \in Nat : l = lcs[u]
      BY <2>5, <3>1
    <3>4. DiffIsRight(d, x, y, i, j + 1, l)
      BY <2>5, <3>1, <3>2, <3>3
    <3>6. lcs[w] = l
      <4>1. CASE i = lx
        <5>1. lcs[w] = 0
          BY <1>1, <2>2, <2>3, <4>1 DEF CommonStep
        <5>2. l = CommonStep(x, y, lcs, u)
          BY <1>1, <1>2, <3>3 DEF IsCommon
        <5>3. l = 0
          BY <1>1, <3>1, <4>1, <5>2 DEF CommonStep
        <5> QED
          BY <5>1, <5>3
      <4>2. CASE i # lx
        <5>1. i < lx /\ x[i + 1] # y[j + 1]
          BY <2>10, <3>16, <4>2
        <5>2. <<i + 1, j>> \in D
          BY <2>4, <5>1
        <5>3. PICK v \in Nat : v = lcs[<<i + 1, j>>]
          BY <2>5, <5>2
        <5>4. w[1] # Len(x) /\ w[2] # Len(y) /\ x[w[1] + 1] # y[w[2] + 1]
          BY <1>1, <2>2, <3>16, <5>1
        <5>5. lcs[w] = Max2(lcs[<<w[1] + 1, w[2]>>], lcs[<<w[1], w[2] + 1>>])
          BY <2>3, <5>4 DEF CommonStep
        <5>6. lcs[w] = Max2(v, l)
          BY <2>2, <3>1, <3>3, <5>3, <5>5
        <5>7. ~(v >= l)
          BY <2>10, <3>1, <3>3, <5>1, <5>3
        <5> QED
          BY <5>6, <5>7 DEF Max2
      <4> QED
        BY <4>1, <4>2
    <3>7. PICK s : s = Mark(<<y[j + 1]>>, FALSE)
      OBVIOUS
    <3>8. PICK r : r = [d EXCEPT !.actual = s \o @]
      OBVIOUS
    <3>9. f[w] = r
      BY <1>1, <2>2, <2>3, <2>10, <3>1, <3>2, <3>7, <3>8 DEF DiffStep
    <3>10. PICK dr \in Seq(Fragments(A)), da \in Seq(Fragments(A)) : dr = d.reference /\ da = d.actual
      BY DEF BothSides
    <3>11. /\ Rebuilds(dr, x, i) /\ Rebuilds(da, y, j + 1)
           /\ Kept(dr) = Kept(da) /\ Len(Kept(dr)) = l
      BY <3>4, <3>10 DEF DiffIsRight
    <3>12. j \in Nat /\ j < Len(y)
      BY <1>1, <3>16
    <3>19. PICK c \in A : c = y[j + 1]
      BY <1>1, <3>16, ElementOfSeq
    <3>20. s = Other(c)
      BY <3>7, <3>19 DEF Other
    <3>18. /\ s \in Seq(Fragments(A)) /\ Len(s) = 1 /\ s[1].text = c
           /\ Kept(s \o da) = Kept(da)
      BY <3>20, OtherFirst
    <3>13. Rebuilds(s \o da, y, j)
      BY <3>11, <3>12, <3>18, <3>19, FragmentFirst
    <3>15. f[w].reference = dr /\ f[w].actual = s \o da
      BY <3>8, <3>9, <3>10 DEF BothSides
    <3> QED
      BY <3>6, <3>11, <3>13, <3>15, <3>18 DEF DiffIsRight
  <2> QED
    BY <2>7, <2>8, <2>9, <2>10
<1>7. \A w \in D : w \in S
  BY <1>4, <1>6, RankInduction
<1>8. PICK w \in D : w = <<0, 0>> /\ w[1] = 0 /\ w[2] = 0
  <2>1. <<0, 0>> \in D
    BY <1>2 DEF Grid
  <2> QED
    BY <2>1
<1> QED
  BY <1>5, <1>7, <1>8

\* The elements of s after the first i, up to the l-th of them.
Part(s, i, l) == SubSeq(s, i + 1, i + l)

LEMMA PartIs ==
  ASSUME NEW A, NEW s \in Seq(A), NEW i \in Nat, NEW l \in Nat, i + l <= Len(s)
  PROVE  /\ Part(s, i, l) \in Seq(A) /\ Len(Part(s, i, l)) = l
         /\ \A k \in 1..l : Part(s, i, l)[k] = s[i + k]
<1>1. PICK n \in Nat : n = Len(s)
  OBVIOUS
<1>2. PICK u \in Int, v \in Int : u = i + 1 /\ v = i + l
  OBVIOUS
<1>3. \A k \in u..v : s[k] \in A
  <2>1. \A k \in u..v : k \in 1..n
    BY <1>1, <1>2
  <2> QED
    BY <1>1, <2>1, ElementOfSeq
<1>4. PICK t : t = SubSeq(s, u, v)
  OBVIOUS
<1>5. /\ t \in Seq(A) /\ Len(t) = IF u <= v THEN v - u + 1 ELSE 0
      /\ \A k \in 1..(v - u + 1) : t[k] = s[u + k - 1]
  BY <1>3, <1>4, SubSeqProperties
<1>6. Len(t) = l /\ v - u + 1 = l
  BY <1>2, <1>5
<1>7. \A k \in 1..l : u + k - 1 = i + k
  BY <1>2
<1>8. \A k \in 1..l : t[k] = s[i + k]
  BY <1>5, <1>6, <1>7
<1>9. t = Part(s, i, l)
  BY <1>2, <1>4 DEF Part
<1> QED
  BY <1>5, <1>6, <1>8, <1>9

Inner(a, n, p, q) == SubSeq(a, p + 1, n - q)
InThreeParts(A, a, t1, x, t2) ==
  t1 \in Seq(A) /\ x \in Seq(A) /\ t2 \in Seq(A) /\ a = t1 \o x \o t2
Sized(A, s, n) == s \in Seq(A) /\ n \in Nat /\ Len(s) = n
EqualParts(a, b, i, j, l) == \A k \in 1..l : a[i + k] = b[j + k]
HasEnds(s, p, q) == p \in Nat /\ q \in Nat /\ p = s.prefix /\ q = s.suffix

\* A text is its common prefix, its middle and its common suffix.
AreThree(a, n, p, q) == a = Part(a, 0, p) \o SubSeq(a, p + 1, n - q) \o Part(a, n - q, q)

LEMMA InThree ==
  ASSUME NEW A, NEW a \in Seq(A), NEW n \in Nat, n = Len(a), NEW p \in Nat, NEW q \in Nat, p + q <= n
  PROVE  AreThree(a, n, p, q)
<1>1. PICK o \in Nat : o = n - q /\ p <= o /\ o <= n
  OBVIOUS
<1>2. Part(a, 0, p) = SubSeq(a, 1, p)
  <2>1. 0 + 1 = 1 /\ 0 + p = p
    OBVIOUS
  <2> QED
    BY <2>1 DEF Part
<1>3. Part(a, o, q) = SubSeq(a, o + 1, n)
  <2>1. o + q = n
    BY <1>1
  <2> QED
    BY <2>1 DEF Part
<1>4. SubSeq(a, 1, p) \o SubSeq(a, p + 1, o) = SubSeq(a, 1, o)
  <2>1. 1 \in 1..(n + 1) /\ p \in (1 - 1)..n /\ o \in p..n
    BY <1>1
  <2> QED
    BY <2>1, ConcatAdjacentSubSeq
<1>5. SubSeq(a, 1, o) \o SubSeq(a, o + 1, n) = SubSeq(a, 1, n)
  <2>1. 1 \in 1..(n + 1) /\ o \in (1 - 1)..n /\ n \in o..n
    BY <1>1
  <2> QED
    BY <2>1, ConcatAdjacentSubSeq
<1>6. SubSeq(a, 1, n) = a
  BY SubSeqFull
<1>7. a = Part(a, 0, p) \o SubSeq(a, p + 1, n - q) \o Part(a, n - q, q)
  BY <1>1, <1>2, <1>3, <1>4, <1>5, <1>6
<1> QED
  BY Zenon, <1>7 DEF AreThree

LEMMA CharactersAre ==
  ASSUME NEW A, NEW s \in Seq(Fragments(A))
  PROVE  /\ Characters(s) \in Seq(A) /\ Len(Characters(s)) = Len(s)
         /\ \A k \in 1..Len(s) : Characters(s)[k] = s[k].text
<1>1. PICK n \in Nat : n = Len(s)
  OBVIOUS
<1>2. \A k \in 1..n : s[k].text \in A
  <2>1. \A k \in 1..n : s[k] \in Fragments(A)
    BY <1>1, ElementOfSeq
  <2> QED
    BY <2>1 DEF Fragments
<1>3. PICK c : c = Characters(s)
  OBVIOUS
<1>4. c = [k \in 1..n |-> s[k].text]
  BY <1>1, <1>3 DEF Characters
<1>5. c \in [1..n -> A]
  BY <1>2, <1>4
<1>6. c \in Seq(A) /\ Len(c) = n
  BY <1>5
<1> QED
  BY <1>1, <1>3, <1>4, <1>6

LEMMA CharactersJoined ==
  ASSUME NEW A, NEW s \in Seq(Fragments(A)), NEW t \in Seq(Fragments(A))
  PROVE  Characters(s \o t) = Characters(s) \o Characters(t)
<1>1. PICK F : F = Fragments(A)
  OBVIOUS
<1>2. PICK n \in Nat, m \in Nat : n = Len(s) /\ m = Len(t)
  OBVIOUS
<1>3. PICK u : u = s \o t
  OBVIOUS
<1>4. /\ u \in Seq(F) /\ Len(u) = n + m
      /\ \A k \in 1..n : u[k] = s[k]
      /\ \A k \in (n + 1)..(n + m) : u[k] = t[k - n]
  BY <1>1, <1>2, <1>3, ConcatIs
<1>5. PICK x : x = Characters(s)
  OBVIOUS
<1>6. x \in Seq(A) /\ Len(x) = n /\ \A k \in 1..n : x[k] = s[k].text
  BY <1>2, <1>5, CharactersAre
<1>7. PICK y : y = Characters(t)
  OBVIOUS
<1>8. y \in Seq(A) /\ Len(y) = m /\ \A k \in 1..m : y[k] = t[k].text
  BY <1>2, <1>7, CharactersAre
<1>9. PICK v : v = x \o y
  OBVIOUS
<1>10. /\ v \in Seq(A) /\ Len(v) = n + m
       /\ \A k \in 1..n : v[k] = x[k]
       /\ \A k \in (n + 1)..(n + m) : v[k] = y[k - n]
  <2>1. x \in Seq(A) /\ y \in Seq(A) /\ n = Len(x) /\ m = Len(y)
    BY <1>6, <1>8
  <2> QED
    BY <1>9, <2>1, ConcatIs
<1>11. PICK w : w = Characters(u)
  OBVIOUS
<1>12. w \in Seq(A) /\ Len(w) = n + m /\ \A k \in 1..(n + m) : w[k] = u[k].text
  BY <1>1, <1>4, <1>11, CharactersAre
<1>13. \A k \in 1..(n + m) : w[k] = v[k]
  <2> SUFFICES ASSUME NEW k \in 1..(n + m) PROVE w[k] = v[k]
    OBVIOUS
  <2>1. CASE k <= n
    <3>1. k \in 1..n
      BY <2>1
    <3> QED
      BY <1>4, <1>6, <1>10, <1>12, <3>1
  <2>2. CASE k > n
    <3>1. k \in (n + 1)..(n + m) /\ k - n \in 1..m
      BY <2>2
    <3> QED
      BY <1>4, <1>8, <1>10, <1>12, <3>1
  <2> QED
    BY <2>1, <2>2
<1>14. w = v
  BY <1>10, <1>12, <1>13, SeqEqual
<1> QED
  BY <1>3, <1>5, <1>7, <1>9, <1>11, <1>14

AllSame(t) == Mark(t, TRUE)

LEMMA AllSameIs ==
  ASSUME NEW A, NEW t \in Seq(A)
  PROVE  /\ AllSame(t) \in Seq(Fragments(A)) /\ Len(AllSame(t)) = Len(t)
         /\ Kept(AllSame(t)) = AllSame(t) /\ Characters(AllSame(t)) = t
<1>1. PICK n \in Nat : n = Len(t)
  OBVIOUS
<1>2. PICK s : s = AllSame(t)
  OBVIOUS
<1>3. s = Mark(t, TRUE)
  BY <1>2 DEF AllSame
<1>4. /\ s \in Seq(Fragments(A)) /\ Len(s) = n
      /\ \A k \in 1..n : s[k] = [text |-> t[k], same |-> TRUE]
  BY <1>1, <1>3, MarkType
<1>5. ASSUME NEW k \in 1..n
      PROVE  s[k].text = t[k]
  <2>1. PICK e : e = [text |-> t[k], same |-> TRUE]
    OBVIOUS
  <2>2. s[k] = e
    BY <1>4, <2>1
  <2>3. e.text = t[k]
    BY <2>1
  <2> QED
    BY <2>2, <2>3
<1>6. Kept(s) = s
  BY <1>3, KeptOfMark
<1>7. PICK c : c = Characters(s)
  OBVIOUS
<1>8. c \in Seq(A) /\ Len(c) = n /\ \A k \in 1..n : c[k] = s[k].text
  BY <1>4, <1>7, CharactersAre
<1>9. \A k \in 1..n : c[k] = t[k]
  BY <1>5, <1>8
<1>10. c = t
  BY <1>1, <1>8, <1>9, SeqEqual
<1> QED
  BY <1>1, <1>2, <1>4, <1>6, <1>7, <1>10

LEMMA RebuiltIs ==
  ASSUME NEW A, NEW t \in Seq(A), NEW s \in Seq(Fragments(A)), Rebuilds(s, t, 0)
  PROVE  Characters(s) = t
<1>1. PICK n \in Nat : n = Len(t)
  OBVIOUS
<1>2. n - 0 = n /\ \A k \in 1..n : 0 + k = k
  OBVIOUS
<1>3. Len(s) = n /\ \A k \in 1..n : s[k].text = t[k]
  BY <1>1, <1>2 DEF Rebuilds
<1>4. PICK c : c = Characters(s)
  OBVIOUS
<1>5. c \in Seq(A) /\ Len(c) = n /\ \A k \in 1..n : c[k] = s[k].text
  BY <1>3, <1>4, CharactersAre
<1>6. \A k \in 1..n : c[k] = t[k]
  BY <1>3, <1>5
<1> QED
  BY <1>1, <1>4, <1>5, <1>6, SeqEqual

Joined(t1, d, t2) == AllSame(t1) \o d \o AllSame(t2)

LEMMA JoinedIs ==
  ASSUME NEW A, NEW t1 \in Seq(A), NEW x \in Seq(A), NEW t2 \in Seq(A),
         NEW d \in Seq(Fragments(A)), Rebuilds(d, x, 0)
  PROVE  /\ InThreeParts(A, Characters(Joined(t1, d, t2)), t1, x, t2)
         /\ Kept(Joined(t1, d, t2)) = Joined(t1, Kept(d), t2)
<1>1. PICK F : F = Fragments(A)
  OBVIOUS
<1>2. PICK s1 \in Seq(F) : s1 = AllSame(t1) /\ Kept(s1) = s1 /\ Characters(s1) = t1
  BY <1>1, AllSameIs
<1>3. PICK s2 \in Seq(F) : s2 = AllSame(t2) /\ Kept(s2) = s2 /\ Characters(s2) = t2
  BY <1>1, AllSameIs
<1>4. PICK u \in Seq(F) : u = s1 \o d
  BY <1>1, ConcatProperties
<1>5. Characters(u) = t1 \o x
  <2>1. Characters(d) = x
    BY RebuiltIs
  <2>2. Characters(s1 \o d) = Characters(s1) \o Characters(d)
    BY <1>1, CharactersJoined
  <2> QED
    BY <1>2, <1>4, <2>1, <2>2
<1>6. Characters(u \o s2) = t1 \o x \o t2
  <2>1. Characters(u \o s2) = Characters(u) \o Characters(s2)
    BY <1>1, CharactersJoined
  <2> QED
    BY <1>3, <1>5, <2>1
<1>7. Kept(u) = s1 \o Kept(d)
  <2>1. Kept(s1 \o d) = Kept(s1) \o Kept(d)
    BY <1>1, KeptJoined
  <2> QED
    BY <1>2, <1>4, <2>1
<1>8. Kept(u \o s2) = s1 \o Kept(d) \o s2
  <2>1. Kept(u \o s2) = Kept(u) \o Kept(s2)
    BY <1>1, KeptJoined
  <2> QED
    BY <1>3, <1>7, <2>1
<1> QED
  BY <1>2, <1>3, <1>4, <1>6, <1>8 DEF Joined, InThreeParts

LEMMA JoinedLength ==
  ASSUME NEW A, NEW t1 \in Seq(A), NEW t2 \in Seq(A), NEW d \in Seq(Fragments(A)),
         NEW p \in Nat, NEW l \in Nat, NEW q \in Nat, p = Len(t1), l = Len(d), q = Len(t2)
  PROVE  Len(Joined(t1, d, t2)) = p + l + q
<1>1. PICK F : F = Fragments(A)
  OBVIOUS
<1>2. PICK s1 \in Seq(F) : s1 = AllSame(t1) /\ Len(s1) = p
  BY <1>1, AllSameIs
<1>3. PICK s2 \in Seq(F) : s2 = AllSame(t2) /\ Len(s2) = q
  BY <1>1, AllSameIs
<1>4. PICK u \in Seq(F) : u = s1 \o d
  BY <1>1, ConcatProperties
<1>5. Len(u) = p + l
  <2>1. d \in Seq(F)
    BY <1>1
  <2>2. Len(s1 \o d) = Len(s1) + Len(d)
    BY <2>1, ConcatProperties
  <2> QED
    BY <1>2, <1>4, <2>2
<1>6. Len(u \o s2) = Len(u) + Len(s2)
  BY ConcatProperties
<1>7. Len(u \o s2) = p + l + q
  BY <1>3, <1>5, <1>6
<1> QED
  BY <1>2, <1>3, <1>4, <1>7 DEF Joined

LEMMA PartSized ==
  ASSUME NEW A, NEW s, NEW n \in Nat, NEW i \in Nat, NEW l \in Nat, i + l <= n, Sized(A, s, n)
  PROVE  Sized(A, Part(s, i, l), l)
BY PartIs DEF Sized

LEMMA SizedInThree ==
  ASSUME NEW A, NEW a, NEW n \in Nat, NEW p \in Nat, NEW q \in Nat, p + q <= n, Sized(A, a, n)
  PROVE  InThreeParts(A, a, Part(a, 0, p), Inner(a, n, p, q), Part(a, n - q, q))
<1>1. a \in Seq(A) /\ n = Len(a)
  BY DEF Sized
<1>2. a = Part(a, 0, p) \o Inner(a, n, p, q) \o Part(a, n - q, q)
  <2>1. AreThree(a, n, p, q)
    BY <1>1, InThree
  <2> QED
    BY Zenon, <2>1 DEF AreThree, Inner
<1>3. Inner(a, n, p, q) \in Seq(A)
  BY <1>1, MiddleIs DEF Inner
<1>4. PICK i \in Nat : i = n - q
  OBVIOUS
<1>5. 0 + p <= n /\ i + q <= n
  BY <1>4
<1>6. Sized(A, Part(a, 0, p), p)
  BY <1>5, PartSized
<1>7. Sized(A, Part(a, i, q), q)
  BY <1>5, PartSized
<1>8. Part(a, 0, p) \in Seq(A) /\ Part(a, n - q, q) \in Seq(A)
  BY <1>4, <1>6, <1>7 DEF Sized
<1> QED
  BY <1>2, <1>3, <1>8 DEF InThreeParts

PartOf(u, A, s, i, l) == u \in Seq(A) /\ Len(u) = l /\ \A k \in 1..l : u[k] = s[i + k]

LEMMA SizedPart ==
  ASSUME NEW A, NEW s, NEW n \in Nat, NEW i \in Nat, NEW l \in Nat, i + l <= n, Sized(A, s, n)
  PROVE  PartOf(Part(s, i, l), A, s, i, l)
<1>1. s \in Seq(A) /\ i + l <= Len(s)
  BY DEF Sized
<1>2. /\ Part(s, i, l) \in Seq(A) /\ Len(Part(s, i, l)) = l
      /\ \A k \in 1..l : Part(s, i, l)[k] = s[i + k]
  BY SMTT(30), <1>1, PartIs
<1> QED
  BY Zenon, <1>2 DEF PartOf

LEMMA EqualPartsAgree ==
  ASSUME NEW A, NEW s, NEW t, NEW n \in Nat, NEW m \in Nat, NEW i \in Nat, NEW j \in Nat, NEW l \in Nat,
         i + l <= n, j + l <= m, Sized(A, s, n), Sized(A, t, m), EqualParts(s, t, i, j, l)
  PROVE  Part(s, i, l) = Part(t, j, l)
<1>1. PICK u : u = Part(s, i, l)
  OBVIOUS
<1>2. PICK v : v = Part(t, j, l)
  OBVIOUS
<1>3. PartOf(u, A, s, i, l) /\ PartOf(v, A, t, j, l)
  BY <1>1, <1>2, SizedPart
<1>4. u \in Seq(A) /\ Len(u) = l /\ \A k \in 1..l : u[k] = s[i + k]
  BY <1>3 DEF PartOf
<1>5. v \in Seq(A) /\ Len(v) = l /\ \A k \in 1..l : v[k] = t[j + k]
  BY <1>3 DEF PartOf
<1>6. \A k \in 1..l : u[k] = v[k]
  BY <1>4, <1>5 DEF EqualParts
<1> QED
  BY <1>1, <1>2, <1>4, <1>5, <1>6, SeqEqual

Middles(s, x, y) == x = s.a /\ y = s.b

SameEnds(a, b, n, m, p, q) ==
  p + q <= n /\ p + q <= m /\ EqualParts(a, b, 0, 0, p) /\ EqualParts(a, b, n - q, m - q, q)

LEMMA EndsAreEqual ==
  ASSUME NEW A, NEW a, NEW b, NEW n \in Nat, NEW m \in Nat, Sized(A, a, n), Sized(A, b, m),
         NEW s, Ends(s, a, b), NEW p \in Nat, NEW q \in Nat, HasEnds(s, p, q), NEW x, NEW y, Middles(s, x, y)
  PROVE  SameEnds(a, b, n, m, p, q) /\ x = Inner(a, n, p, q) /\ y = Inner(b, m, p, q)
<1>1. p = s.prefix /\ q = s.suffix /\ n = Len(a) /\ m = Len(b)
  BY DEF HasEnds, Sized
<1>2. p + q <= n /\ p + q <= m
  BY <1>1 DEF Ends
<1>3. \A k \in 1..p : a[k] = b[k]
  BY <1>1 DEF Ends
<1>4. \A k \in 1..p : 0 + k = k
  OBVIOUS
<1>5. EqualParts(a, b, 0, 0, p)
  BY <1>3, <1>4 DEF EqualParts
<1>6. \A k \in 1..q : a[(n - q) + k] = b[(m - q) + k]
  BY <1>1 DEF Ends
<1>7. x = Inner(a, n, p, q) /\ y = Inner(b, m, p, q)
  BY <1>1 DEF Ends, Middles, Inner
<1> QED
  BY <1>2, <1>5, <1>6, <1>7 DEF EqualParts, SameEnds

LEMMA BothInThree ==
  ASSUME NEW A, NEW a, NEW b, NEW n \in Nat, NEW m \in Nat, Sized(A, a, n), Sized(A, b, m),
         NEW s, Ends(s, a, b), NEW p \in Nat, NEW q \in Nat, HasEnds(s, p, q), NEW x, NEW y, Middles(s, x, y)
  PROVE  LET t1 == Part(a, 0, p)  t2 == Part(a, n - q, q)
         IN /\ Sized(A, t1, p) /\ Sized(A, t2, q)
            /\ InThreeParts(A, a, t1, x, t2) /\ InThreeParts(A, b, t1, y, t2)
<1>3. SameEnds(a, b, n, m, p, q) /\ x = Inner(a, n, p, q) /\ y = Inner(b, m, p, q)
  BY EndsAreEqual
<1>1. /\ p + q <= n /\ p + q <= m
      /\ EqualParts(a, b, 0, 0, p) /\ EqualParts(a, b, n - q, m - q, q)
      /\ x = Inner(a, n, p, q) /\ y = Inner(b, m, p, q)
  BY <1>3 DEF SameEnds
<1>2. PICK i \in Nat, j \in Nat : i = n - q /\ j = m - q
  BY <1>1
<1>5. 0 + p <= n /\ 0 + p <= m /\ i + q <= n /\ j + q <= m
  BY <1>1, <1>2
<1>6. Part(a, 0, p) = Part(b, 0, p)
  BY <1>1, <1>5, EqualPartsAgree
<1>7. Part(a, i, q) = Part(b, j, q)
  BY <1>1, <1>2, <1>5, EqualPartsAgree
<1>8. InThreeParts(A, a, Part(a, 0, p), Inner(a, n, p, q), Part(a, n - q, q))
  BY <1>1, SizedInThree
<1>9. InThreeParts(A, b, Part(b, 0, p), Inner(b, m, p, q), Part(b, m - q, q))
  BY <1>1, SizedInThree
<1>10. Sized(A, Part(a, 0, p), p)
  BY <1>5, PartSized
<1>11. Sized(A, Part(a, i, q), q)
  BY <1>5, PartSized
<1> QED
  BY <1>1, <1>2, <1>6, <1>7, <1>8, <1>9, <1>10, <1>11

BothKept(A, r, c, t1, x, y, t2, l) ==
  /\ InThreeParts(A, Characters(r), t1, x, t2) /\ InThreeParts(A, Characters(c), t1, y, t2)
  /\ Kept(r) = Kept(c) /\ Len(Kept(r)) = l

LEMMA BothJoined ==
  ASSUME NEW A, NEW t1 \in Seq(A), NEW x \in Seq(A), NEW y \in Seq(A), NEW t2 \in Seq(A),
         NEW p \in Nat, NEW q \in Nat, NEW l \in Nat, Sized(A, t1, p), Sized(A, t2, q),
         NEW dr \in Seq(Fragments(A)), NEW da \in Seq(Fragments(A)),
         NEW w, dr = w.reference, da = w.actual, DiffIsRight(w, x, y, 0, 0, l),
         NEW k, k = p + q + l
  PROVE  BothKept(A, Joined(t1, dr, t2), Joined(t1, da, t2), t1, x, y, t2, k)
<1>1. Rebuilds(dr, x, 0) /\ Rebuilds(da, y, 0) /\ Kept(dr) = Kept(da) /\ Len(Kept(dr)) = l
  BY DEF DiffIsRight
<1>2. /\ InThreeParts(A, Characters(Joined(t1, dr, t2)), t1, x, t2)
      /\ Kept(Joined(t1, dr, t2)) = Joined(t1, Kept(dr), t2)
  BY <1>1, JoinedIs
<1>3. /\ InThreeParts(A, Characters(Joined(t1, da, t2)), t1, y, t2)
      /\ Kept(Joined(t1, da, t2)) = Joined(t1, Kept(da), t2)
  BY <1>1, JoinedIs
<1>4. PICK e \in Seq(Fragments(A)) : e = Kept(dr) /\ e = Kept(da) /\ Len(e) = l
  BY <1>1, KeptType
<1>5. Len(t1) = p /\ Len(t2) = q
  BY DEF Sized
<1>6. Len(Joined(t1, e, t2)) = p + l + q
  BY <1>4, <1>5, JoinedLength
<1> QED
  BY <1>2, <1>3, <1>4, <1>6 DEF BothKept

\* CharacterDiff::Diff rebuilds both texts, keeps the same fragments on both
\* sides, and keeps as many as the two texts can have in common.
THEOREM DiffIsSound ==
  ASSUME NEW A, NEW a \in Seq(A), NEW b \in Seq(A)
  PROVE  /\ Characters(Diff(a, b).reference) = a
         /\ Characters(Diff(a, b).actual) = b
         /\ Kept(Diff(a, b).reference) = Kept(Diff(a, b).actual)
         /\ Len(Kept(Diff(a, b).reference)) = CommonCount(a, b)
<1>1. PICK s : s = Strip(a, b)
  OBVIOUS
<1>2. Ends(s, a, b)
  BY <1>1, StripIs
<1>3. PICK p \in Nat, q \in Nat : p = s.prefix /\ q = s.suffix
  BY <1>2 DEF Ends
<1>4. PICK n \in Nat, m \in Nat : n = Len(a) /\ m = Len(b)
  OBVIOUS
<1>5. PICK t1 : t1 = Part(a, 0, p)
  OBVIOUS
<1>6. PICK t2 : t2 = Part(a, n - q, q)
  OBVIOUS
<1>7. PICK x, y : x = s.a /\ y = s.b
  OBVIOUS
<1>8. Sized(A, a, n) /\ Sized(A, b, m) /\ HasEnds(s, p, q) /\ Middles(s, x, y)
  BY <1>3, <1>4, <1>7 DEF Sized, HasEnds, Middles
<1>9. /\ Sized(A, t1, p) /\ Sized(A, t2, q)
      /\ InThreeParts(A, a, t1, x, t2) /\ InThreeParts(A, b, t1, y, t2)
  BY <1>2, <1>5, <1>6, <1>8, BothInThree
<1>40. t1 \in Seq(A) /\ t2 \in Seq(A) /\ x \in Seq(A) /\ y \in Seq(A)
  BY <1>9 DEF InThreeParts
<1>10. PICK f : f = CommonAfter(x, y)
  OBVIOUS
<1>11. IsCommon(f, x, y)
  BY <1>10, <1>40, CommonAfterIs
<1>12. PICK h : h = DiffAfter(x, y, f)
  OBVIOUS
<1>13. IsDiff(h, A, x, y, f)
  BY <1>12, <1>40, DiffAfterIs
<1>14. <<0, 0>> \in Grid(Len(x), Len(y))
  BY <1>40 DEF Grid
<1>15. PICK w \in BothSides(A) : w = h[<<0, 0>>]
  BY <1>13, <1>14 DEF IsDiff
<1>16. PICK l \in Nat : l = f[<<0, 0>>]
  BY <1>11, <1>14 DEF IsCommon
<1>17. DiffIsRight(w, x, y, 0, 0, l)
  BY <1>11, <1>13, <1>15, <1>16, <1>40, WalkIsRight
<1>18. PICK dr \in Seq(Fragments(A)), da \in Seq(Fragments(A)) : dr = w.reference /\ da = w.actual
  BY DEF BothSides
<1>29. PICK z : z = Diff(a, b)
  OBVIOUS
<1>30. z.reference = Joined(t1, dr, t2) /\ z.actual = Joined(t1, da, t2)
  <2>1. PICK r : r = [reference |-> Joined(t1, dr, t2), actual |-> Joined(t1, da, t2)]
    OBVIOUS
  <2>2. t1 = SubSeq(a, 1, p) /\ t2 = SubSeq(a, n - q + 1, n)
    <3>1. 0 + 1 = 1 /\ 0 + p = p /\ (n - q) + q = n
      OBVIOUS
    <3> QED
      BY <1>5, <1>6, <3>1 DEF Part
  <2>3. z = r
    BY <2>2, <1>1, <1>3, <1>4, <1>5, <1>6, <1>7, <1>10, <1>12, <1>15, <1>18, <1>29, <2>1 DEF Diff, Joined, AllSame
  <2> QED
    BY <2>1, <2>3
<1>31. PICK k \in Nat : k = p + q + l
  OBVIOUS
<1>32. BothKept(A, Joined(t1, dr, t2), Joined(t1, da, t2), t1, x, y, t2, k)
  BY <1>9, <1>17, <1>18, <1>31, <1>40, BothJoined
<1>35. CommonCount(a, b) = k
  BY <1>1, <1>3, <1>7, <1>10, <1>16, <1>31 DEF CommonCount
<1>37. /\ Characters(Joined(t1, dr, t2)) = a /\ Characters(Joined(t1, da, t2)) = b
       /\ Kept(Joined(t1, dr, t2)) = Kept(Joined(t1, da, t2)) /\ Len(Kept(Joined(t1, dr, t2))) = k
  BY <1>9, <1>32 DEF InThreeParts, BothKept
<1> QED
  BY <1>29, <1>30, <1>35, <1>37

-----------------------------------------------------------------------------
(* The distances of two texts and the edits between them.                  *)

LEMMA MinOfThree ==
  ASSUME NEW x \in Int, NEW y \in Int, NEW z \in Int
  PROVE  Min({x, y, z}) = Lesser(Lesser(x, y), z)
<1>1. PICK v \in Int : v = Lesser(Lesser(x, y), z)
  BY DEF Lesser
<1>2. v \in {x, y, z} /\ v <= x /\ v <= y /\ v <= z
  BY <1>1 DEF Lesser
<1>3. PICK S : S = {x, y, z}
  OBVIOUS
<1>4. S \in SUBSET Int /\ v \in S /\ \A e \in S : v <= e
  BY <1>2, <1>3
<1> QED
  BY <1>1, <1>3, <1>4, MinIs

DistanceStep(a, b, f, p) ==
  LET i == p[1]  j == p[2]
  IN IF i = 0 \/ j = 0 THEN i + j
     ELSE Min({f[<<i - 1, j>>] + 1, f[<<i, j - 1>>] + 1,
               f[<<i - 1, j - 1>>] + IF a[i] = b[j] THEN 0 ELSE 1})

\* What a position looks back at.
BackFrom(n, m, D, p, i, j) ==
  /\ p = <<i, j>> /\ p[1] = i /\ p[2] = j
  /\ i # 0 => <<i - 1, j>> \in Under(D, Before(n, m), p)
  /\ j # 0 => <<i, j - 1>> \in Under(D, Before(n, m), p)
  /\ (i # 0 /\ j # 0) => <<i - 1, j - 1>> \in Under(D, Before(n, m), p)

LEMMA LooksBack ==
  ASSUME NEW n \in Nat, NEW m \in Nat, NEW D, D = Grid(n, m), NEW p \in D
  PROVE  \E i \in 0..n, j \in 0..m : BackFrom(n, m, D, p, i, j)
<1>1. p[1] \in 0..n /\ p[2] \in 0..m /\ p = <<p[1], p[2]>>
  BY GridIs
<1>2. PICK i \in 0..n, j \in 0..m : p = <<i, j>> /\ p[1] = i /\ p[2] = j
  BY <1>1
<1>3. ASSUME NEW q \in D, q[1] <= i, q[2] <= j, q # p
      PROVE  q \in Under(D, Before(n, m), p)
  BY <1>2, <1>3, RankOfGrid DEF Under
<1>4. D = (0..n) \X (0..m)
  BY DEF Grid
<1>5. ASSUME i # 0
      PROVE  <<i - 1, j>> \in Under(D, Before(n, m), p)
  <2>1. i - 1 \in 0..n
    BY <1>5
  <2>2. <<i - 1, j>> \in D
    BY <1>4, <2>1
  <2>3. PICK q \in D : q = <<i - 1, j>>
    BY <2>2
  <2>4. q[1] <= i /\ q[2] <= j /\ q # p
    BY <1>2, <1>5, <2>3
  <2> QED
    BY <1>3, <2>3, <2>4
<1>6. ASSUME j # 0
      PROVE  <<i, j - 1>> \in Under(D, Before(n, m), p)
  <2>1. j - 1 \in 0..m
    BY <1>6
  <2>2. <<i, j - 1>> \in D
    BY <1>4, <2>1
  <2>3. PICK q \in D : q = <<i, j - 1>>
    BY <2>2
  <2>4. q[1] <= i /\ q[2] <= j /\ q # p
    BY <1>2, <1>6, <2>3
  <2> QED
    BY <1>3, <2>3, <2>4
<1>7. ASSUME i # 0, j # 0
      PROVE  <<i - 1, j - 1>> \in Under(D, Before(n, m), p)
  <2>1. i - 1 \in 0..n /\ j - 1 \in 0..m
    BY <1>7
  <2>2. <<i - 1, j - 1>> \in D
    BY <1>4, <2>1
  <2>3. PICK q \in D : q = <<i - 1, j - 1>>
    BY <2>2
  <2>4. q[1] <= i /\ q[2] <= j /\ q # p
    BY <1>2, <1>7, <2>3
  <2> QED
    BY <1>3, <2>3, <2>4
<1> QED
  BY <1>2, <1>5, <1>6, <1>7 DEF BackFrom

LEMMA DistanceStepLooksBack ==
  ASSUME NEW A, NEW a \in Seq(A), NEW b \in Seq(A), NEW D, D = Grid(Len(a), Len(b)),
         NEW p \in D, NEW f, NEW h,
         \A q \in Under(D, Before(Len(a), Len(b)), p) : f[q] = h[q] /\ f[q] \in Nat
  PROVE  DistanceStep(a, b, f, p) = DistanceStep(a, b, h, p) /\ DistanceStep(a, b, f, p) \in Nat
<1>1. PICK n \in Nat, m \in Nat : n = Len(a) /\ m = Len(b)
  OBVIOUS
<1>5. PICK i \in 0..n, j \in 0..m : BackFrom(n, m, D, p, i, j)
  BY <1>1, LooksBack
<1>2. /\ p = <<i, j>> /\ p[1] = i /\ p[2] = j
      /\ i # 0 => <<i - 1, j>> \in Under(D, Before(n, m), p)
      /\ j # 0 => <<i, j - 1>> \in Under(D, Before(n, m), p)
      /\ (i # 0 /\ j # 0) => <<i - 1, j - 1>> \in Under(D, Before(n, m), p)
  BY <1>5 DEF BackFrom
<1>3. CASE i = 0 \/ j = 0
  BY <1>2, <1>3 DEF DistanceStep
<1>4. CASE i # 0 /\ j # 0
  <2>1. PICK x \in Nat : x = f[<<i - 1, j>>] /\ x = h[<<i - 1, j>>]
    BY <1>1, <1>2, <1>4
  <2>2. PICK y \in Nat : y = f[<<i, j - 1>>] /\ y = h[<<i, j - 1>>]
    BY <1>1, <1>2, <1>4
  <2>3. PICK z \in Nat : z = f[<<i - 1, j - 1>>] /\ z = h[<<i - 1, j - 1>>]
    BY <1>1, <1>2, <1>4
  <2>4. PICK c \in Nat : c = IF a[i] = b[j] THEN 0 ELSE 1
    OBVIOUS
  <2>5. DistanceStep(a, b, f, p) = Min({x + 1, y + 1, z + c}) /\ DistanceStep(a, b, h, p) = Min({x + 1, y + 1, z + c})
    BY <1>2, <1>4, <2>1, <2>2, <2>3, <2>4 DEF DistanceStep
  <2>6. Min({x + 1, y + 1, z + c}) = Lesser(Lesser(x + 1, y + 1), z + c)
    BY MinOfThree
  <2>7. Lesser(Lesser(x + 1, y + 1), z + c) \in Nat
    BY DEF Lesser
  <2> QED
    BY <2>5, <2>6, <2>7
<1> QED
  BY <1>3, <1>4

IsDistance(f, a, b) ==
  /\ f \in [Grid(Len(a), Len(b)) -> Nat]
  /\ \A p \in Grid(Len(a), Len(b)) : f[p] = DistanceStep(a, b, f, p)

LEMMA DistancesExist ==
  ASSUME NEW A, NEW a \in Seq(A), NEW b \in Seq(A)
  PROVE  \E f : IsDistance(f, a, b)
<1>1. Len(a) \in Nat /\ Len(b) \in Nat
  OBVIOUS
<1>2. PICK D : D = Grid(Len(a), Len(b))
  OBVIOUS
<1>3. PICK rank : rank = Before(Len(a), Len(b))
  OBVIOUS
<1>4. PICK N \in Nat : N = Len(a) + Len(b)
  BY <1>1
<1>5. rank \in [D -> 0..N]
  BY <1>1, <1>2, <1>3, <1>4, RankOfGrid
<1>6. PICK V : V = Nat
  OBVIOUS
<1>7. PICK Dom : Dom = (UNION {[Under(D, rank, p) -> V] : p \in D}) \X D
  OBVIOUS
<1> DEFINE step == [x \in Dom |-> DistanceStep(a, b, x[1], x[2])]
<1>8. ASSUME NEW p \in D, NEW h \in [Under(D, rank, p) -> V]
      PROVE  step[<<h, p>>] = DistanceStep(a, b, h, p) /\ step[<<h, p>>] \in V
  <2>1. PICK x : x = <<h, p>>
    OBVIOUS
  <2>2. x \in Dom /\ x[1] = h /\ x[2] = p
    BY <1>7, <2>1
  <2>3. step[x] = DistanceStep(a, b, x[1], x[2])
    BY <2>2
  <2>4. DistanceStep(a, b, h, p) \in Nat
    <3>1. \A q \in Under(D, Before(Len(a), Len(b)), p) : h[q] = h[q] /\ h[q] \in Nat
      BY <1>3, <1>6
    <3> QED
      BY <1>2, <3>1, DistanceStepLooksBack
  <2> HIDE DEF step
  <2> QED
    BY <1>6, <2>1, <2>2, <2>3, <2>4
<1>9. Typed(D, V, rank, step)
  <2> HIDE DEF step
  <2> QED
    BY <1>8 DEF Typed
<1>10. PICK f : Solves(f, D, D, V, rank, step)
  <2> HIDE DEF step
  <2> QED
    BY <1>5, <1>9, RecursionExists
<1>11. ASSUME NEW p \in D
       PROVE  f[p] = DistanceStep(a, b, f, p)
  <2>1. PICK h : h = Known(f, D, rank, p)
    OBVIOUS
  <2>2. Under(D, rank, p) \subseteq D /\ f \in [D -> V]
    BY <1>10 DEF Under, Solves
  <2>3. h \in [Under(D, rank, p) -> V] /\ \A q \in Under(D, rank, p) : h[q] = f[q] /\ h[q] \in V
    BY <2>1, <2>2 DEF Known
  <2>4. f[p] = step[<<h, p>>]
    BY <1>10, <2>1 DEF Solves
  <2>5. step[<<h, p>>] = DistanceStep(a, b, h, p)
    BY <1>8, <2>3
  <2>6. DistanceStep(a, b, h, p) = DistanceStep(a, b, f, p)
    <3>1. \A q \in Under(D, Before(Len(a), Len(b)), p) : h[q] = f[q] /\ h[q] \in Nat
      BY <1>3, <1>6, <2>3
    <3> HIDE DEF step
    <3> QED
      BY <1>2, <3>1, DistanceStepLooksBack
  <2> HIDE DEF step
  <2> QED
    BY <2>4, <2>5, <2>6
<1>12. f \in [D -> Nat]
  BY <1>6, <1>10 DEF Solves
<1> QED
  BY <1>2, <1>11, <1>12 DEF IsDistance

LEMMA DistancesAre ==
  ASSUME NEW A, NEW a \in Seq(A), NEW b \in Seq(A)
  PROVE  IsDistance(Distances(a, b), a, b)
<1>1. PICK D : D = Grid(Len(a), Len(b))
  OBVIOUS
<1> DEFINE Eq(f) == f = [p \in D |-> DistanceStep(a, b, f, p)]
<1>2. Distances(a, b) = CHOOSE f : Eq(f)
  BY <1>1 DEF Distances, DistanceStep, Grid
<1>3. PICK f : IsDistance(f, a, b)
  BY DistancesExist
<1>4. Eq(f)
  BY <1>1, <1>3 DEF IsDistance
<1>5. PICK F : F = Distances(a, b)
  OBVIOUS
<1>6. Eq(F)
  <2> HIDE DEF Eq
  <2> QED
    BY <1>2, <1>4, <1>5
<1>7. PICK rank : rank = Before(Len(a), Len(b))
  OBVIOUS
<1>8. rank \in [D -> Nat]
  BY <1>1, <1>7, RankOfGrid
<1>9. ASSUME NEW p \in D, \A q \in Under(D, rank, p) : f[q] = F[q]
      PROVE  f[p] = F[p]
  <2>1. \A q \in Under(D, Before(Len(a), Len(b)), p) : f[q] = F[q] /\ f[q] \in Nat
    BY <1>1, <1>3, <1>7, <1>9 DEF IsDistance, Under
  <2>2. DistanceStep(a, b, f, p) = DistanceStep(a, b, F, p)
    BY <1>1, <2>1, DistanceStepLooksBack
  <2> QED
    BY <1>4, <1>6, <2>2
<1>10. f = F
  <2>1. IsFcn(f, D) /\ IsFcn(F, D)
    BY <1>4, <1>6 DEF IsFcn
  <2>2. Settled(f, F, D, rank)
    BY <1>9 DEF Settled
  <2> QED
    BY <1>8, <2>1, <2>2, OneSolution
<1> QED
  BY <1>3, <1>5, <1>10

Edits == [s : Nat, d : Nat, i : Nat]

Matched(r, a, dp, p) ==
  p[1] > 0 /\ p[2] > 0 /\ r[p[1]] = a[p[2]] /\ dp[p] = dp[<<p[1] - 1, p[2] - 1>>]
Substituted(dp, p) == p[1] > 0 /\ p[2] > 0 /\ dp[p] = dp[<<p[1] - 1, p[2] - 1>>] + 1
Deleted(dp, p) == p[1] > 0 /\ dp[p] = dp[<<p[1] - 1, p[2]>>] + 1
Inserted(dp, p) == p[2] > 0 /\ dp[p] = dp[<<p[1], p[2] - 1>>] + 1

LEMMA SomeEdit ==
  ASSUME NEW A, NEW r \in Seq(A), NEW a \in Seq(A), NEW dp, IsDistance(dp, r, a),
         NEW p \in Grid(Len(r), Len(a))
  PROVE  \/ p[1] = 0 /\ p[2] = 0 /\ dp[p] = 0
         \/ Matched(r, a, dp, p) \/ Substituted(dp, p) \/ Deleted(dp, p) \/ Inserted(dp, p)
<1>1. PICK n \in Nat, m \in Nat : n = Len(r) /\ m = Len(a)
  OBVIOUS
<1>2. PICK D : D = Grid(n, m)
  OBVIOUS
<1>3. PICK i \in 0..n, j \in 0..m : BackFrom(n, m, D, p, i, j)
  BY <1>1, <1>2, LooksBack
<1>4. /\ p = <<i, j>> /\ p[1] = i /\ p[2] = j
      /\ i # 0 => <<i - 1, j>> \in D
      /\ j # 0 => <<i, j - 1>> \in D
      /\ (i # 0 /\ j # 0) => <<i - 1, j - 1>> \in D
  BY <1>3 DEF BackFrom, Under
<1>5. ASSUME NEW q \in D
      PROVE  dp[q] \in Nat /\ dp[q] = DistanceStep(r, a, dp, q)
  BY <1>1, <1>2 DEF IsDistance
<1>6. PICK v \in Nat : v = dp[p] /\ v = DistanceStep(r, a, dp, p)
  BY <1>1, <1>2, <1>5
<1>7. CASE i = 0 /\ j = 0
  BY <1>4, <1>6, <1>7 DEF DistanceStep
<1>8. CASE i # 0 /\ j = 0
  <2>1. v = i
    BY <1>4, <1>6, <1>8 DEF DistanceStep
  <2>2. PICK q \in D : q = <<i - 1, j>> /\ q[1] = i - 1 /\ q[2] = j
    BY <1>4, <1>8
  <2>3. dp[q] = i - 1
    <3>1. dp[q] = DistanceStep(r, a, dp, q)
      BY <1>5
    <3>2. DistanceStep(r, a, dp, q) = q[1] + q[2]
      BY <1>8, <2>2 DEF DistanceStep
    <3> QED
      BY <1>8, <2>2, <3>1, <3>2
  <2> QED
    BY <1>4, <1>6, <1>8, <2>1, <2>2, <2>3 DEF Deleted
<1>9. CASE i = 0 /\ j # 0
  <2>1. v = j
    BY <1>4, <1>6, <1>9 DEF DistanceStep
  <2>2. PICK q \in D : q = <<i, j - 1>> /\ q[1] = i /\ q[2] = j - 1
    BY <1>4, <1>9
  <2>3. dp[q] = j - 1
    <3>1. dp[q] = DistanceStep(r, a, dp, q)
      BY <1>5
    <3>2. DistanceStep(r, a, dp, q) = q[1] + q[2]
      BY <1>9, <2>2 DEF DistanceStep
    <3> QED
      BY <1>9, <2>2, <3>1, <3>2
  <2> QED
    BY <1>4, <1>6, <1>9, <2>1, <2>2, <2>3 DEF Inserted
<1>10. CASE i # 0 /\ j # 0
  <2>1. PICK x \in Nat : x = dp[<<i - 1, j>>]
    BY <1>4, <1>5, <1>10
  <2>2. PICK y \in Nat : y = dp[<<i, j - 1>>]
    BY <1>4, <1>5, <1>10
  <2>3. PICK z \in Nat : z = dp[<<i - 1, j - 1>>]
    BY <1>4, <1>5, <1>10
  <2>4. PICK c \in Nat : c = IF r[i] = a[j] THEN 0 ELSE 1
    OBVIOUS
  <2>5. v = Min({x + 1, y + 1, z + c})
    BY <1>4, <1>6, <1>10, <2>1, <2>2, <2>3, <2>4 DEF DistanceStep
  <2>6. v = Lesser(Lesser(x + 1, y + 1), z + c)
    BY <2>5, MinOfThree
  <2>7. v = x + 1 \/ v = y + 1 \/ v = z + c
    BY <2>6 DEF Lesser
  <2>8. CASE v = x + 1
    BY <1>4, <1>6, <1>10, <2>1, <2>8 DEF Deleted
  <2>9. CASE v = y + 1
    BY <1>4, <1>6, <1>10, <2>2, <2>9 DEF Inserted
  <2>10. CASE v = z + c /\ r[i] = a[j]
    BY <1>4, <1>6, <1>10, <2>3, <2>4, <2>10 DEF Matched
  <2>11. CASE v = z + c /\ r[i] # a[j]
    BY <1>4, <1>6, <1>10, <2>3, <2>4, <2>11 DEF Substituted
  <2> QED
    BY <2>7, <2>8, <2>9, <2>10, <2>11
<1> QED
  BY <1>7, <1>8, <1>9, <1>10

EditStep(r, a, dp, f, p) ==
  LET n == p[1]  m == p[2]
  IN IF n = 0 /\ m = 0 THEN NoEdits
     ELSE IF Matched(r, a, dp, p) THEN f[<<n - 1, m - 1>>]
     ELSE IF Substituted(dp, p) THEN [f[<<n - 1, m - 1>>] EXCEPT !.s = @ + 1]
     ELSE IF Deleted(dp, p) THEN [f[<<n - 1, m>>] EXCEPT !.d = @ + 1]
     ELSE [f[<<n, m - 1>>] EXCEPT !.i = @ + 1]

LEMMA OneMore ==
  ASSUME NEW e \in Edits
  PROVE  /\ [e EXCEPT !.s = @ + 1] = [s |-> e.s + 1, d |-> e.d, i |-> e.i]
         /\ [e EXCEPT !.d = @ + 1] = [s |-> e.s, d |-> e.d + 1, i |-> e.i]
         /\ [e EXCEPT !.i = @ + 1] = [s |-> e.s, d |-> e.d, i |-> e.i + 1]
         /\ [e EXCEPT !.s = @ + 1] \in Edits
         /\ [e EXCEPT !.d = @ + 1] \in Edits
         /\ [e EXCEPT !.i = @ + 1] \in Edits
         /\ NoEdits \in Edits
BY DEF Edits, NoEdits

LEMMA EditStepLooksBack ==
  ASSUME NEW A, NEW r \in Seq(A), NEW a \in Seq(A), NEW dp, IsDistance(dp, r, a),
         NEW D, D = Grid(Len(r), Len(a)), NEW p \in D, NEW f, NEW h,
         \A q \in Under(D, Before(Len(r), Len(a)), p) : f[q] = h[q] /\ f[q] \in Edits
  PROVE  EditStep(r, a, dp, f, p) = EditStep(r, a, dp, h, p) /\ EditStep(r, a, dp, f, p) \in Edits
<1>1. PICK n \in Nat, m \in Nat : n = Len(r) /\ m = Len(a)
  OBVIOUS
<1>2. PICK i \in 0..n, j \in 0..m : BackFrom(n, m, D, p, i, j)
  BY <1>1, LooksBack
<1>3. /\ p = <<i, j>> /\ p[1] = i /\ p[2] = j
      /\ i # 0 => <<i - 1, j>> \in Under(D, Before(n, m), p)
      /\ j # 0 => <<i, j - 1>> \in Under(D, Before(n, m), p)
      /\ (i # 0 /\ j # 0) => <<i - 1, j - 1>> \in Under(D, Before(n, m), p)
  BY <1>2 DEF BackFrom
<1>4. \/ i = 0 /\ j = 0
      \/ Matched(r, a, dp, p) \/ Substituted(dp, p) \/ Deleted(dp, p) \/ Inserted(dp, p)
  BY <1>1, <1>3, SomeEdit
<1>5. CASE i = 0 /\ j = 0
  BY <1>3, <1>5, OneMore DEF EditStep, NoEdits, Edits
<1>6. ASSUME i # 0, j # 0
      PROVE  f[<<i - 1, j - 1>>] = h[<<i - 1, j - 1>>] /\ f[<<i - 1, j - 1>>] \in Edits
  BY <1>1, <1>3, <1>6
<1>7. CASE ~(i = 0 /\ j = 0) /\ Matched(r, a, dp, p)
  <2>1. i # 0 /\ j # 0
    BY <1>3, <1>7 DEF Matched
  <2>2. /\ EditStep(r, a, dp, f, p) = f[<<i - 1, j - 1>>]
        /\ EditStep(r, a, dp, h, p) = h[<<i - 1, j - 1>>]
    BY <1>3, <1>7 DEF EditStep
  <2> QED
    BY <1>6, <2>1, <2>2
<1>8. CASE ~(i = 0 /\ j = 0) /\ ~Matched(r, a, dp, p) /\ Substituted(dp, p)
  <2>1. i # 0 /\ j # 0
    BY <1>3, <1>8 DEF Substituted
  <2>2. PICK e \in Edits : e = f[<<i - 1, j - 1>>] /\ e = h[<<i - 1, j - 1>>]
    BY <1>6, <2>1
  <2>3. /\ EditStep(r, a, dp, f, p) = [e EXCEPT !.s = @ + 1]
        /\ EditStep(r, a, dp, h, p) = [e EXCEPT !.s = @ + 1]
    BY <1>3, <1>8, <2>2 DEF EditStep
  <2> QED
    BY <2>3, OneMore
<1>9. CASE ~(i = 0 /\ j = 0) /\ ~Matched(r, a, dp, p) /\ ~Substituted(dp, p) /\ Deleted(dp, p)
  <2>1. i # 0
    BY <1>3, <1>9 DEF Deleted
  <2>2. PICK e \in Edits : e = f[<<i - 1, j>>] /\ e = h[<<i - 1, j>>]
    BY <1>1, <1>3, <2>1
  <2>3. /\ EditStep(r, a, dp, f, p) = [e EXCEPT !.d = @ + 1]
        /\ EditStep(r, a, dp, h, p) = [e EXCEPT !.d = @ + 1]
    BY <1>3, <1>9, <2>2 DEF EditStep
  <2> QED
    BY <2>3, OneMore
<1>10. CASE /\ ~(i = 0 /\ j = 0) /\ ~Matched(r, a, dp, p) /\ ~Substituted(dp, p) /\ ~Deleted(dp, p)
            /\ Inserted(dp, p)
  <2>1. j # 0
    BY <1>3, <1>10 DEF Inserted
  <2>2. PICK e \in Edits : e = f[<<i, j - 1>>] /\ e = h[<<i, j - 1>>]
    BY <1>1, <1>3, <2>1
  <2>3. /\ EditStep(r, a, dp, f, p) = [e EXCEPT !.i = @ + 1]
        /\ EditStep(r, a, dp, h, p) = [e EXCEPT !.i = @ + 1]
    BY <1>3, <1>10, <2>2 DEF EditStep
  <2> QED
    BY <2>3, OneMore
<1> QED
  BY <1>4, <1>5, <1>7, <1>8, <1>9, <1>10

IsEdits(f, r, a, dp) ==
  /\ f \in [Grid(Len(r), Len(a)) -> Edits]
  /\ \A p \in Grid(Len(r), Len(a)) : f[p] = EditStep(r, a, dp, f, p)

LEMMA EditsExist ==
  ASSUME NEW A, NEW r \in Seq(A), NEW a \in Seq(A), NEW dp, IsDistance(dp, r, a)
  PROVE  \E f : IsEdits(f, r, a, dp)
<1>1. Len(r) \in Nat /\ Len(a) \in Nat
  OBVIOUS
<1>2. PICK D : D = Grid(Len(r), Len(a))
  OBVIOUS
<1>3. PICK rank : rank = Before(Len(r), Len(a))
  OBVIOUS
<1>4. PICK N \in Nat : N = Len(r) + Len(a)
  BY <1>1
<1>5. rank \in [D -> 0..N]
  BY <1>1, <1>2, <1>3, <1>4, RankOfGrid
<1>6. PICK V : V = Edits
  OBVIOUS
<1>7. PICK Dom : Dom = (UNION {[Under(D, rank, p) -> V] : p \in D}) \X D
  OBVIOUS
<1> DEFINE step == [x \in Dom |-> EditStep(r, a, dp, x[1], x[2])]
<1>8. ASSUME NEW p \in D, NEW h \in [Under(D, rank, p) -> V]
      PROVE  step[<<h, p>>] = EditStep(r, a, dp, h, p) /\ step[<<h, p>>] \in V
  <2>1. PICK x : x = <<h, p>>
    OBVIOUS
  <2>2. x \in Dom /\ x[1] = h /\ x[2] = p
    BY <1>7, <2>1
  <2>3. step[x] = EditStep(r, a, dp, x[1], x[2])
    BY <2>2
  <2>4. EditStep(r, a, dp, h, p) \in Edits
    <3>1. \A q \in Under(D, Before(Len(r), Len(a)), p) : h[q] = h[q] /\ h[q] \in Edits
      BY <1>3, <1>6
    <3> QED
      BY <1>2, <3>1, EditStepLooksBack
  <2> HIDE DEF step
  <2> QED
    BY <1>6, <2>1, <2>2, <2>3, <2>4
<1>9. Typed(D, V, rank, step)
  <2> HIDE DEF step
  <2> QED
    BY <1>8 DEF Typed
<1>10. PICK f : Solves(f, D, D, V, rank, step)
  <2> HIDE DEF step
  <2> QED
    BY <1>5, <1>9, RecursionExists
<1>11. ASSUME NEW p \in D
       PROVE  f[p] = EditStep(r, a, dp, f, p)
  <2>1. PICK h : h = Known(f, D, rank, p)
    OBVIOUS
  <2>2. Under(D, rank, p) \subseteq D /\ f \in [D -> V]
    BY <1>10 DEF Under, Solves
  <2>3. h \in [Under(D, rank, p) -> V] /\ \A q \in Under(D, rank, p) : h[q] = f[q] /\ h[q] \in V
    BY <2>1, <2>2 DEF Known
  <2>4. f[p] = step[<<h, p>>]
    BY <1>10, <2>1 DEF Solves
  <2>5. step[<<h, p>>] = EditStep(r, a, dp, h, p)
    BY <1>8, <2>3
  <2>6. EditStep(r, a, dp, h, p) = EditStep(r, a, dp, f, p)
    <3>1. \A q \in Under(D, Before(Len(r), Len(a)), p) : h[q] = f[q] /\ h[q] \in Edits
      BY <1>3, <1>6, <2>3
    <3> HIDE DEF step
    <3> QED
      BY <1>2, <3>1, EditStepLooksBack
  <2> HIDE DEF step
  <2> QED
    BY <2>4, <2>5, <2>6
<1>12. f \in [D -> Edits]
  BY <1>6, <1>10 DEF Solves
<1> QED
  BY <1>2, <1>11, <1>12 DEF IsEdits

LEMMA EditsAre ==
  ASSUME NEW A, NEW r \in Seq(A), NEW a \in Seq(A), NEW dp, IsDistance(dp, r, a)
  PROVE  IsEdits(EditsOf(r, a, dp), r, a, dp)
<1>1. PICK D : D = Grid(Len(r), Len(a))
  OBVIOUS
<1> DEFINE Eq(f) == f = [p \in D |-> EditStep(r, a, dp, f, p)]
<1>2. EditsOf(r, a, dp) = CHOOSE f : Eq(f)
  BY <1>1 DEF EditsOf, EditStep, Matched, Substituted, Deleted, Grid
<1>3. PICK f : IsEdits(f, r, a, dp)
  BY EditsExist
<1>4. Eq(f)
  BY <1>1, <1>3 DEF IsEdits
<1>5. PICK F : F = EditsOf(r, a, dp)
  OBVIOUS
<1>6. Eq(F)
  <2> HIDE DEF Eq
  <2> QED
    BY <1>2, <1>4, <1>5
<1>7. PICK rank : rank = Before(Len(r), Len(a))
  OBVIOUS
<1>8. rank \in [D -> Nat]
  BY <1>1, <1>7, RankOfGrid
<1>9. ASSUME NEW p \in D, \A q \in Under(D, rank, p) : f[q] = F[q]
      PROVE  f[p] = F[p]
  <2>1. \A q \in Under(D, Before(Len(r), Len(a)), p) : f[q] = F[q] /\ f[q] \in Edits
    BY <1>1, <1>3, <1>7, <1>9 DEF IsEdits, Under
  <2>2. EditStep(r, a, dp, f, p) = EditStep(r, a, dp, F, p)
    BY <1>1, <2>1, EditStepLooksBack
  <2> QED
    BY <1>4, <1>6, <2>2
<1>10. f = F
  <2>1. IsFcn(f, D) /\ IsFcn(F, D)
    BY <1>4, <1>6 DEF IsFcn
  <2>2. Settled(f, F, D, rank)
    BY <1>9 DEF Settled
  <2> QED
    BY <1>8, <2>1, <2>2, OneSolution
<1> QED
  BY <1>3, <1>5, <1>10

\* The edits of the way back account for the distance and for the lengths.
AddUp(e, v, i, j) == e.s + e.d + e.i = v /\ e.i - e.d = j - i

LEMMA EditsAddUp ==
  ASSUME NEW A, NEW r \in Seq(A), NEW a \in Seq(A), NEW dp, IsDistance(dp, r, a),
         NEW f, IsEdits(f, r, a, dp), NEW w \in Grid(Len(r), Len(a))
  PROVE  AddUp(f[w], dp[w], w[1], w[2])
<1>1. PICK n \in Nat, m \in Nat : n = Len(r) /\ m = Len(a)
  OBVIOUS
<1>2. PICK D : D = Grid(n, m)
  OBVIOUS
<1>3. PICK rank : rank = Before(n, m)
  OBVIOUS
<1>4. rank \in [D -> Nat]
  <2>1. PICK N \in Nat : N = n + m
    OBVIOUS
  <2>2. rank \in [D -> 0..N]
    BY <1>2, <1>3, <2>1, RankOfGrid
  <2> QED
    BY <2>2
<1> DEFINE S == {p \in D : AddUp(f[p], dp[p], p[1], p[2])}
<1>5. ASSUME NEW q \in D
      PROVE  f[q] \in Edits /\ dp[q] \in Nat
  BY <1>1, <1>2 DEF IsEdits, IsDistance
<1>6. ASSUME NEW p \in D, \A q \in D : rank[q] < rank[p] => q \in S
      PROVE  p \in S
  <2>1. PICK i \in 0..n, j \in 0..m : BackFrom(n, m, D, p, i, j)
    BY <1>2, LooksBack
  <2>2. /\ p = <<i, j>> /\ p[1] = i /\ p[2] = j
        /\ i # 0 => <<i - 1, j>> \in Under(D, rank, p)
        /\ j # 0 => <<i, j - 1>> \in Under(D, rank, p)
        /\ (i # 0 /\ j # 0) => <<i - 1, j - 1>> \in Under(D, rank, p)
    BY <1>3, <2>1 DEF BackFrom
  <2>3. ASSUME NEW q \in Under(D, rank, p)
        PROVE  f[q] \in Edits /\ dp[q] \in Nat /\ AddUp(f[q], dp[q], q[1], q[2])
    BY <1>5, <1>6 DEF Under
  <2>4. PICK v \in Nat : v = dp[p]
    BY <1>5
  <2>5. PICK z : z = f[p] /\ z = EditStep(r, a, dp, f, p)
    BY <1>1, <1>2 DEF IsEdits
  <2>6. SUFFICES AddUp(z, v, i, j)
    BY <2>2, <2>4, <2>5
  <2>7. \/ p[1] = 0 /\ p[2] = 0 /\ dp[p] = 0
        \/ Matched(r, a, dp, p) \/ Substituted(dp, p) \/ Deleted(dp, p) \/ Inserted(dp, p)
    BY <1>1, <1>2, SomeEdit
  <2>8. CASE i = 0 /\ j = 0
    <3>1. z = NoEdits
      BY <2>2, <2>5, <2>8 DEF EditStep
    <3>2. v = 0
      BY <2>2, <2>4, <2>7, <2>8 DEF Matched, Substituted, Deleted, Inserted
    <3> QED
      BY <2>8, <3>1, <3>2 DEF AddUp, NoEdits
  <2>9. CASE ~(i = 0 /\ j = 0) /\ Matched(r, a, dp, p)
    <3>1. i # 0 /\ j # 0
      BY <2>2, <2>9 DEF Matched
    <3>2. PICK q \in Under(D, rank, p) : q = <<i - 1, j - 1>> /\ q[1] = i - 1 /\ q[2] = j - 1
      BY <2>2, <3>1
    <3>3. z = f[q] /\ v = dp[q]
      BY <2>2, <2>4, <2>5, <2>9, <3>2 DEF EditStep, Matched
    <3>4. z \in Edits /\ AddUp(z, v, i - 1, j - 1)
      BY <2>3, <3>2, <3>3
    <3>5. (j - 1) - (i - 1) = j - i
      OBVIOUS
    <3> QED
      BY <3>4, <3>5 DEF AddUp
  <2>10. CASE ~(i = 0 /\ j = 0) /\ ~Matched(r, a, dp, p) /\ Substituted(dp, p)
    <3>1. i # 0 /\ j # 0
      BY <2>2, <2>10 DEF Substituted
    <3>2. PICK q \in Under(D, rank, p) : q = <<i - 1, j - 1>> /\ q[1] = i - 1 /\ q[2] = j - 1
      BY <2>2, <3>1
    <3>3. PICK e \in Edits, u \in Nat : e = f[q] /\ u = dp[q] /\ AddUp(e, u, i - 1, j - 1)
      BY <2>3, <3>2
    <3>4. z = [e EXCEPT !.s = @ + 1]
      BY <2>2, <2>5, <2>10, <3>2, <3>3 DEF EditStep
    <3>5. v = u + 1
      BY <2>2, <2>4, <2>10, <3>2, <3>3 DEF Substituted
    <3>6. z = [s |-> e.s + 1, d |-> e.d, i |-> e.i]
      BY <3>4, OneMore
    <3> QED
      BY SMTT(30), <3>3, <3>5, <3>6 DEF AddUp, Edits
  <2>11. CASE ~(i = 0 /\ j = 0) /\ ~Matched(r, a, dp, p) /\ ~Substituted(dp, p) /\ Deleted(dp, p)
    <3>1. i # 0
      BY <2>2, <2>11 DEF Deleted
    <3>2. PICK q \in Under(D, rank, p) : q = <<i - 1, j>> /\ q[1] = i - 1 /\ q[2] = j
      BY <2>2, <3>1
    <3>3. PICK e \in Edits, u \in Nat : e = f[q] /\ u = dp[q] /\ AddUp(e, u, i - 1, j)
      BY <2>3, <3>2
    <3>4. z = [e EXCEPT !.d = @ + 1]
      BY <2>2, <2>5, <2>11, <3>2, <3>3 DEF EditStep
    <3>5. v = u + 1
      BY <2>2, <2>4, <2>11, <3>2, <3>3 DEF Deleted
    <3>6. z = [s |-> e.s, d |-> e.d + 1, i |-> e.i]
      BY <3>4, OneMore
    <3>7. PICK es \in Nat, ed \in Nat, ei \in Nat :
             es = e.s /\ ed = e.d /\ ei = e.i /\ es + ed + ei = u /\ ei - ed = j - (i - 1)
      BY <3>3 DEF AddUp, Edits
    <3>8. z.s = es /\ z.d = ed + 1 /\ z.i = ei
      BY <3>6, <3>7
    <3>9. es + (ed + 1) + ei = v /\ ei - (ed + 1) = j - i
      <4>1. es + ed + ei = u /\ ei - ed = j - (i - 1)
        BY <3>7
      <4>2. es + ed + ei = u
        BY <4>1
      <4>3. ei - ed = j - (i - 1)
        BY <4>1
      <4>4. i \in Int /\ j \in Int
        OBVIOUS
      <4> QED
        BY <3>5, <4>2, <4>3, <4>4
    <3> QED
      BY <3>8, <3>9 DEF AddUp
  <2>12. CASE /\ ~(i = 0 /\ j = 0) /\ ~Matched(r, a, dp, p) /\ ~Substituted(dp, p) /\ ~Deleted(dp, p)
              /\ Inserted(dp, p)
    <3>1. j # 0
      BY <2>2, <2>12 DEF Inserted
    <3>2. PICK q \in Under(D, rank, p) : q = <<i, j - 1>> /\ q[1] = i /\ q[2] = j - 1
      BY <2>2, <3>1
    <3>3. PICK e \in Edits, u \in Nat : e = f[q] /\ u = dp[q] /\ AddUp(e, u, i, j - 1)
      BY <2>3, <3>2
    <3>4. z = [e EXCEPT !.i = @ + 1]
      BY <2>2, <2>5, <2>12, <3>2, <3>3 DEF EditStep
    <3>5. v = u + 1
      BY <2>2, <2>4, <2>12, <3>2, <3>3 DEF Inserted
    <3>6. z = [s |-> e.s, d |-> e.d, i |-> e.i + 1]
      BY <3>4, OneMore
    <3>7. PICK es \in Nat, ed \in Nat, ei \in Nat :
             es = e.s /\ ed = e.d /\ ei = e.i /\ es + ed + ei = u /\ ei - ed = (j - 1) - i
      BY <3>3 DEF AddUp, Edits
    <3>8. z.s = es /\ z.d = ed /\ z.i = ei + 1
      BY <3>6, <3>7
    <3>9. es + ed + (ei + 1) = v /\ (ei + 1) - ed = j - i
      <4>1. es + ed + ei = u /\ ei - ed = (j - 1) - i
        BY <3>7
      <4>2. es + ed + ei = u
        BY <4>1
      <4>3. ei - ed = (j - 1) - i
        BY <4>1
      <4>4. i \in Int /\ j \in Int
        OBVIOUS
      <4> QED
        BY <3>5, <4>2, <4>3, <4>4
    <3> QED
      BY <3>8, <3>9 DEF AddUp
  <2> QED
    BY <2>2, <2>7, <2>8, <2>9, <2>10, <2>11, <2>12
<1>7. \A p \in D : p \in S
  <2> HIDE DEF S
  <2> QED
    BY <1>4, <1>6, RankInduction
<1> QED
  BY <1>1, <1>2, <1>7

\* What a pair saves against the deletion and the insertion of its elements.
EditPrice(a, b) ==
  [e \in Pairs(Len(a), Len(b)) |-> IF a[e[1]] = b[e[2]] THEN 0 - 2 ELSE 0 - 1]

LEMMA EditPriced ==
  ASSUME NEW A, NEW a \in Seq(A), NEW b \in Seq(A), NEW E, E = Pairs(Len(a), Len(b))
  PROVE  /\ Priced(EditPrice(a, b), E) /\ E \in SUBSET (Nat \X Nat)
         /\ \A e \in E : 0 - 2 <= EditPrice(a, b)[e]
<1>1. Len(a) \in Nat /\ Len(b) \in Nat
  OBVIOUS
<1>2. IsFiniteSet(E) /\ E \in SUBSET (Nat \X Nat)
  BY <1>1, PairsAre
<1>3. \A e \in E : EditPrice(a, b)[e] = IF a[e[1]] = b[e[2]] THEN 0 - 2 ELSE 0 - 1
  BY DEF EditPrice
<1>4. ASSUME NEW e \in E
      PROVE  EditPrice(a, b)[e] \in Int /\ 0 - 2 <= EditPrice(a, b)[e]
  <2>1. EditPrice(a, b)[e] = 0 - 2 \/ EditPrice(a, b)[e] = 0 - 1
    BY <1>3
  <2> QED
    BY <2>1
<1>5. Priced(EditPrice(a, b), E)
  BY <1>2, <1>4 DEF Priced
<1> QED
  BY <1>2, <1>4, <1>5

LEMMA DistanceIsLeast ==
  ASSUME NEW A, NEW a \in Seq(A), NEW b \in Seq(A), NEW x \in Seq(A), NEW y \in Seq(A),
         NEW p \in Nat, NEW q \in Nat, p + q <= Len(a), p + q <= Len(b),
         IsMiddle(x, a, p, q), IsMiddle(y, b, p, q), NEW f, IsDistance(f, x, y)
  PROVE  Cheapest(f[<<Len(x), Len(y)>>] - (Len(x) + Len(y)), EditPrice(a, b),
                  Within(Pairs(Len(a), Len(b)), p, Len(a) - q, p, Len(b) - q))
<1>1. PICK la \in Nat, lb \in Nat, lx \in Nat, ly \in Nat :
         la = Len(a) /\ lb = Len(b) /\ lx = Len(x) /\ ly = Len(y)
  OBVIOUS
<1>2. lx = la - p - q /\ ly = lb - p - q /\ p + q <= la /\ p + q <= lb
  BY <1>1 DEF IsMiddle
<1>3. /\ \A k \in 1..lx : x[k] = a[p + k]
      /\ \A k \in 1..ly : y[k] = b[p + k]
  BY <1>1 DEF IsMiddle
<1>4. PICK g : g = EditPrice(a, b)
  OBVIOUS
<1>5. PICK E : E = Pairs(la, lb)
  OBVIOUS
<1>6. Priced(g, E) /\ E \in SUBSET (Nat \X Nat)
  BY <1>1, <1>4, <1>5, EditPriced
<1>7. PICK D : D = Grid(lx, ly)
  OBVIOUS
<1>8. PICK rank : rank = Before(lx, ly)
  OBVIOUS
<1>9. rank \in [D -> Nat]
  <2>1. PICK N \in Nat : N = lx + ly
    OBVIOUS
  <2>2. rank \in [D -> 0..N]
    BY <1>7, <1>8, <2>1, RankOfGrid
  <2> QED
    BY <2>2
<1> DEFINE Good(w) == Cheapest(f[w] - (w[1] + w[2]), g, Within(E, p, p + w[1], p, p + w[2]))
           S == {w \in D : Good(w)}
<1>10. ASSUME NEW w \in D, \A u \in D : rank[u] < rank[w] => u \in S
       PROVE  w \in S
  <2>1. PICK i \in 0..lx, j \in 0..ly : BackFrom(lx, ly, D, w, i, j)
    BY <1>7, LooksBack
  <2>2. /\ w = <<i, j>> /\ w[1] = i /\ w[2] = j
        /\ i # 0 => <<i - 1, j>> \in Under(D, rank, w)
        /\ j # 0 => <<i, j - 1>> \in Under(D, rank, w)
        /\ (i # 0 /\ j # 0) => <<i - 1, j - 1>> \in Under(D, rank, w)
    BY <1>8, <2>1 DEF BackFrom
  <2>3. ASSUME NEW u \in Under(D, rank, w)
        PROVE  Good(u) /\ f[u] \in Nat
    <3>1. u \in S
      BY <1>10 DEF Under
    <3>2. f[u] \in Nat
      BY <1>1, <1>7, <3>1 DEF IsDistance
    <3> QED
      BY <3>1, <3>2
  <2>4. PICK v \in Nat : v = f[w] /\ v = DistanceStep(x, y, f, w)
    BY <1>1, <1>7 DEF IsDistance
  <2>5. PICK I \in Nat : I = p + i
    OBVIOUS
  <2>6. PICK J \in Nat : J = p + j
    OBVIOUS
  <2>7. PICK W : W = Within(E, p, I, p, J)
    OBVIOUS
  <2>8. Priced(g, W)
    BY <1>6, <2>7, WithinPriced
  <2>9. SUFFICES Cheapest(v - (i + j), g, W)
    BY <2>2, <2>4, <2>5, <2>6, <2>7
  <2>10. CASE i = 0 \/ j = 0
    <3>1. v = i + j
      BY <2>2, <2>4, <2>10 DEF DistanceStep
    <3>2. p >= I \/ p >= J
      BY <2>5, <2>6, <2>10
    <3>3. W = {}
      BY <1>6, <2>7, <3>2, WithinNothing
    <3>4. v - (i + j) = 0
      BY <3>1
    <3> QED
      BY <3>3, <3>4, NothingToMatch
  <2>11. CASE i # 0 /\ j # 0
    <3>1. PICK X \in Nat : X = f[<<i - 1, j>>] /\ Good(<<i - 1, j>>)
      BY <2>2, <2>3, <2>11
    <3>2. PICK Y \in Nat : Y = f[<<i, j - 1>>] /\ Good(<<i, j - 1>>)
      BY <2>2, <2>3, <2>11
    <3>3. PICK Z \in Nat : Z = f[<<i - 1, j - 1>>] /\ Good(<<i - 1, j - 1>>)
      BY <2>2, <2>3, <2>11
    <3>4. p + (i - 1) = I - 1 /\ p + (j - 1) = J - 1
      BY <2>5, <2>6
    <3>5. PICK c : c = <<I, J>>
      OBVIOUS
    <3>6. p < I /\ p < J
      BY <2>5, <2>6, <2>11
    <3>7. /\ Corner(c, W)
          /\ OffRow(W, c) = Within(E, p, I - 1, p, J)
          /\ OffColumn(W, c) = Within(E, p, I, p, J - 1)
          /\ OffBoth(W, c) = Within(E, p, I - 1, p, J - 1)
          /\ c \in W <=> c \in E
      BY <1>6, <2>7, <3>5, <3>6, LastCorner
    <3>8. I \in 1..la /\ J \in 1..lb
      BY <1>2, <2>5, <2>6, <2>11
    <3>9. c \in W
      BY <1>5, <3>5, <3>7, <3>8 DEF Pairs
    <3>10. PICK k \in Nat : k = IF x[i] = y[j] THEN 0 ELSE 1
      OBVIOUS
    <3>11. g[c] = k - 2
      <4>1. x[i] = a[I] /\ y[j] = b[J]
        <5>1. i \in 1..lx /\ j \in 1..ly
          BY <2>11
        <5> QED
          BY <1>3, <2>5, <2>6, <5>1
      <4>2. c \in Pairs(Len(a), Len(b)) /\ c[1] = I /\ c[2] = J
        BY <1>1, <3>5, <3>8 DEF Pairs
      <4>3. g[c] = IF a[I] = b[J] THEN 0 - 2 ELSE 0 - 1
        BY <1>4, <4>2 DEF EditPrice
      <4>4. CASE x[i] = y[j]
        BY <3>10, <4>1, <4>3, <4>4
      <4>5. CASE x[i] # y[j]
        BY <3>10, <4>1, <4>3, <4>5
      <4> QED
        BY <4>4, <4>5
    <3>12. Cheapest(X - (i - 1 + j), g, OffRow(W, c))
      BY <2>6, <3>1, <3>4, <3>7
    <3>13. Cheapest(Y - (i + (j - 1)), g, OffColumn(W, c))
      BY <2>5, <3>2, <3>4, <3>7
    <3>14. Cheapest(Z - (i - 1 + (j - 1)), g, OffBoth(W, c))
      BY <3>3, <3>4, <3>7
    <3>15. PICK rx \in Int, ry \in Int, rz \in Int, d \in Int :
             rx = X - (i - 1 + j) /\ ry = Y - (i + (j - 1)) /\ rz = Z - (i - 1 + (j - 1)) /\ d = g[c]
      BY <3>11
    <3>16. Cheapest(Lesser(Lesser(rx, ry), rz + d), g, W)
      BY <2>8, <3>7, <3>9, <3>12, <3>13, <3>14, <3>15, CornerIn
    <3>17. v = Lesser(Lesser(X + 1, Y + 1), Z + k)
      <4>1. v = Min({X + 1, Y + 1, Z + k})
        BY <2>2, <2>4, <2>11, <3>1, <3>2, <3>3, <3>10 DEF DistanceStep
      <4> QED
        BY <4>1, MinOfThree
    <3>18. Lesser(Lesser(rx, ry), rz + d) = v - (i + j)
      BY <3>11, <3>15, <3>17 DEF Lesser
    <3> QED
      BY <3>16, <3>18
  <2> QED
    BY <2>10, <2>11
<1>11. \A w \in D : w \in S
  <2> HIDE DEF S
  <2> QED
    BY <1>9, <1>10, RankInduction
<1>12. <<lx, ly>> \in D
  BY <1>7 DEF Grid
<1>13. Good(<<lx, ly>>)
  BY <1>11, <1>12
<1>14. p + lx = la - q /\ p + ly = lb - q
  BY <1>2
<1> QED
  BY <1>1, <1>4, <1>5, <1>13, <1>14

\* Texts without a distance are the same.
LEMMA NoDistance ==
  ASSUME NEW A, NEW x \in Seq(A), NEW y \in Seq(A), NEW f, IsDistance(f, x, y)
  PROVE  f[<<Len(x), Len(y)>>] = 0 => x = y
<1>1. PICK n \in Nat, m \in Nat : n = Len(x) /\ m = Len(y)
  OBVIOUS
<1>2. PICK D : D = Grid(n, m)
  OBVIOUS
<1>3. PICK rank : rank = Before(n, m)
  OBVIOUS
<1>4. rank \in [D -> Nat]
  <2>1. PICK N \in Nat : N = n + m
    OBVIOUS
  <2>2. rank \in [D -> 0..N]
    BY <1>2, <1>3, <2>1, RankOfGrid
  <2> QED
    BY <2>2
<1> DEFINE S == {w \in D : f[w] = 0 => w[1] = w[2] /\ \A k \in 1..w[1] : x[k] = y[k]}
<1>5. ASSUME NEW p \in D, \A q \in D : rank[q] < rank[p] => q \in S
      PROVE  p \in S
  <2>1. PICK i \in 0..n, j \in 0..m : BackFrom(n, m, D, p, i, j)
    BY <1>2, LooksBack
  <2>2. /\ p = <<i, j>> /\ p[1] = i /\ p[2] = j
        /\ i # 0 => <<i - 1, j>> \in Under(D, rank, p)
        /\ j # 0 => <<i, j - 1>> \in Under(D, rank, p)
        /\ (i # 0 /\ j # 0) => <<i - 1, j - 1>> \in Under(D, rank, p)
    BY <1>3, <2>1 DEF BackFrom
  <2>3. ASSUME NEW q \in Under(D, rank, p)
        PROVE  f[q] \in Nat /\ q \in S
    BY <1>1, <1>2, <1>5 DEF IsDistance, Under
  <2>4. SUFFICES ASSUME f[p] = 0
                 PROVE  i = j /\ \A k \in 1..i : x[k] = y[k]
    BY <2>2
  <2>5. \/ p[1] = 0 /\ p[2] = 0 /\ f[p] = 0
        \/ Matched(x, y, f, p) \/ Substituted(f, p) \/ Deleted(f, p) \/ Inserted(f, p)
    BY <1>1, <1>2, SomeEdit
  <2>6. CASE i = 0 /\ j = 0
    BY <2>6
  <2>7. CASE Matched(x, y, f, p)
    <3>1. i # 0 /\ j # 0 /\ x[i] = y[j] /\ f[<<i - 1, j - 1>>] = 0
      BY <2>2, <2>4, <2>7 DEF Matched
    <3>2. PICK q \in Under(D, rank, p) : q = <<i - 1, j - 1>> /\ q[1] = i - 1 /\ q[2] = j - 1
      BY <2>2, <3>1
    <3>3. i - 1 = j - 1 /\ \A k \in 1..(i - 1) : x[k] = y[k]
      BY <2>3, <3>1, <3>2
    <3>4. i = j
      BY <3>3
    <3>5. ASSUME NEW k \in 1..i
          PROVE  x[k] = y[k]
      <4>1. k = i \/ k \in 1..(i - 1)
        OBVIOUS
      <4> QED
        BY <3>1, <3>3, <3>4, <4>1
    <3> QED
      BY <3>4, <3>5
  <2>8. CASE Substituted(f, p)
    <3>1. i # 0 /\ j # 0 /\ 0 = f[<<i - 1, j - 1>>] + 1
      BY <2>2, <2>4, <2>8 DEF Substituted
    <3>2. f[<<i - 1, j - 1>>] \in Nat
      BY <2>2, <2>3, <3>1
    <3> QED
      BY <3>1, <3>2
  <2>9. CASE Deleted(f, p)
    <3>1. i # 0 /\ 0 = f[<<i - 1, j>>] + 1
      BY <2>2, <2>4, <2>9 DEF Deleted
    <3>2. f[<<i - 1, j>>] \in Nat
      BY <2>2, <2>3, <3>1
    <3> QED
      BY <3>1, <3>2
  <2>10. CASE Inserted(f, p)
    <3>1. j # 0 /\ 0 = f[<<i, j - 1>>] + 1
      BY <2>2, <2>4, <2>10 DEF Inserted
    <3>2. f[<<i, j - 1>>] \in Nat
      BY <2>2, <2>3, <3>1
    <3> QED
      BY <3>1, <3>2
  <2> QED
    BY <2>2, <2>5, <2>6, <2>7, <2>8, <2>9, <2>10
<1>6. \A p \in D : p \in S
  <2> HIDE DEF S
  <2> QED
    BY <1>4, <1>5, RankInduction
<1>7. PICK w \in D : w = <<n, m>> /\ w[1] = n /\ w[2] = m
  <2>1. <<n, m>> \in D
    BY <1>2 DEF Grid
  <2> QED
    BY <2>1
<1>8. f[w] = 0 => n = m /\ \A k \in 1..n : x[k] = y[k]
  BY <1>6, <1>7
<1>9. (n = m /\ \A k \in 1..n : x[k] = y[k]) => x = y
  BY <1>1, SeqEqual
<1> QED
  BY <1>1, <1>7, <1>8, <1>9

LEMMA NoneToItself ==
  ASSUME NEW A, NEW x \in Seq(A), NEW f, IsDistance(f, x, x)
  PROVE  f[<<Len(x), Len(x)>>] = 0
<1>1. PICK n \in Nat : n = Len(x)
  OBVIOUS
<1>2. PICK D : D = (0..n) \X (0..n)
  OBVIOUS
<1>3. ASSUME NEW q \in D
      PROVE  f[q] \in Nat /\ f[q] = DistanceStep(x, x, f, q)
  BY <1>1, <1>2 DEF IsDistance, Grid
<1> DEFINE S == {k \in 0..n : f[<<k, k>>] = 0}
<1>4. 0 \in S
  <2>4. 0 \in 0..n
    OBVIOUS
  <2>5. <<0, 0>> \in D
    BY <1>2, <2>4
  <2>1. PICK q \in D : q = <<0, 0>> /\ q[1] = 0 /\ q[2] = 0
    BY <2>5
  <2>2. f[q] = DistanceStep(x, x, f, q)
    BY <1>3
  <2>3. DistanceStep(x, x, f, q) = 0
    BY <2>1 DEF DistanceStep
  <2> QED
    BY <2>1, <2>2, <2>3
<1>5. ASSUME NEW k \in 1..n, k - 1 \in S
      PROVE  k \in S
  <2>1. PICK i \in Nat : i = k - 1 /\ k - 1 \in 0..n /\ k \in 0..n /\ k # 0
    OBVIOUS
  <2>9. <<k, k>> \in D
    BY <1>2, <2>1
  <2>2. PICK q \in D : q = <<k, k>> /\ q[1] = k /\ q[2] = k
    BY <2>9
  <2>3. <<k - 1, k>> \in D /\ <<k, k - 1>> \in D
    BY <1>2, <2>1
  <2>4. PICK u \in Nat, v \in Nat : u = f[<<k - 1, k>>] /\ v = f[<<k, k - 1>>]
    BY <1>3, <2>3
  <2>5. f[<<k - 1, k - 1>>] = 0
    BY <1>5
  <2>6. f[q] = Min({u + 1, v + 1, 0 + 0})
    BY <1>3, <2>1, <2>2, <2>4, <2>5 DEF DistanceStep
  <2>7. Min({u + 1, v + 1, 0 + 0}) = Lesser(Lesser(u + 1, v + 1), 0 + 0)
    BY MinOfThree
  <2>8. Lesser(Lesser(u + 1, v + 1), 0 + 0) = 0
    BY DEF Lesser
  <2> QED
    BY <2>1, <2>2, <2>6, <2>7, <2>8
<1>6. n \in S
  <2>1. n \in 0..n
    OBVIOUS
  <2> HIDE DEF S
  <2> QED
    BY <1>4, <1>5, <2>1, CountingUp
<1> QED
  BY <1>1, <1>6

Unequal(a, b, S) == {e \in S : a[e[1]] # b[e[2]]}

LEMMA EditTotal ==
  ASSUME NEW A, NEW a \in Seq(A), NEW b \in Seq(A), NEW S \in Ways(Pairs(Len(a), Len(b)))
  PROVE  /\ Total(EditPrice(a, b), S)
              = Cardinality(Unequal(a, b, S)) - 2 * Cardinality(S)
         /\ Cardinality(Unequal(a, b, S)) \in Nat /\ Cardinality(S) \in Nat
<1>1. PICK P : P = Pairs(Len(a), Len(b))
  OBVIOUS
<1>2. PICK g : g = EditPrice(a, b)
  OBVIOUS
<1>3. Priced(g, P)
  BY <1>1, <1>2, EditPriced
<1>4. S \in SUBSET P
  BY <1>1 DEF Ways
<1>16. PICK N : N = Unequal(a, b, S)
  OBVIOUS
<1>5. N = {e \in S : a[e[1]] # b[e[2]]}
  BY <1>16 DEF Unequal
<1>6. PICK Q : Q = {e \in S : a[e[1]] = b[e[2]]}
  OBVIOUS
<1>7. N \in SUBSET S /\ Q \in SUBSET S /\ N \cup Q = S /\ N \cap Q = {}
  BY <1>5, <1>6
<1>8. IsFiniteSet(S) /\ IsFiniteSet(N) /\ IsFiniteSet(Q)
  <2>1. IsFiniteSet(S)
    BY <1>3, <1>4, PricedPart
  <2> QED
    BY <1>7, <2>1, FS_Subset
<1>9. PICK one \in Int, two \in Int : one = 0 - 1 /\ two = 0 - 2
  OBVIOUS
<1>10. (\A e \in N : g[e] = one) /\ (\A e \in Q : g[e] = two) /\ (\A e \in N \cup Q : g[e] \in Int)
  BY <1>1, <1>2, <1>4, <1>5, <1>6, <1>9 DEF EditPrice
<1>11. PICK cn \in Nat, cq \in Nat, cs \in Nat :
         cn = Cardinality(N) /\ cq = Cardinality(Q) /\ cs = Cardinality(S)
  BY <1>8, FS_CardinalityType
<1>12. cs = cn + cq
  <2>1. Cardinality(N \cap Q) = 0
    BY <1>7, FS_EmptySet
  <2>2. Cardinality(N \cup Q) = Cardinality(N) + Cardinality(Q) - Cardinality(N \cap Q)
    BY <1>8, FS_Union
  <2>3. cs = Cardinality(N \cup Q)
    BY <1>7, <1>11
  <2>4. cs = cn + cq - 0
    BY <1>11, <2>1, <2>2, <2>3
  <2> QED
    BY <2>4
<1>13. Total(g, N) = one * cn /\ Total(g, Q) = two * cq
  BY <1>8, <1>9, <1>10, <1>11, TotalOfSame
<1>14. Total(g, S) = Total(g, N) + Total(g, Q)
  BY <1>7, <1>8, <1>10, TotalOfUnion
<1>15. one * cn + two * cq = cn - 2 * cs
  BY <1>9, <1>12
<1> QED
  BY <1>2, <1>11, <1>13, <1>14, <1>15, <1>16

LEMMA EditDistanceIs ==
  ASSUME NEW A, NEW a \in Seq(A), NEW b \in Seq(A), Len(a) \in 0..Longest, Len(b) \in 0..Longest,
         NEW v \in Int, Cheapest(v, EditPrice(a, b), Pairs(Len(a), Len(b)))
  PROVE  EditDistance(a, b) = v + Len(a) + Len(b)
<1>1. PICK n \in Nat, m \in Nat : n = Len(a) /\ m = Len(b)
  OBVIOUS
<1>2. PICK P : P = Pairs(Len(a), Len(b))
  OBVIOUS
<1>3. Matchings[<<Len(a), Len(b)>>] = Ways(P)
  BY <1>2, MatchingsAre
<1> DEFINE Far(S) == n + m - 2 * Cardinality(S) + Cardinality(Unequal(a, b, S))
<1>4. ASSUME NEW S \in Ways(P)
      PROVE  Far(S) = Total(EditPrice(a, b), S) + n + m /\ Far(S) \in Int
  <2>1. PICK cs \in Nat, cn \in Nat :
          cs = Cardinality(S) /\ cn = Cardinality(Unequal(a, b, S))
    BY <1>2, EditTotal
  <2>2. Total(EditPrice(a, b), S) = cn - 2 * cs
    BY <1>2, <2>1, EditTotal
  <2>3. Far(S) = n + m - 2 * cs + cn
    BY <2>1
  <2>4. n + m - 2 * cs + cn = (cn - 2 * cs) + n + m /\ n + m - 2 * cs + cn \in Int
    OBVIOUS
  <2> HIDE DEF Far
  <2> QED
    BY <2>2, <2>3, <2>4
<1>5. PICK M : M = {Far(S) : S \in Ways(P)}
  OBVIOUS
<1>6. EditDistance(a, b) = Min(M)
  BY <1>1, <1>3, <1>5 DEF EditDistance, Unequal
<1>7. PICK w \in Int : w = v + n + m
  OBVIOUS
<1>8. w \in M
  <2>1. PICK S \in Ways(P) : v = Total(EditPrice(a, b), S)
    BY <1>2 DEF Cheapest
  <2>2. w = Far(S)
    BY <1>4, <1>7, <2>1
  <2> HIDE DEF Far
  <2> QED
    BY <1>5, <2>2
<1>9. ASSUME NEW k \in M
      PROVE  k \in Int /\ w <= k
  <2>1. PICK S \in Ways(P) : k = Far(S)
    BY <1>5
  <2>2. v <= Total(EditPrice(a, b), S)
    BY <1>2 DEF Cheapest
  <2>3. PICK t \in Int : t = Total(EditPrice(a, b), S)
    <3>1. S \in SUBSET P
      BY DEF Ways
    <3> QED
      BY <1>2, <3>1, EditPriced, PricedPart
  <2> HIDE DEF Far
  <2> QED
    BY <1>4, <1>7, <2>1, <2>2, <2>3
<1>10. M \in SUBSET Int /\ \A k \in M : w <= k
  BY <1>9
<1> QED
  BY <1>1, <1>6, <1>7, <1>8, <1>10, MinIs

\* Fewest: as many as the distance, none for the same texts only, and the
\* insertions and deletions account for the lengths.
Fewest(e, r, a) ==
  /\ e \in Edits
  /\ e.s + e.d + e.i = EditDistance(r, a)
  /\ e.i - e.d = Len(a) - Len(r)
  /\ e.s + e.d + e.i = 0 <=> r = a

LEMMA SameMiddles ==
  ASSUME NEW A, NEW a \in Seq(A), NEW b \in Seq(A), NEW s, Ends(s, a, b)
  PROVE  s.a = s.b <=> a = b
<1>1. PICK p \in Nat, q \in Nat : p = s.prefix /\ q = s.suffix
  BY DEF Ends
<1>2. PICK n \in Nat, m \in Nat : n = Len(a) /\ m = Len(b)
  OBVIOUS
<1>3. /\ p + q <= n /\ p + q <= m
      /\ \A k \in 1..p : a[k] = b[k]
      /\ \A k \in 1..q : a[n - q + k] = b[m - q + k]
  BY <1>1, <1>2 DEF Ends
<1>4. s.a = SubSeq(a, p + 1, Len(a) - q) /\ s.b = SubSeq(b, p + 1, Len(b) - q)
  BY <1>1 DEF Ends
<1>5. IsMiddle(s.a, a, p, q) /\ IsMiddle(s.b, b, p, q)
  BY <1>2, <1>3, <1>4, MiddleIs
<1>6. /\ Len(s.a) = n - p - q /\ Len(s.b) = m - p - q
      /\ \A k \in 1..(n - p - q) : s.a[k] = a[p + k]
      /\ \A k \in 1..(m - p - q) : s.b[k] = b[p + k]
  BY <1>2, <1>5 DEF IsMiddle
<1>7. ASSUME s.a = s.b
      PROVE  a = b
  <2>1. n = m
    <3>1. n - p - q = m - p - q
      BY <1>6, <1>7
    <3> QED
      BY <3>1
  <2>2. ASSUME NEW k \in 1..n
        PROVE  a[k] = b[k]
    <3>1. CASE k <= p
      BY <1>3, <3>1
    <3>2. CASE k > p /\ k <= n - q
      <4>1. PICK l \in 1..(n - p - q) : l = k - p
        BY <3>2
      <4>2. p + l = k
        BY <4>1
      <4>3. s.a[l] = a[p + l] /\ s.b[l] = b[p + l]
        BY <1>6, <2>1
      <4> QED
        BY <1>7, <4>2, <4>3
    <3>3. CASE k > n - q
      <4>1. PICK l \in 1..q : l = k - (n - q)
        BY <3>3
      <4>2. n - q + l = k /\ m - q + l = k
        BY <2>1, <4>1
      <4> QED
        BY <1>3, <4>2
    <3> QED
      BY <3>1, <3>2, <3>3
  <2> QED
    BY <1>2, <2>1, <2>2, SeqEqual
<1>8. ASSUME a = b
      PROVE  s.a = s.b
  BY <1>4, <1>8
<1> QED
  BY <1>7, <1>8

LEMMA EditsAreFewest ==
  ASSUME NEW A, NEW r \in Seq(A), NEW a \in Seq(A), Len(r) \in 0..Longest, Len(a) \in 0..Longest
  PROVE  Fewest(UnitEdits(r, a), r, a)
<1>1. PICK s : s = Strip(r, a)
  OBVIOUS
<1>2. Ends(s, r, a)
  BY <1>1, StripIs
<1>3. PICK p \in Nat, q \in Nat : p = s.prefix /\ q = s.suffix
  BY <1>2 DEF Ends
<1>4. PICK n \in Nat, m \in Nat : n = Len(r) /\ m = Len(a)
  OBVIOUS
<1>5. p + q <= n /\ p + q <= m
  BY <1>2, <1>3, <1>4 DEF Ends
<1>6. PICK x \in Seq(A), y \in Seq(A) : x = s.a /\ y = s.b /\ IsMiddle(x, r, p, q) /\ IsMiddle(y, a, p, q)
  BY <1>2, <1>3, <1>4, <1>5, MiddleIs DEF Ends
<1>7. PICK lx \in Nat, ly \in Nat : lx = Len(x) /\ ly = Len(y)
  OBVIOUS
<1>8. lx = n - p - q /\ ly = m - p - q
  BY <1>4, <1>6, <1>7 DEF IsMiddle
<1>9. PICK dp : dp = Distances(x, y)
  OBVIOUS
<1>10. IsDistance(dp, x, y)
  BY <1>9, DistancesAre
<1>11. PICK f : f = EditsOf(x, y, dp)
  OBVIOUS
<1>12. IsEdits(f, x, y, dp)
  BY <1>10, <1>11, EditsAre
<1>23. PICK w : w = <<lx, ly>>
  OBVIOUS
<1>13. w = <<lx, ly>> /\ w[1] = lx /\ w[2] = ly
  BY <1>23
<1>14. w \in Grid(Len(x), Len(y))
  BY <1>7, <1>13 DEF Grid
<1>15. PICK e \in Edits : e = f[w]
  BY <1>12, <1>14 DEF IsEdits
<1>16. PICK v \in Nat : v = dp[w]
  BY <1>10, <1>14 DEF IsDistance
<1>17. UnitEdits(r, a) = e
  BY <1>1, <1>6, <1>7, <1>9, <1>11, <1>13, <1>15 DEF UnitEdits
<1>18. AddUp(e, v, lx, ly)
  BY <1>10, <1>12, <1>13, <1>14, <1>15, <1>16, EditsAddUp
<1>19. EditDistance(r, a) = v
  <2>1. PICK P : P = Pairs(n, m)
    OBVIOUS
  <2>2. PICK g : g = EditPrice(r, a)
    OBVIOUS
  <2>3. Priced(g, P) /\ P \in SUBSET (Nat \X Nat) /\ \A z \in P : 0 - 2 <= g[z]
    BY <1>4, <2>1, <2>2, EditPriced
  <2>4. Cheapest(v - (lx + ly), g, Within(P, p, n - q, p, m - q))
    BY <1>4, <1>5, <1>6, <1>7, <1>10, <1>13, <1>16, <2>1, <2>2, DistanceIsLeast
  <2>5. PICK c \in Int : c = 0 - 2
    OBVIOUS
  <2>6. \A k \in 1..p : <<k, k>> \in P /\ g[<<k, k>>] = c
    <3>1. ASSUME NEW k \in 1..p
          PROVE  <<k, k>> \in P /\ g[<<k, k>>] = c
      <4>1. r[k] = a[k]
        BY <1>2, <1>3 DEF Ends
      <4>2. k \in 1..n /\ k \in 1..m
        BY <1>5
      <4>6. PICK z : z = <<k, k>>
        OBVIOUS
      <4>3. z = <<k, k>> /\ z[1] = k /\ z[2] = k
        BY <4>6
      <4>4. z \in P
        BY <2>1, <4>2, <4>3 DEF Pairs
      <4>5. g[z] = 0 - 2
        BY <1>4, <2>1, <2>2, <4>1, <4>3, <4>4 DEF EditPrice
      <4> QED
        BY <2>5, <4>3, <4>4, <4>5
    <3> QED
      BY <3>1
  <2>7. \A k \in 1..q : <<n - q + k, m - q + k>> \in P /\ g[<<n - q + k, m - q + k>>] = c
    <3>1. ASSUME NEW k \in 1..q
          PROVE  <<n - q + k, m - q + k>> \in P /\ g[<<n - q + k, m - q + k>>] = c
      <4>1. r[n - q + k] = a[m - q + k]
        BY <1>2, <1>3, <1>4 DEF Ends
      <4>2. n - q + k \in 1..n /\ m - q + k \in 1..m
        BY <1>5
      <4>6. PICK z : z = <<n - q + k, m - q + k>>
        OBVIOUS
      <4>3. z = <<n - q + k, m - q + k>> /\ z[1] = n - q + k /\ z[2] = m - q + k
        BY <4>6
      <4>4. z \in P
        BY <2>1, <4>2, <4>3 DEF Pairs
      <4>5. g[z] = 0 - 2
        BY <1>4, <2>1, <2>2, <4>1, <4>3, <4>4 DEF EditPrice
      <4> QED
        BY <2>5, <4>3, <4>4, <4>5
    <3> QED
      BY <3>1
  <2>8. c <= 0 /\ \A z \in P : c <= g[z]
    BY <2>3, <2>5
  <2>9. Cheapest((v - (lx + ly)) + c * (p + q), g, Within(P, 0, n, 0, m))
    BY <1>5, <2>3, <2>4, <2>6, <2>7, <2>8, AddEnds
  <2>10. Within(P, 0, n, 0, m) = P
    BY <2>1, WholeWithin
  <2>11. (v - (lx + ly)) + c * (p + q) = v - (n + m)
    BY <1>8, <2>5
  <2>12. PICK u \in Int : u = v - (n + m)
    OBVIOUS
  <2>13. Cheapest(u, g, P)
    BY <2>9, <2>10, <2>11, <2>12
  <2>14. EditDistance(r, a) = u + Len(r) + Len(a)
    BY <1>4, <2>1, <2>2, <2>13, EditDistanceIs
  <2>15. u + n + m = v
    BY <2>12
  <2> QED
    BY <1>4, <2>14, <2>15
<1>20. v = 0 <=> r = a
  <2>1. v = 0 => x = y
    BY <1>7, <1>10, <1>13, <1>16, NoDistance
  <2>2. x = y => v = 0
    <3>1. ASSUME x = y
          PROVE  v = 0
      <4>1. IsDistance(dp, x, x) /\ lx = ly
        BY <1>7, <1>10, <3>1
      <4>2. dp[<<Len(x), Len(x)>>] = 0
        BY <4>1, NoneToItself
      <4> QED
        BY <1>7, <1>13, <1>16, <4>1, <4>2
    <3> QED
      BY <3>1
  <2>3. x = y <=> r = a
    BY <1>2, <1>6, SameMiddles
  <2> QED
    BY <2>1, <2>2, <2>3
<1>21. e.s + e.d + e.i = v /\ e.i - e.d = ly - lx
  BY <1>18 DEF AddUp
<1>22. ly - lx = m - n
  BY <1>8
<1> QED
  BY <1>4, <1>17, <1>19, <1>20, <1>21, <1>22 DEF Fewest

\* UnitEdits: the substitutions, deletions and insertions that it counts add up
\* to the edit distance of the two texts, whatever ends it strips and whichever
\* way back it takes; they account for the lengths, and there are none exactly
\* for the same texts.
THEOREM UnitEditsAreFewest ==
  ASSUME NEW A, NEW r \in Seq(A), NEW a \in Seq(A), Len(r) \in 0..Longest, Len(a) \in 0..Longest
  PROVE  LET e == UnitEdits(r, a)
         IN /\ e \in [s : Nat, d : Nat, i : Nat]
            /\ e.s + e.d + e.i = EditDistance(r, a)
            /\ e.i - e.d = Len(a) - Len(r)
            /\ e.s + e.d + e.i = 0 <=> r = a
BY EditsAreFewest DEF Fewest, Edits
=============================================================================
