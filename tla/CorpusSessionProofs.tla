------------------------ MODULE CorpusSessionProofs ------------------------
(***************************************************************************)
(* Theorems about CorpusSession, for any worksheets, texts and bounds: the *)
(* view and the grid are what the source says, results and playback stay   *)
(* with their texts, and nothing is left behind unasked.                   *)
(***************************************************************************)
EXTENDS CorpusSession, Integers, FiniteSetTheorems, SequenceTheorems, TLAPS

-----------------------------------------------------------------------------
(* Finite sets in order                                                    *)

Below(S, R, x) == {y \in S : <<y, x>> \in R}

\* Every rank is taken: the rank is an injection into a set as large.
LEMMA RanksAreTaken ==
  ASSUME NEW S, IsFiniteSet(S), NEW R,
         \A x \in S : <<x, x>> \notin R,
         \A x, y \in S : x # y => <<x, y>> \in R \/ <<y, x>> \in R,
         \A x, y, z \in S : <<x, y>> \in R /\ <<y, z>> \in R => <<x, z>> \in R,
         NEW k \in 1..Cardinality(S)
  PROVE  \E x \in S : Cardinality(Below(S, R, x)) = k - 1
<1> DEFINE Before(x) == Below(S, R, x)
           Rank == [x \in S |-> Cardinality(Before(x)) + 1]
           n == Cardinality(S)
<1>1. n \in Nat
  BY FS_CardinalityType
<1>2. \A x \in S : IsFiniteSet(Before(x)) /\ Cardinality(Before(x)) \in Nat
  BY FS_Subset, FS_CardinalityType DEF Below
<1>3. ASSUME NEW x \in S
      PROVE  Cardinality(Before(x)) < n
  <2>1. Before(x) \in SUBSET S /\ Before(x) # S
    BY DEF Below
  <2> HIDE DEF Before
  <2> QED
    BY <2>1, <1>1, <1>2, FS_Subset
<1>4. ASSUME NEW x \in S, NEW y \in S, <<x, y>> \in R
      PROVE  Rank[x] # Rank[y]
  <2>1. Before(x) \in SUBSET Before(y) /\ Before(x) # Before(y)
    BY <1>4 DEF Below
  <2>2. Rank[x] = Cardinality(Before(x)) + 1 /\ Rank[y] = Cardinality(Before(y)) + 1
    OBVIOUS
  <2> HIDE DEF Before, Rank
  <2>3. Cardinality(Before(x)) # Cardinality(Before(y))
    BY <2>1, <1>2, FS_Subset
  <2> QED
    BY <2>2, <2>3, <1>2
<1>5. Rank \in [S -> 1..n]
  <2>1. \A x \in S : Rank[x] = Cardinality(Before(x)) + 1
    OBVIOUS
  <2>2. \A x \in S : Rank[x] \in 1..n
    <3> HIDE DEF Before, Rank
    <3> QED
      BY <2>1, <1>1, <1>2, <1>3
  <2> HIDE DEF Before
  <2> QED
    BY <2>2
<1>6. Rank \in Injection(S, 1..n)
  <2>1. \A x, y \in S : Rank[x] = Rank[y] => x = y
    <3> HIDE DEF Before, Rank
    <3> QED
      BY <1>4
  <2> HIDE DEF Before, Rank
  <2> QED
    BY <2>1, <1>5 DEF Injection, IsInjective
<1>7. IsFiniteSet(1..n) /\ Cardinality(1..n) = n
  BY <1>1, FS_Interval
<1>8. Rank \in Surjection(S, 1..n)
  <2> HIDE DEF Rank
  <2> QED
    BY <1>6, <1>7, FS_Injection
<1>9. PICK x \in S : Rank[x] = k
  <2> HIDE DEF Rank
  <2> QED
    BY <1>8 DEF Surjection
<1>10. Cardinality(Before(x)) = k - 1
  <2>1. Rank[x] = Cardinality(Before(x)) + 1
    OBVIOUS
  <2> HIDE DEF Before, Rank
  <2> QED
    BY <2>1, <1>1, <1>2, <1>9
<1> QED
  BY <1>10

\* The element of a set of numbers, or of positions, with k - 1 before it.
Nth(S, k) == CHOOSE x \in S : Cardinality({y \in S : y < x}) = k - 1
PositionBefore(p, q) == p[1] < q[1] \/ (p[1] = q[1] /\ p[2] < q[2])
Place(S, k) == CHOOSE p \in S : Cardinality({q \in S : PositionBefore(q, p)}) = k - 1

LEMMA NthIsIn ==
  ASSUME NEW S \in SUBSET Nat, IsFiniteSet(S), NEW k \in 1..Cardinality(S)
  PROVE  Nth(S, k) \in S /\ Cardinality({y \in S : y < Nth(S, k)}) = k - 1
<1> DEFINE R == {p \in S \X S : p[1] < p[2]}
<1>1. \A x, y \in S : <<x, y>> \in R <=> x < y
  OBVIOUS
<1>2. \E x \in S : Cardinality(Below(S, R, x)) = k - 1
  <2>1. /\ \A x \in S : <<x, x>> \notin R
        /\ \A x, y \in S : x # y => <<x, y>> \in R \/ <<y, x>> \in R
        /\ \A x, y, z \in S : <<x, y>> \in R /\ <<y, z>> \in R => <<x, z>> \in R
    <3> HIDE DEF R
    <3> QED
      BY <1>1
  <2> HIDE DEF R
  <2> QED
    BY <2>1, RanksAreTaken
<1>3. \A x \in S : Below(S, R, x) = {y \in S : y < x}
  <2> HIDE DEF R
  <2> QED
    BY <1>1 DEF Below
<1>4. \E x \in S : Cardinality({y \in S : y < x}) = k - 1
  <2> HIDE DEF R
  <2> QED
    BY <1>2, <1>3
<1> QED
  BY <1>4 DEF Nth

LEMMA PlaceIsIn ==
  ASSUME NEW S \in SUBSET (Nat \X Nat), IsFiniteSet(S), NEW k \in 1..Cardinality(S)
  PROVE  Place(S, k) \in S /\ Cardinality({q \in S : PositionBefore(q, Place(S, k))}) = k - 1
<1> DEFINE R == {p \in S \X S : PositionBefore(p[1], p[2])}
<1>1. \A x, y \in S : <<x, y>> \in R <=> PositionBefore(x, y)
  OBVIOUS
<1>2. \E x \in S : Cardinality(Below(S, R, x)) = k - 1
  <2>1. /\ \A x \in S : <<x, x>> \notin R
        /\ \A x, y \in S : x # y => <<x, y>> \in R \/ <<y, x>> \in R
        /\ \A x, y, z \in S : <<x, y>> \in R /\ <<y, z>> \in R => <<x, z>> \in R
    <3>1. \A x \in S : x[1] \in Nat /\ x[2] \in Nat /\ x = <<x[1], x[2]>>
      OBVIOUS
    <3> HIDE DEF R
    <3> QED
      BY <1>1, <3>1 DEF PositionBefore
  <2> HIDE DEF R
  <2> QED
    BY <2>1, RanksAreTaken
<1>3. \A x \in S : Below(S, R, x) = {y \in S : PositionBefore(y, x)}
  <2> HIDE DEF R
  <2> QED
    BY <1>1 DEF Below
<1>4. \E x \in S : Cardinality({y \in S : PositionBefore(y, x)}) = k - 1
  <2> HIDE DEF R
  <2> QED
    BY <1>2, <1>3
<1> QED
  BY <1>4 DEF Place

\* Two ranks are two elements.
LEMMA PlacesDiffer ==
  ASSUME NEW S \in SUBSET (Nat \X Nat), IsFiniteSet(S),
         NEW j \in 1..Cardinality(S), NEW k \in 1..Cardinality(S), Place(S, j) = Place(S, k)
  PROVE  j = k
<1>1. Cardinality(S) \in Nat
  BY FS_CardinalityType
<1>2. /\ Cardinality({q \in S : PositionBefore(q, Place(S, j))}) = j - 1
      /\ Cardinality({q \in S : PositionBefore(q, Place(S, k))}) = k - 1
  BY PlaceIsIn
<1> QED
  BY <1>1, <1>2

\* The element with k - 1 before it is the one of rank k.
LEMMA NthIs ==
  ASSUME NEW S \in SUBSET Nat, IsFiniteSet(S), NEW k \in 1..Cardinality(S),
         NEW x \in S, Cardinality({y \in S : y < x}) = k - 1
  PROVE  Nth(S, k) = x
<1> DEFINE z == Nth(S, k)
           Less(w) == {y \in S : y < w}
<1>1. z \in S /\ Cardinality(Less(z)) = k - 1 /\ Cardinality(Less(x)) = k - 1
  BY NthIsIn
<1>2. ASSUME NEW v \in S, NEW w \in S, v < w
      PROVE  Cardinality(Less(v)) # Cardinality(Less(w))
  <2>1. Less(w) \in SUBSET S /\ Less(v) \in SUBSET Less(w)
    <3>1. \A y \in S : y < v => y < w
      BY <1>2
    <3> QED
      BY <3>1
  <2>2. v \in Less(w) /\ v \notin Less(v)
    BY <1>2
  <2> HIDE DEF Less
  <2> QED
    BY <2>1, <2>2, FS_Subset
<1>3. z = x
  <2> HIDE DEF z, Less
  <2> QED
    BY <1>1, <1>2
<1> QED
  BY <1>3 DEF z

-----------------------------------------------------------------------------
(* Segments                                                                *)

Texts == Seq(Lines)
Kept(text) == {i \in DOMAIN text : Trim[text[i]] # NoText}

LEMMA KeptIsFinite ==
  ASSUME NEW text \in Texts
  PROVE  /\ Kept(text) \in SUBSET (1..Len(text)) /\ Kept(text) \in SUBSET Nat
         /\ IsFiniteSet(Kept(text)) /\ Cardinality(Kept(text)) \in Nat
<1>1. Kept(text) \in SUBSET (1..Len(text)) /\ Len(text) \in Nat
  BY DEF Kept, Texts
<1>2. IsFiniteSet(1..Len(text))
  BY <1>1, FS_Interval
<1> QED
  BY <1>1, <1>2, FS_Subset, FS_CardinalityType

LEMMA SplitIs ==
  ASSUME NEW text
  PROVE  SplitDisplaySegments(text) =
           [k \in 1..Cardinality(Kept(text)) |-> Trim[text[Nth(Kept(text), k)]]]
BY DEF SplitDisplaySegments, InOrder, Kept, Nth

\* Segments are trimmed lines that are not blank.
Segments == {segments \in Texts : \A k \in DOMAIN segments :
                                    segments[k] # NoText /\ Trim[segments[k]] = segments[k]}

LEMMA SplitIsSegments ==
  ASSUME NEW text \in Texts
  PROVE  /\ SplitDisplaySegments(text) \in Segments
         /\ Len(SplitDisplaySegments(text)) = Cardinality(Kept(text))
         /\ \A k \in 1..Cardinality(Kept(text)) :
              SplitDisplaySegments(text)[k] = Trim[text[Nth(Kept(text), k)]]
<1> DEFINE n == Cardinality(Kept(text))
           split == SplitDisplaySegments(text)
<1>1. n \in Nat
  BY KeptIsFinite
<1>2. \A k \in 1..n : Nth(Kept(text), k) \in Kept(text)
  BY KeptIsFinite, NthIsIn
<1>3. split = [k \in 1..n |-> Trim[text[Nth(Kept(text), k)]]]
  BY SplitIs
<1>4. \A k \in 1..n : split[k] = Trim[text[Nth(Kept(text), k)]]
  BY <1>3
<1>5. \A i \in Kept(text) : Trim[text[i]] \in Lines \ {NoText} /\ Trim[Trim[text[i]]] = Trim[text[i]]
  BY CorpusViewAssumption DEF CorpusViewAssumption, Kept, Texts
<1>6. \A k \in 1..n : split[k] \in Lines /\ split[k] # NoText /\ Trim[split[k]] = split[k]
  BY <1>2, <1>4, <1>5
<1>7. DOMAIN split = 1..n
  BY <1>3
<1>8. split \in Seq(Lines)
  <2>1. split = [k \in 1..n |-> split[k]]
    BY <1>3
  <2> HIDE DEF split
  <2>2. split \in [1..n -> Lines]
    BY <2>1, <1>6
  <2> QED
    BY <2>2, <1>1
<1>9. Len(split) = n
  BY <1>1, <1>7, <1>8
<1> QED
  BY <1>4, <1>6, <1>7, <1>8, <1>9 DEF Segments, Texts

LEMMA EmptyHasNone ==
  Empty \in Texts /\ SplitDisplaySegments(Empty) = <<>>
<1>1. Empty \in Texts
  BY CorpusViewAssumption DEF Empty, Texts, CorpusViewAssumption
<1>2. Kept(Empty) = {}
  BY CorpusViewAssumption DEF Empty, Kept, CorpusViewAssumption
<1>3. Len(SplitDisplaySegments(Empty)) = 0
  BY <1>1, <1>2, SplitIsSegments, FS_EmptySet
<1> QED
  BY <1>1, <1>3, SplitIsSegments DEF Segments, Texts

LEMMA Interval ==
  ASSUME NEW a \in Int, NEW b \in Int, a <= b + 1
  PROVE  IsFiniteSet(a..b) /\ Cardinality(a..b) = b - a + 1
BY FS_Interval

LEMMA Disjoint ==
  ASSUME NEW A, IsFiniteSet(A), NEW B, IsFiniteSet(B), A \cap B = {}
  PROVE  IsFiniteSet(A \cup B) /\ Cardinality(A \cup B) = Cardinality(A) + Cardinality(B)
<1>1. Cardinality(A) \in Nat /\ Cardinality(B) \in Nat /\ Cardinality({}) = 0
  BY FS_EmptySet, FS_CardinalityType
<1>2. /\ IsFiniteSet(A \cup B)
      /\ Cardinality(A \cup B) = Cardinality(A) + Cardinality(B) - Cardinality(A \cap B)
  BY FS_Union
<1>3. Cardinality(A \cap B) = 0
  BY <1>1
<1> QED
  BY <1>1, <1>2, <1>3

\* A set between two intervals.
LEMMA Between ==
  ASSUME NEW a \in Nat, NEW b \in Nat, NEW c \in Nat, a < b, b <= c + 1,
         NEW M \in SUBSET Nat, IsFiniteSet(M), \A m \in M : a < m /\ m < b
  PROVE  Cardinality((1..a) \cup M \cup (b..c)) = a + Cardinality(M) + (c - b + 1)
<1> DEFINE A == 1..a  B == b..c
<1>1. /\ IsFiniteSet(A) /\ Cardinality(A) = a
      /\ IsFiniteSet(B) /\ Cardinality(B) = c - b + 1
  BY Interval
<1>2. A \cap M = {} /\ (A \cup M) \cap B = {}
  OBVIOUS
<1> HIDE DEF A, B
<1>3. IsFiniteSet(A \cup M) /\ Cardinality(A \cup M) = a + Cardinality(M)
  BY <1>1, <1>2, Disjoint
<1> DEFINE C == A \cup M
<1>4. IsFiniteSet(C) /\ Cardinality(C) = a + Cardinality(M) /\ C \cap B = {}
  BY <1>2, <1>3
<1> HIDE DEF C
<1>5. Cardinality(C \cup B) = Cardinality(C) + Cardinality(B)
  BY <1>1, <1>4, Disjoint
<1>6. Cardinality(C \cup B) = a + Cardinality(M) + (c - b + 1)
  BY <1>1, <1>4, <1>5
<1> QED
  BY <1>6 DEF A, B, C

LEMMA Concatenated ==
  ASSUME NEW x \in Texts, NEW y \in Texts
  PROVE  /\ x \o y \in Texts /\ Len(x \o y) = Len(x) + Len(y)
         /\ \A i \in 1..Len(x) : (x \o y)[i] = x[i]
         /\ \A i \in 1..Len(y) : (x \o y)[Len(x) + i] = y[i]
BY ConcatProperties DEF Texts

LEMMA JoinIs ==
  ASSUME NEW segments \in Texts, NEW value \in Texts, NEW k \in 1..Len(segments),
         NEW text, text = JoinSegments(segments, k, value)
  PROVE  /\ text \in Texts /\ Len(text) = Len(segments) - 1 + Len(value)
         /\ \A i \in 1..(k - 1) : text[i] = segments[i]
         /\ \A i \in (k + Len(value))..Len(text) : text[i] = segments[i - Len(value) + 1]
         /\ \A i \in DOMAIN value : text[k - 1 + i] = value[i]
<1> DEFINE n == Len(segments)  m == Len(value)
           left == SubSeq(segments, 1, k - 1)  right == SubSeq(segments, k + 1, n)
<1>1. n \in Nat /\ m \in Nat /\ k \in Nat /\ 1 <= k /\ k <= n
  BY DEF Texts
<1>2. /\ left \in Texts /\ Len(left) = k - 1
      /\ \A i \in 1..(k - 1) : left[i] = segments[i]
  BY <1>1, SubSeqProperties DEF Texts
<1>3. /\ right \in Texts /\ Len(right) = n - k
      /\ \A i \in 1..(n - k) : right[i] = segments[k + i]
  BY <1>1, SubSeqProperties DEF Texts
<1>4. text = (left \o value) \o right
  BY DEF JoinSegments
<1> HIDE DEF left, right
<1> DEFINE front == left \o value
<1> HIDE DEF n, m
<1>5. /\ front \in Texts /\ Len(front) = k - 1 + m
      /\ \A i \in 1..(k - 1) : front[i] = left[i]
      /\ \A i \in 1..m : front[k - 1 + i] = value[i]
  <2>1. /\ front \in Texts /\ Len(front) = Len(left) + Len(value)
        /\ \A i \in 1..Len(left) : front[i] = left[i]
        /\ \A i \in 1..Len(value) : front[Len(left) + i] = value[i]
    BY <1>2, Concatenated
  <2> QED
    BY <1>2, <2>1 DEF m
<1>6. /\ text \in Texts /\ Len(text) = k - 1 + m + (n - k)
      /\ \A i \in 1..(k - 1 + m) : text[i] = front[i]
      /\ \A i \in 1..(n - k) : text[k - 1 + m + i] = right[i]
  <2> HIDE DEF front
  <2>1. text = front \o right
    BY <1>4 DEF front
  <2>2. /\ text \in Texts /\ Len(text) = Len(front) + Len(right)
        /\ \A i \in 1..Len(front) : text[i] = front[i]
        /\ \A i \in 1..Len(right) : text[Len(front) + i] = right[i]
    <3>1. front \in Texts /\ right \in Texts
      BY <1>3, <1>5
    <3>2. /\ front \o right \in Texts /\ Len(front \o right) = Len(front) + Len(right)
          /\ \A i \in 1..Len(front) : (front \o right)[i] = front[i]
          /\ \A i \in 1..Len(right) : (front \o right)[Len(front) + i] = right[i]
      BY <3>1, Concatenated
    <3> QED
      BY <2>1, <3>2
  <2> QED
    BY <1>3, <1>5, <2>2
<1> HIDE DEF front
<1>7. \A i \in 1..(k - 1) : text[i] = segments[i]
  <2>1. \A i \in 1..(k - 1) : i \in 1..(k - 1 + m)
    BY <1>1
  <2> QED
    BY <2>1, <1>2, <1>5, <1>6
<1>8. ASSUME NEW i \in (k + m)..Len(text)
      PROVE  text[i] = segments[i - m + 1]
  <2> DEFINE j == i - (k - 1 + m)
  <2>1. j \in 1..(n - k) /\ k - 1 + m + j = i /\ k + j = i - m + 1
    BY <1>1, <1>6
  <2> HIDE DEF j
  <2>2. text[k - 1 + m + j] = segments[k + j]
    BY <1>3, <1>6, <2>1
  <2> QED
    BY <2>1, <2>2
<1>9. ASSUME NEW i \in 1..m
      PROVE  text[k - 1 + i] = value[i]
  <2>1. k - 1 + i \in 1..(k - 1 + m)
    BY <1>1
  <2> QED
    BY <1>5, <1>6, <2>1
<1>10. DOMAIN value = 1..m
  BY DEF Texts, m
<1>11. Len(text) = n - 1 + m
  BY <1>1, <1>6
<1> QED
  BY <1>6, <1>7, <1>8, <1>9, <1>10, <1>11 DEF n, m

\* Segments are their own segments.
LEMMA SplitOfSegments ==
  ASSUME NEW segments \in Segments
  PROVE  SplitDisplaySegments(segments) = segments
<1> DEFINE n == Len(segments)
<1>1. segments \in Texts /\ n \in Nat /\ DOMAIN segments = 1..n
  BY DEF Segments, Texts
<1>2. Kept(segments) = 1..n
  BY <1>1 DEF Kept, Segments
<1>3. IsFiniteSet(1..n) /\ Cardinality(1..n) = n
  BY <1>1, Interval
<1>4. ASSUME NEW k \in 1..n
      PROVE  Nth(1..n, k) = k
  <2>1. {y \in 1..n : y < k} = 1..(k - 1)
    BY <1>1
  <2>2. Cardinality(1..(k - 1)) = k - 1
    BY <1>1, FS_Interval
  <2> QED
    BY <1>1, <1>3, <2>1, <2>2, NthIs
<1>5. \A k \in 1..n : Trim[segments[k]] = segments[k]
  BY <1>1 DEF Segments
<1>6. \A k \in 1..n : SplitDisplaySegments(segments)[k] = segments[k]
  BY <1>1, <1>2, <1>3, <1>4, <1>5, SplitIsSegments
<1>7. SplitDisplaySegments(segments) \in Texts /\ Len(SplitDisplaySegments(segments)) = n
  BY <1>1, <1>2, <1>3, SplitIsSegments DEF Segments
<1> HIDE DEF n
<1> QED
  BY <1>1, <1>6, <1>7 DEF Texts

\* What becomes of the segments of a cell when one of them is replaced.
LEMMA SplitOfJoin ==
  ASSUME NEW segments \in Segments, NEW value \in Texts, NEW k \in 1..Len(segments),
         NEW text, text = JoinSegments(segments, k, value),
         NEW after, after = SplitDisplaySegments(text)
  PROVE  /\ text \in Texts
         /\ \A j \in 1..(k - 1) : j <= Len(after) /\ after[j] = segments[j]
         /\ Len(after) = Len(segments) =>
              \A j \in (k + 1)..Len(segments) : after[j] = segments[j]
         /\ value = <<segments[k]>> => after = segments
<1> DEFINE n == Len(segments)  m == Len(value)  S == Kept(text)
           M == {i \in S : k <= i /\ i < k + m}
<1>1. /\ segments \in Texts /\ n \in Nat /\ m \in Nat /\ k \in Nat /\ 1 <= k /\ k <= n
      /\ DOMAIN segments = 1..n
  BY DEF Segments, Texts
<1>2. /\ text \in Texts /\ Len(text) = n - 1 + m
      /\ \A i \in 1..(k - 1) : text[i] = segments[i]
      /\ \A i \in (k + m)..Len(text) : text[i] = segments[i - m + 1]
      /\ \A i \in DOMAIN value : text[k - 1 + i] = value[i]
  <2> HIDE DEF S, M
  <2>1. segments \in Texts
    BY <1>1
  <2> QED
    BY <2>1, JoinIs
<1>3. \A i \in 1..n : segments[i] # NoText /\ Trim[segments[i]] = segments[i]
  BY <1>1 DEF Segments
<1>4. /\ S \in SUBSET (1..Len(text)) /\ S \in SUBSET Nat
      /\ IsFiniteSet(S) /\ Cardinality(S) \in Nat
  BY <1>2, KeptIsFinite
<1>5. /\ after \in Segments /\ Len(after) = Cardinality(S)
      /\ \A j \in 1..Cardinality(S) : after[j] = Trim[text[Nth(S, j)]]
  BY <1>2, SplitIsSegments
<1>6. DOMAIN text = 1..Len(text)
  BY <1>2 DEF Texts
<1> HIDE DEF n, m
<1>7. \A i \in 1..(k - 1) : i \in S
  <2>1. \A i \in 1..(k - 1) : i \in 1..Len(text) /\ i \in 1..n
    BY <1>1, <1>2
  <2> QED
    BY <1>2, <1>3, <1>6, <2>1 DEF Kept
<1>8. \A i \in (k + m)..(n - 1 + m) : i \in S
  <2>1. \A i \in (k + m)..(n - 1 + m) : i \in 1..Len(text) /\ i - m + 1 \in 1..n
    BY <1>1, <1>2
  <2> QED
    BY <1>2, <1>3, <1>6, <2>1 DEF Kept
<1>9. IsFiniteSet(M) /\ M \in SUBSET Nat /\ Cardinality(M) \in Nat
  BY <1>4, FS_Subset, FS_CardinalityType
<1> HIDE DEF S
<1>10. S = (1..(k - 1)) \cup M \cup ((k + m)..(n - 1 + m))
  <2>1. \A i \in S : i \in Nat /\ 1 <= i /\ i <= n - 1 + m
    BY <1>2, <1>4
  <2> QED
    BY <1>1, <1>7, <1>8, <2>1
<1>11. \A i \in M : k - 1 < i /\ i < k + m
  BY <1>1, <1>4
<1> HIDE DEF M
<1>12. Cardinality(S) = (k - 1) + Cardinality(M) + (n - k)
  <2>1. Cardinality((1..(k - 1)) \cup M \cup ((k + m)..(n - 1 + m)))
          = (k - 1) + Cardinality(M) + ((n - 1 + m) - (k + m) + 1)
    <3> DEFINE a == k - 1  b == k + m  c == n - 1 + m
    <3>1. a \in Nat /\ b \in Nat /\ c \in Nat /\ a < b /\ b <= c + 1
      BY <1>1
    <3>2. \A i \in M : a < i /\ i < b
      BY <1>11
    <3> HIDE DEF a, b, c
    <3>3. Cardinality((1..a) \cup M \cup (b..c)) = a + Cardinality(M) + (c - b + 1)
      BY <1>9, <3>1, <3>2, Between
    <3> QED
      BY <3>3 DEF a, b, c
  <2> QED
    BY <1>1, <1>9, <1>10, <2>1
<1>13. ASSUME NEW j \in 1..(k - 1)
       PROVE  j <= Len(after) /\ after[j] = segments[j]
  <2>1. j \in 1..Cardinality(S) /\ j \in S
    BY <1>1, <1>7, <1>9, <1>12
  <2>2. {y \in S : y < j} = 1..(j - 1)
    <3>1. \A y \in 1..(j - 1) : y \in S /\ y < j
      BY <1>1, <1>7
    <3>2. \A y \in S : y < j => y \in 1..(j - 1)
      BY <1>1, <1>2, <1>4
    <3> QED
      BY <3>1, <3>2
  <2>3. Cardinality(1..(j - 1)) = j - 1
    BY <1>1, Interval
  <2>4. Nth(S, j) = j
    BY <1>4, <2>1, <2>2, <2>3, NthIs
  <2>5. j \in 1..n
    BY <1>1
  <2> QED
    BY <1>2, <1>3, <1>4, <1>5, <2>1, <2>4, <2>5
<1>14. ASSUME Len(after) = n, NEW j \in (k + 1)..n
       PROVE  after[j] = segments[j]
  <2> DEFINE x == j - 1 + m
  <2>1. Cardinality(M) = 1
    BY <1>1, <1>5, <1>9, <1>12, <1>14
  <2>2. x \in Nat /\ x \in (k + m)..(n - 1 + m) /\ x - m + 1 = j
    BY <1>1
  <2> HIDE DEF x
  <2>3. x \in S
    BY <1>8, <2>2
  <2>4. {y \in S : y < x} = (1..(k - 1)) \cup M \cup ((k + m)..(x - 1))
    <3>1. \A y \in 1..(k - 1) : y \in S /\ y < x
      BY <1>1, <1>7, <2>2
    <3>2. \A y \in (k + m)..(x - 1) : y \in S /\ y < x
      BY <1>1, <1>8, <2>2
    <3>3. \A y \in M : y \in S /\ y < x
      BY <1>1, <1>9, <1>10, <1>11, <2>2
    <3>4. \A y \in S : y < x => y \in (1..(k - 1)) \cup M \cup ((k + m)..(x - 1))
      BY <1>1, <1>10, <2>2
    <3> QED
      BY <3>1, <3>2, <3>3, <3>4
  <2>5. Cardinality((1..(k - 1)) \cup M \cup ((k + m)..(x - 1)))
          = (k - 1) + Cardinality(M) + ((x - 1) - (k + m) + 1)
    <3> DEFINE a == k - 1  b == k + m  c == x - 1
    <3>1. a \in Nat /\ b \in Nat /\ c \in Nat /\ a < b /\ b <= c + 1
      BY <1>1, <2>2
    <3>2. \A i \in M : a < i /\ i < b
      BY <1>11
    <3> HIDE DEF a, b, c
    <3>3. Cardinality((1..a) \cup M \cup (b..c)) = a + Cardinality(M) + (c - b + 1)
      BY <1>9, <3>1, <3>2, Between
    <3> QED
      BY <3>3 DEF a, b, c
  <2>6. Cardinality({y \in S : y < x}) = j - 1
    <3>1. (k - 1) + 1 + ((x - 1) - (k + m) + 1) = j - 1
      BY <1>1, <2>2
    <3> QED
      BY <2>1, <2>4, <2>5, <3>1
  <2>7. j \in 1..Cardinality(S)
    BY <1>1, <1>5, <1>14
  <2>8. Nth(S, j) = x
    BY <1>4, <2>3, <2>6, <2>7, NthIs
  <2>9. x \in (k + m)..Len(text) /\ j \in 1..n
    BY <1>1, <1>2, <2>2
  <2> QED
    BY <1>2, <1>3, <1>5, <2>2, <2>7, <2>8, <2>9
<1>15. ASSUME value = <<segments[k]>>
       PROVE  after = segments
  <2>1. m = 1 /\ value[1] = segments[k] /\ DOMAIN value = {1}
    BY <1>15 DEF m
  <2>2. \A i \in 1..n : text[i] = segments[i]
    <3>1. \A i \in 1..n : i \in 1..(k - 1) \/ i = k \/ i \in (k + m)..Len(text)
      BY <1>1, <1>2, <2>1
    <3>2. text[k] = segments[k]
      BY <1>1, <1>2, <2>1
    <3>3. \A i \in (k + m)..Len(text) : i - m + 1 = i
      BY <1>1, <2>1
    <3> QED
      BY <1>2, <3>1, <3>2, <3>3
  <2>3. Len(text) = n
    BY <1>1, <1>2, <2>1
  <2>4. text = segments
    BY <1>1, <1>2, <2>2, <2>3 DEF Texts, n
  <2> QED
    BY <2>4, SplitOfSegments
<1> QED
  BY <1>2, <1>13, <1>14, <1>15 DEF n

-----------------------------------------------------------------------------
(* The view                                                                *)

\* The shape of a session; its source and its columns make sense of each other.
WellFormed(s) ==
  /\ s = [id |-> s.id, revision |-> s.revision, exported |-> s.exported, source |-> s.source,
          owners |-> s.owners, selected |-> s.selected, marks |-> s.marks, view |-> s.view]
  /\ s.id \in Nat /\ s.revision \in Nat /\ s.exported \in Nat
  /\ s.source \in Seq(Seq(Texts))
  /\ s.owners \in [DOMAIN s.source -> DOMAIN s.source]
  /\ s.selected.reference \in Nat
  /\ s.selected.plays \subseteq Nat \ {NoColumn, s.selected.reference}
  /\ IsFiniteSet(s.selected.plays)

SegmentsOf(s, r, c) == SplitDisplaySegments(Cell(s.source, r, c))
Reference(s, r) ==
  IF s.selected.reference = NoColumn THEN Empty
  ELSE Cell(s.source, s.owners[r], s.selected.reference)
SegmentRow(s, r, k) ==
  [c \in s.selected.plays |-> IF k <= Len(SegmentsOf(s, r, c)) THEN k ELSE NoSegment]
TextRow(s, r, k) ==
  [c \in s.selected.plays |-> IF k <= Len(SegmentsOf(s, r, c)) THEN SegmentsOf(s, r, c)[k] ELSE NoText]
ResultRow(s, r, k) ==
  [c \in s.selected.plays |->
     IF k <= Len(SegmentsOf(s, r, c)) /\ <<r, c, k>> \in DOMAIN s.marks
     THEN s.marks[<<r, c, k>>] ELSE "blank"]

LEMMA RowIs ==
  ASSUME NEW s, NEW r, NEW k
  PROVE  DisplayRow(s, r, k) =
           [raw |-> r, expanded |-> k, owner |-> s.owners[r], reference |-> Reference(s, r),
            segment |-> SegmentRow(s, r, k), text |-> TextRow(s, r, k), result |-> ResultRow(s, r, k)]
BY DEF DisplayRow, Reference, SegmentRow, TextRow, ResultRow, SegmentsOf

LEMMA RowFields ==
  ASSUME NEW s, NEW r, NEW k
  PROVE  /\ DisplayRow(s, r, k).raw = r
         /\ DisplayRow(s, r, k).expanded = k
         /\ DisplayRow(s, r, k).reference = Reference(s, r)
         /\ DisplayRow(s, r, k).segment = SegmentRow(s, r, k)
         /\ DisplayRow(s, r, k).text = TextRow(s, r, k)
         /\ DisplayRow(s, r, k).result = ResultRow(s, r, k)
BY RowIs

LEMMA CellIsText ==
  ASSUME NEW rows \in Seq(Seq(Texts)), NEW r \in DOMAIN rows, NEW c \in Nat \ {0}
  PROVE  Cell(rows, r, c) \in Texts
<1>1. rows[r] \in Seq(Texts)
  OBVIOUS
<1>2. CASE c <= Len(rows[r])
  <2>1. c \in DOMAIN rows[r]
    BY <1>1, <1>2
  <2> QED
    BY <1>1, <1>2, <2>1 DEF Cell
<1>3. CASE ~(c <= Len(rows[r]))
  BY <1>3, EmptyHasNone DEF Cell
<1> QED
  BY <1>2, <1>3

LEMMA SegmentsOfAreSegments ==
  ASSUME NEW s, WellFormed(s), NEW r \in DOMAIN s.source, NEW c \in s.selected.plays
  PROVE  /\ SegmentsOf(s, r, c) \in Segments
         /\ Len(SegmentsOf(s, r, c)) \in Nat
         /\ DOMAIN SegmentsOf(s, r, c) = 1..Len(SegmentsOf(s, r, c))
<1>1. c \in Nat \ {0} /\ s.source \in Seq(Seq(Texts))
  BY DEF WellFormed, NoColumn
<1>2. Cell(s.source, r, c) \in Texts
  BY <1>1, CellIsText
<1>3. SegmentsOf(s, r, c) \in Segments
  BY <1>2, SplitIsSegments DEF SegmentsOf
<1> QED
  BY <1>3 DEF Segments, Texts

LEMMA FiniteImage ==
  ASSUME NEW S, IsFiniteSet(S), NEW f, DOMAIN f = S, f = [x \in S |-> f[x]],
         NEW T, \A y : y \in T <=> \E x \in S : y = f[x]
  PROVE  IsFiniteSet(T)
<1>1. f \in [S -> T]
  OBVIOUS
<1>2. f \in Surjection(S, T)
  BY <1>1 DEF Surjection
<1> QED
  BY <1>2, FS_Surjection

\* A position is shown for its reference or for a segment.
ShownAt(s, r, k) ==
  ~IsBlank(Reference(s, r)) \/ \E c \in s.selected.plays : k <= Len(SegmentsOf(s, r, c))

LEMMA ExpandedIs ==
  ASSUME NEW s, WellFormed(s), NEW r \in DOMAIN s.source
  PROVE  /\ IsFiniteSet(Expanded(s, r)) /\ Expanded(s, r) \in SUBSET (Nat \ {0})
         /\ \A k : k \in Expanded(s, r) <=>
                     \/ k = 1
                     \/ k \in Nat \ {0} /\ \E c \in s.selected.plays : k <= Len(SegmentsOf(s, r, c))
<1> DEFINE Indexes(c) == DOMAIN SegmentsOf(s, r, c)
           Family == {Indexes(c) : c \in s.selected.plays}
<1>1. \A c \in s.selected.plays : /\ Len(SegmentsOf(s, r, c)) \in Nat
                                  /\ Indexes(c) = 1..Len(SegmentsOf(s, r, c))
  BY SegmentsOfAreSegments
<1>2. \A c \in s.selected.plays : IsFiniteSet(Indexes(c))
  BY <1>1, Interval
<1>3. IsFiniteSet(Family)
  <2> DEFINE image == [c \in s.selected.plays |-> Indexes(c)]
  <2>1. IsFiniteSet(s.selected.plays)
    BY DEF WellFormed
  <2> HIDE DEF Indexes
  <2>2. /\ DOMAIN image = s.selected.plays /\ image = [c \in s.selected.plays |-> image[c]]
        /\ \A y : y \in Family <=> \E c \in s.selected.plays : y = image[c]
    OBVIOUS
  <2> HIDE DEF image, Family
  <2> QED
    BY <2>1, <2>2, FiniteImage
<1>4. IsFiniteSet(UNION Family)
  <2>1. \A T \in Family : IsFiniteSet(T)
    <3> HIDE DEF Indexes
    <3> QED
      BY <1>2
  <2> HIDE DEF Family
  <2> QED
    BY <1>3, <2>1, FS_UNION
<1>5. Expanded(s, r) = {1} \cup UNION Family
  BY DEF Expanded, SegmentsOf
<1>6. IsFiniteSet({1})
  BY FS_Singleton
<1>7. IsFiniteSet(Expanded(s, r))
  <2> HIDE DEF Family
  <2> QED
    BY <1>4, <1>5, <1>6, FS_Union
<1>8. \A k : k \in UNION Family <=> \E c \in s.selected.plays : k \in Indexes(c)
  <2> HIDE DEF Indexes
  <2> QED
    OBVIOUS
<1> HIDE DEF Family
<1>9. \A k : k \in UNION Family <=>
               k \in Nat \ {0} /\ \E c \in s.selected.plays : k <= Len(SegmentsOf(s, r, c))
  <2>1. \A k : \A c \in s.selected.plays :
          k \in Indexes(c) <=> k \in Nat \ {0} /\ k <= Len(SegmentsOf(s, r, c))
    <3> HIDE DEF Indexes
    <3> QED
      BY <1>1
  <2> HIDE DEF Indexes
  <2> QED
    BY <1>8, <2>1
<1> HIDE DEF Indexes
<1> QED
  BY <1>5, <1>7, <1>9

LEMMA PositionsAre ==
  ASSUME NEW s, WellFormed(s)
  PROVE  /\ IsFiniteSet(Positions(s)) /\ Cardinality(Positions(s)) \in Nat
         /\ Positions(s) \in SUBSET (Nat \X Nat)
         /\ \A p \in Positions(s) : p[1] \in DOMAIN s.source /\ p[2] \in Nat \ {0}
         /\ \A p : p \in Positions(s) <=>
              \E r \in DOMAIN s.source : \E k \in Expanded(s, r) : p = <<r, k>> /\ ShownAt(s, r, k)
<1> DEFINE Rows(r) == {r} \X Expanded(s, r)
           Family == {Rows(r) : r \in DOMAIN s.source}
<1>1. s.source \in Seq(Seq(Texts)) /\ DOMAIN s.source = 1..Len(s.source) /\ Len(s.source) \in Nat
  BY DEF WellFormed
<1>2. IsFiniteSet(DOMAIN s.source)
  BY <1>1, Interval
<1>3. \A r \in DOMAIN s.source : IsFiniteSet(Rows(r))
  <2> TAKE r \in DOMAIN s.source
  <2>1. IsFiniteSet({r}) /\ IsFiniteSet(Expanded(s, r))
    BY FS_Singleton, ExpandedIs
  <2> QED
    BY <2>1, FS_Product
<1>4. IsFiniteSet(Family)
  <2> DEFINE image == [r \in DOMAIN s.source |-> Rows(r)]
  <2> HIDE DEF Rows
  <2>1. /\ DOMAIN image = DOMAIN s.source /\ image = [r \in DOMAIN s.source |-> image[r]]
        /\ \A y : y \in Family <=> \E r \in DOMAIN s.source : y = image[r]
    OBVIOUS
  <2> HIDE DEF image, Family
  <2> QED
    BY <1>2, <2>1, FiniteImage
<1>5. IsFiniteSet(UNION Family)
  <2>1. \A T \in Family : IsFiniteSet(T)
    <3> HIDE DEF Rows
    <3> QED
      BY <1>3
  <2> HIDE DEF Family
  <2> QED
    BY <1>4, <2>1, FS_UNION
<1>6. \A p : p \in UNION Family <=> \E r \in DOMAIN s.source : p \in Rows(r)
  <2> HIDE DEF Rows
  <2> QED
    OBVIOUS
<1>7. \A p : p \in UNION Family <=> \E r \in DOMAIN s.source : \E k \in Expanded(s, r) : p = <<r, k>>
  <2>1. \A r : \A p : p \in Rows(r) <=> \E k \in Expanded(s, r) : p = <<r, k>>
    OBVIOUS
  <2> HIDE DEF Rows, Family
  <2> QED
    BY <1>6, <2>1
<1>8. Positions(s) = {p \in UNION Family : Shown(DisplayRow(s, p[1], p[2]))}
  BY DEF Positions
<1> HIDE DEF Family
<1>9. ASSUME NEW r \in DOMAIN s.source, NEW k \in Expanded(s, r)
      PROVE  Shown(DisplayRow(s, r, k)) <=> ShownAt(s, r, k)
  <2>1. k \in Nat \ {0}
    BY ExpandedIs
  <2>2. ASSUME NEW c \in s.selected.plays
        PROVE  TextRow(s, r, k)[c] # NoText <=> k <= Len(SegmentsOf(s, r, c))
    <3>1. /\ SegmentsOf(s, r, c) \in Segments
          /\ Len(SegmentsOf(s, r, c)) \in Nat
          /\ DOMAIN SegmentsOf(s, r, c) = 1..Len(SegmentsOf(s, r, c))
      BY SegmentsOfAreSegments
    <3>2. k <= Len(SegmentsOf(s, r, c)) => SegmentsOf(s, r, c)[k] # NoText
      BY <2>1, <3>1 DEF Segments
    <3>3. TextRow(s, r, k)[c] =
            IF k <= Len(SegmentsOf(s, r, c)) THEN SegmentsOf(s, r, c)[k] ELSE NoText
      BY DEF TextRow
    <3> QED
      BY <3>2, <3>3
  <2>3. DOMAIN TextRow(s, r, k) = s.selected.plays
    BY DEF TextRow
  <2> QED
    BY <2>2, <2>3, RowFields DEF Shown, ShownAt
<1>10. \A p : p \in Positions(s) <=>
              \E r \in DOMAIN s.source : \E k \in Expanded(s, r) : p = <<r, k>> /\ ShownAt(s, r, k)
  <2> TAKE p
  <2>1. ASSUME p \in Positions(s)
        PROVE  \E r \in DOMAIN s.source : \E k \in Expanded(s, r) : p = <<r, k>> /\ ShownAt(s, r, k)
    <3>1. p \in UNION Family /\ Shown(DisplayRow(s, p[1], p[2]))
      BY <1>8, <2>1
    <3>2. PICK r \in DOMAIN s.source : \E k \in Expanded(s, r) : p = <<r, k>>
      BY <1>7, <3>1
    <3>0. PICK k \in Expanded(s, r) : p = <<r, k>>
      BY <3>2
    <3>3. Shown(DisplayRow(s, r, k))
      BY <3>0, <3>1
    <3> QED
      BY <1>9, <3>0, <3>3
  <2>2. ASSUME NEW r \in DOMAIN s.source, NEW k \in Expanded(s, r), p = <<r, k>>, ShownAt(s, r, k)
        PROVE  p \in Positions(s)
    <3>1. p \in UNION Family /\ Shown(DisplayRow(s, r, k)) /\ p[1] = r /\ p[2] = k
      BY <1>7, <1>9, <2>2
    <3> QED
      BY <1>8, <3>1
  <2> QED
    BY <2>1, <2>2
<1>11. \A p \in Positions(s) : /\ p \in Nat \X Nat
                               /\ p[1] \in DOMAIN s.source /\ p[2] \in Nat \ {0}
  <2> TAKE p \in Positions(s)
  <2>0. PICK r \in DOMAIN s.source : \E k \in Expanded(s, r) : p = <<r, k>>
    BY <1>10
  <2>1. PICK k \in Expanded(s, r) : p = <<r, k>>
    BY <2>0
  <2>2. k \in Nat \ {0}
    <3>1. Expanded(s, r) \in SUBSET (Nat \ {0})
      BY ExpandedIs
    <3> QED
      BY <3>1
  <2>3. r \in Nat
    BY <1>1
  <2> QED
    BY <2>1, <2>2, <2>3
<1>12. IsFiniteSet(Positions(s)) /\ Cardinality(Positions(s)) \in Nat
  BY <1>5, <1>8, FS_Subset, FS_CardinalityType
<1> QED
  BY <1>10, <1>11, <1>12

\* The position that row d of the view shows.
At(s, d) == Place(Positions(s), d)

LEMMA BuildIs ==
  ASSUME NEW s
  PROVE  Build(s) = [d \in 1..Cardinality(Positions(s)) |-> DisplayRow(s, At(s, d)[1], At(s, d)[2])]
BY DEF Build, InOrder, At, Place, PositionBefore

LEMMA ViewRow ==
  ASSUME NEW s, WellFormed(s), NEW d \in DOMAIN Build(s)
  PROVE  /\ d \in 1..Cardinality(Positions(s)) /\ At(s, d) \in Positions(s)
         /\ At(s, d)[1] \in DOMAIN s.source /\ At(s, d)[2] \in Nat \ {0}
         /\ Build(s)[d] = DisplayRow(s, At(s, d)[1], At(s, d)[2])
<1>1. d \in 1..Cardinality(Positions(s))
  BY BuildIs
<1>2. At(s, d) \in Positions(s)
  BY <1>1, PositionsAre, PlaceIsIn DEF At
<1> QED
  BY <1>1, <1>2, BuildIs, PositionsAre

LEMMA ViewIsSequence ==
  ASSUME NEW s, WellFormed(s)
  PROVE  /\ DOMAIN Build(s) = 1..Cardinality(Positions(s))
         /\ Len(Build(s)) = Cardinality(Positions(s))
<1>1. Cardinality(Positions(s)) \in Nat
  BY PositionsAre
<1>2. DOMAIN Build(s) = 1..Cardinality(Positions(s))
  BY BuildIs
<1>3. Build(s) \in Seq({Build(s)[d] : d \in DOMAIN Build(s)})
  <2>1. Build(s) = [d \in 1..Cardinality(Positions(s)) |-> Build(s)[d]]
    BY BuildIs
  <2>2. Build(s) \in [1..Cardinality(Positions(s)) -> {Build(s)[d] : d \in DOMAIN Build(s)}]
    BY <1>2, <2>1
  <2> QED
    BY <1>1, <2>2
<1> QED
  BY <1>1, <1>2, <1>3

-----------------------------------------------------------------------------
(* What the view depends on                                                *)

LEMMA SameRow ==
  ASSUME NEW s, NEW t, NEW r, NEW k, t.selected = s.selected, t.owners[r] = s.owners[r],
         Reference(t, r) = Reference(s, r),
         \A c \in s.selected.plays : SegmentsOf(t, r, c) = SegmentsOf(s, r, c),
         \A c \in s.selected.plays : <<r, c, k>> \in DOMAIN t.marks <=> <<r, c, k>> \in DOMAIN s.marks,
         \A c \in s.selected.plays : <<r, c, k>> \in DOMAIN s.marks =>
                                       t.marks[<<r, c, k>>] = s.marks[<<r, c, k>>]
  PROVE  DisplayRow(t, r, k) = DisplayRow(s, r, k)
<1>1. SegmentRow(t, r, k) = SegmentRow(s, r, k)
  BY DEF SegmentRow
<1>2. TextRow(t, r, k) = TextRow(s, r, k)
  BY DEF TextRow
<1>3. ResultRow(t, r, k) = ResultRow(s, r, k)
  BY DEF ResultRow
<1> QED
  BY <1>1, <1>2, <1>3, RowIs

LEMMA PositionsFrom ==
  ASSUME NEW s, NEW t, WellFormed(s), WellFormed(t),
         t.selected = s.selected, DOMAIN t.source = DOMAIN s.source,
         \A r \in DOMAIN s.source : \A c \in s.selected.plays :
           Len(SegmentsOf(t, r, c)) = Len(SegmentsOf(s, r, c)),
         \A r \in DOMAIN s.source : IsBlank(Reference(t, r)) => IsBlank(Reference(s, r))
  PROVE  Positions(s) \in SUBSET Positions(t)
<1>1. ASSUME NEW r \in DOMAIN s.source, NEW k, k \in Expanded(s, r), ShownAt(s, r, k)
      PROVE  k \in Expanded(t, r) /\ ShownAt(t, r, k)
  <2>1. k = 1 \/ (k \in Nat \ {0} /\ \E c \in s.selected.plays : k <= Len(SegmentsOf(s, r, c)))
    BY <1>1, ExpandedIs
  <2>2. k = 1 \/ (k \in Nat \ {0} /\ \E c \in t.selected.plays : k <= Len(SegmentsOf(t, r, c)))
    BY <2>1
  <2>3. r \in DOMAIN t.source
    OBVIOUS
  <2>4. k \in Expanded(t, r)
    BY <2>2, <2>3, ExpandedIs
  <2> QED
    BY <1>1, <2>4 DEF ShownAt
<1>2. ASSUME NEW p \in Positions(s)
      PROVE  p \in Positions(t)
  <2>1. PICK r \in DOMAIN s.source : \E k \in Expanded(s, r) : p = <<r, k>> /\ ShownAt(s, r, k)
    BY PositionsAre
  <2>2. PICK k \in Expanded(s, r) : p = <<r, k>> /\ ShownAt(s, r, k)
    BY <2>1
  <2>3. r \in DOMAIN t.source /\ k \in Expanded(t, r) /\ ShownAt(t, r, k)
    BY <1>1, <2>2
  <2> QED
    BY <2>2, <2>3, PositionsAre
<1> QED
  BY <1>2

LEMMA SamePositions ==
  ASSUME NEW s, NEW t, WellFormed(s), WellFormed(t),
         t.selected = s.selected, DOMAIN t.source = DOMAIN s.source,
         \A r \in DOMAIN s.source : \A c \in s.selected.plays :
           Len(SegmentsOf(t, r, c)) = Len(SegmentsOf(s, r, c)),
         \A r \in DOMAIN s.source : IsBlank(Reference(t, r)) <=> IsBlank(Reference(s, r))
  PROVE  Positions(t) = Positions(s)
<1>1. Positions(s) \in SUBSET Positions(t)
  BY PositionsFrom
<1>2. Positions(t) \in SUBSET Positions(s)
  <2>1. s.selected = t.selected /\ DOMAIN s.source = DOMAIN t.source
    OBVIOUS
  <2>2. \A r \in DOMAIN t.source : \A c \in t.selected.plays :
           Len(SegmentsOf(s, r, c)) = Len(SegmentsOf(t, r, c))
    OBVIOUS
  <2>3. \A r \in DOMAIN t.source : IsBlank(Reference(s, r)) => IsBlank(Reference(t, r))
    OBVIOUS
  <2> QED
    BY <2>1, <2>2, <2>3, PositionsFrom
<1> QED
  BY <1>1, <1>2

LEMMA SameView ==
  ASSUME NEW s, NEW t, WellFormed(s), Positions(t) = Positions(s),
         \A p \in Positions(s) : DisplayRow(t, p[1], p[2]) = DisplayRow(s, p[1], p[2])
  PROVE  Build(t) = Build(s)
<1>1. \A d \in 1..Cardinality(Positions(s)) : At(s, d) \in Positions(s) /\ At(t, d) = At(s, d)
  BY PositionsAre, PlaceIsIn DEF At
<1>2. \A d \in 1..Cardinality(Positions(s)) :
        DisplayRow(t, At(t, d)[1], At(t, d)[2]) = DisplayRow(s, At(s, d)[1], At(s, d)[2])
  BY <1>1
<1> QED
  BY <1>2, BuildIs

\* The view is made of the source, the owners, the columns and the results alone.
LEMMA BuildFrame ==
  ASSUME NEW s, NEW t, WellFormed(s), WellFormed(t),
         t.source = s.source, t.owners = s.owners, t.selected = s.selected, t.marks = s.marks
  PROVE  Build(t) = Build(s)
<1>1. \A r : Reference(t, r) = Reference(s, r)
  BY DEF Reference
<1>2. \A r, c : SegmentsOf(t, r, c) = SegmentsOf(s, r, c)
  BY DEF SegmentsOf
<1>3. \A r, k : DisplayRow(t, r, k) = DisplayRow(s, r, k)
  BY <1>1, <1>2, SameRow
<1>4. Positions(t) = Positions(s)
  BY <1>1, <1>2, SamePositions
<1> QED
  BY <1>3, <1>4, SameView

-----------------------------------------------------------------------------
(* Editing a cell                                                          *)

\* A session with another source and other results, its view built anew.
Edited(s, source, marks) == Rebuild([s EXCEPT !.source = source, !.marks = marks])

LEMMA EditedIs ==
  ASSUME NEW s, WellFormed(s), NEW source \in Seq(Seq(Texts)), DOMAIN source = DOMAIN s.source,
         NEW marks, NEW t, t = Edited(s, source, marks)
  PROVE  /\ WellFormed(t) /\ t.view = Build(t)
         /\ t.id = s.id /\ t.revision = s.revision /\ t.exported = s.exported
         /\ t.source = source /\ t.marks = marks
         /\ t.owners = s.owners /\ t.selected = s.selected
<1> DEFINE u == [s EXCEPT !.source = source, !.marks = marks]
<1>1. s = [id |-> s.id, revision |-> s.revision, exported |-> s.exported, source |-> s.source,
           owners |-> s.owners, selected |-> s.selected, marks |-> s.marks, view |-> s.view]
  BY DEF WellFormed
<1>2. u = [id |-> s.id, revision |-> s.revision, exported |-> s.exported, source |-> source,
           owners |-> s.owners, selected |-> s.selected, marks |-> marks, view |-> s.view]
  <2>1. PICK a, b, c, e, f, g, h, i :
          s = [id |-> a, revision |-> b, exported |-> c, source |-> e,
               owners |-> f, selected |-> g, marks |-> h, view |-> i]
    BY <1>1
  <2>2. /\ s.id = a /\ s.revision = b /\ s.exported = c /\ s.owners = f
        /\ s.selected = g /\ s.view = i
    BY <2>1
  <2>3. [s EXCEPT !.source = source] =
          [id |-> a, revision |-> b, exported |-> c, source |-> source,
           owners |-> f, selected |-> g, marks |-> h, view |-> i]
    BY <2>1
  <2>4. u = [[s EXCEPT !.source = source] EXCEPT !.marks = marks]
    BY <2>1
  <2>5. u = [id |-> a, revision |-> b, exported |-> c, source |-> source,
             owners |-> f, selected |-> g, marks |-> marks, view |-> i]
    <3> HIDE DEF u
    <3> QED
      BY <2>3, <2>4
  <2> QED
    BY <2>2, <2>5
<1>3. t = [u EXCEPT !.view = Build(u)]
  BY DEF Edited, Rebuild
<1> HIDE DEF u
<1>4. WellFormed(u)
  BY <1>2 DEF WellFormed
<1>5. t = [id |-> s.id, revision |-> s.revision, exported |-> s.exported, source |-> source,
           owners |-> s.owners, selected |-> s.selected, marks |-> marks, view |-> Build(u)]
  BY <1>2, <1>3
<1>6. WellFormed(t)
  BY <1>5 DEF WellFormed
<1>7. /\ t.source = u.source /\ t.owners = u.owners /\ t.selected = u.selected /\ t.marks = u.marks
      /\ t.view = Build(u)
  BY <1>2, <1>5
<1>8. Build(t) = Build(u)
  BY <1>4, <1>6, <1>7, BuildFrame
<1> QED
  BY <1>5, <1>6, <1>7, <1>8

Written(rows, r, c, text) == [rows EXCEPT ![r][c] = text]

\* The rows differ from the rows before in one cell, which holds the text.
OnlyCell(after, rows, r, c, text) ==
  /\ after \in Seq(Seq(Texts)) /\ DOMAIN after = DOMAIN rows
  /\ Cell(after, r, c) = text
  /\ \A q \in DOMAIN rows : \A e \in Nat \ {0} :
       q # r \/ e # c => Cell(after, q, e) = Cell(rows, q, e)

LEMMA WrittenCell ==
  ASSUME NEW rows \in Seq(Seq(Texts)), NEW r \in DOMAIN rows, NEW c \in DOMAIN rows[r],
         NEW text \in Texts, NEW after, after = Written(rows, r, c, text)
  PROVE  OnlyCell(after, rows, r, c, text)
<1>1. rows[r] \in Seq(Texts)
  OBVIOUS
<1> DEFINE row == [rows[r] EXCEPT ![c] = text]
<1>2. row \in Seq(Texts) /\ Len(row) = Len(rows[r]) /\ c <= Len(row) /\ row[c] = text
  BY <1>1
<1>3. \A e \in DOMAIN rows[r] : e # c => row[e] = rows[r][e]
  BY <1>1
<1>4. after = [rows EXCEPT ![r] = row]
  BY DEF Written
<1> HIDE DEF row
<1>5. /\ after \in Seq(Seq(Texts)) /\ DOMAIN after = DOMAIN rows /\ after[r] = row
      /\ \A q \in DOMAIN rows : q # r => after[q] = rows[q]
  BY <1>2, <1>4
<1>6. Cell(after, r, c) = text
  BY <1>2, <1>5 DEF Cell
<1>7. ASSUME NEW q \in DOMAIN rows, NEW e \in Nat \ {0}, q # r \/ e # c
      PROVE  Cell(after, q, e) = Cell(rows, q, e)
  <2>1. ASSUME q = r
        PROVE  Cell(after, q, e) = Cell(rows, q, e)
    <3>1. e <= Len(rows[r]) => e \in DOMAIN rows[r]
      BY <1>1
    <3> QED
      BY <1>2, <1>3, <1>5, <1>7, <2>1, <3>1 DEF Cell
  <2>2. ASSUME q # r
        PROVE  Cell(after, q, e) = Cell(rows, q, e)
    BY <1>5, <2>2 DEF Cell
  <2> QED
    BY <2>1, <2>2
<1> QED
  BY <1>5, <1>6, <1>7 DEF OnlyCell

LEMMA WidenIs ==
  ASSUME NEW rows \in Seq(Seq(Texts)), NEW r \in DOMAIN rows, NEW c \in Nat \ {0},
         NEW after, after = Widen(rows, r, c)
  PROVE  /\ after \in Seq(Seq(Texts)) /\ DOMAIN after = DOMAIN rows
         /\ c \in DOMAIN after[r]
         /\ \A q \in DOMAIN rows : DOMAIN rows[q] \in SUBSET DOMAIN after[q]
         /\ \A q \in DOMAIN rows : \A e \in Nat \ {0} : Cell(after, q, e) = Cell(rows, q, e)
<1> DEFINE n == IF Len(rows[r]) < c THEN c - Len(rows[r]) ELSE 0
           blanks == [i \in 1..n |-> Empty]
           row == rows[r] \o blanks
<1>1. rows[r] \in Seq(Texts) /\ n \in Nat /\ Len(rows[r]) \in Nat
      /\ DOMAIN rows[r] = 1..Len(rows[r])
  OBVIOUS
<1>2. Empty \in Texts
  BY EmptyHasNone
<1>3. blanks \in Seq(Texts) /\ Len(blanks) = n /\ \A i \in 1..n : blanks[i] = Empty
  <2> HIDE DEF n
  <2>1. \A i \in 1..n : blanks[i] = Empty
    OBVIOUS
  <2>2. blanks = [i \in 1..n |-> blanks[i]]
    OBVIOUS
  <2> HIDE DEF blanks
  <2>3. blanks \in [1..n -> Texts]
    BY <1>2, <2>1, <2>2
  <2>4. blanks \in Seq(Texts)
    BY <1>1, <2>3
  <2> QED
    BY <1>1, <2>1, <2>3, <2>4
<1>4. after = [rows EXCEPT ![r] = row]
  BY DEF Widen
<1>5. c <= Len(rows[r]) + n /\ (n > 0 => c = Len(rows[r]) + n)
  BY <1>1
<1> HIDE DEF n, blanks
<1>6. /\ row \in Seq(Texts) /\ Len(row) = Len(rows[r]) + n
      /\ \A e \in 1..Len(rows[r]) : row[e] = rows[r][e]
      /\ \A i \in 1..n : row[Len(rows[r]) + i] = Empty
  BY <1>1, <1>3
<1> HIDE DEF row
<1>7. /\ after \in Seq(Seq(Texts)) /\ DOMAIN after = DOMAIN rows /\ after[r] = row
      /\ \A q \in DOMAIN rows : q # r => after[q] = rows[q]
  BY <1>4, <1>6
<1>8. DOMAIN row = 1..(Len(rows[r]) + n)
  BY <1>6
<1>9. c \in DOMAIN after[r] /\ DOMAIN rows[r] \in SUBSET DOMAIN after[r]
  BY <1>1, <1>5, <1>7, <1>8
<1>10. ASSUME NEW e \in Nat \ {0}
       PROVE  Cell(after, r, e) = Cell(rows, r, e)
  <2>1. ASSUME e <= Len(rows[r])
        PROVE  Cell(after, r, e) = Cell(rows, r, e)
    <3>1. e \in 1..Len(rows[r]) /\ e <= Len(row)
      BY <1>1, <1>6, <2>1
    <3> QED
      BY <1>6, <1>7, <2>1, <3>1 DEF Cell
  <2>2. ASSUME ~(e <= Len(rows[r]))
        PROVE  Cell(after, r, e) = Cell(rows, r, e)
    <3>1. Cell(rows, r, e) = Empty
      BY <2>2 DEF Cell
    <3>2. ASSUME e <= Len(row)
          PROVE  row[e] = Empty
      <4>1. e - Len(rows[r]) \in 1..n /\ Len(rows[r]) + (e - Len(rows[r])) = e
        BY <1>1, <1>6, <2>2, <3>2
      <4> QED
        BY <1>6, <4>1
    <3> QED
      BY <1>7, <3>1, <3>2 DEF Cell
  <2> QED
    BY <2>1, <2>2
<1>11. \A q \in DOMAIN rows : q # r =>
          DOMAIN rows[q] \in SUBSET DOMAIN after[q] /\ \A e : Cell(after, q, e) = Cell(rows, q, e)
  BY <1>7 DEF Cell
<1> QED
  BY <1>7, <1>9, <1>10, <1>11

ResultIds(rows, columns) == rows \X columns \X (Nat \ {0})

\* A result is marked on a segment of a play cell.
Marked(s) ==
  /\ s.marks \in [DOMAIN s.marks -> {"pass", "fail"}]
  /\ DOMAIN s.marks \in SUBSET ResultIds(DOMAIN s.source, s.selected.plays)

\* Session t is session s with other texts, and some results less.
Follows(s, t) ==
  /\ WellFormed(t) /\ Marked(t) /\ t.view = Build(t)
  /\ t.id = s.id /\ t.revision = s.revision /\ t.exported = s.exported
  /\ DOMAIN t.source = DOMAIN s.source /\ t.owners = s.owners /\ t.selected = s.selected
  /\ DOMAIN t.marks \in SUBSET DOMAIN s.marks
  /\ \A id \in DOMAIN t.marks : t.marks[id] = s.marks[id]

LEMMA EditedFollows ==
  ASSUME NEW s, WellFormed(s), Marked(s), NEW source \in Seq(Seq(Texts)),
         DOMAIN source = DOMAIN s.source, NEW kept, kept \in SUBSET DOMAIN s.marks,
         NEW t, t = Edited(s, source, Restrict(s.marks, kept))
  PROVE  Follows(s, t)
<1> DEFINE marks == Restrict(s.marks, kept)
<1>1. /\ WellFormed(t) /\ t.view = Build(t)
      /\ t.id = s.id /\ t.revision = s.revision /\ t.exported = s.exported
      /\ t.source = source /\ t.marks = marks
      /\ t.owners = s.owners /\ t.selected = s.selected
  BY EditedIs
<1>2. DOMAIN marks = kept /\ marks = [id \in kept |-> marks[id]]
      /\ \A id \in kept : marks[id] = s.marks[id]
  BY DEF Restrict
<1> HIDE DEF marks
<1>3. Marked(t)
  <2>1. marks \in [kept -> {"pass", "fail"}]
    BY <1>2 DEF Marked
  <2>2. ResultIds(DOMAIN t.source, t.selected.plays) = ResultIds(DOMAIN s.source, s.selected.plays)
    BY <1>1
  <2>3. DOMAIN s.marks \in SUBSET ResultIds(DOMAIN s.source, s.selected.plays)
    BY DEF Marked
  <2>4. DOMAIN t.marks \in SUBSET ResultIds(DOMAIN t.source, t.selected.plays)
    BY <1>1, <1>2, <2>2, <2>3
  <2>5. t.marks \in [DOMAIN t.marks -> {"pass", "fail"}]
    BY <1>1, <1>2, <2>1
  <2> QED
    BY <2>4, <2>5 DEF Marked
<1> QED
  BY <1>1, <1>2, <1>3 DEF Follows

\* A session with another source and some of its results, its view not built yet.
Trimmed(s, source, kept) == [s EXCEPT !.source = source, !.marks = Restrict(s.marks, kept)]

LEMMA EraseIs ==
  ASSUME NEW s, WellFormed(s), NEW source, NEW kept, NEW ids,
         NEW u, u = Trimmed(s, source, kept)
  PROVE  /\ u.marks = Restrict(s.marks, kept)
         /\ EraseMarks(u, ids) = Trimmed(s, source, kept \ ids)
<1> DEFINE before == Restrict(s.marks, kept)  after == Restrict(s.marks, kept \ ids)
<1>1. Restrict(before, DOMAIN before \ ids) = after
  BY DEF Restrict
<1>2. DOMAIN s = {"id", "revision", "exported", "source", "owners", "selected", "marks", "view"}
  BY DEF WellFormed
<1> HIDE DEF before, after
<1>3. u = [s EXCEPT !.source = source, !.marks = before]
  BY DEF before, Trimmed
<1>4. u.marks = before
  BY <1>2, <1>3
<1>5. EraseMarks(u, ids) = [u EXCEPT !.marks = after]
  BY <1>1, <1>4 DEF EraseMarks
<1>6. [u EXCEPT !.marks = after] = [s EXCEPT !.source = source, !.marks = after]
  BY <1>2, <1>3
<1> QED
  BY <1>4, <1>5, <1>6 DEF before, after, Trimmed

RowKept(s, t, q) ==
  Reference(t, q) = Reference(s, q)
  /\ \A e \in s.selected.plays : SegmentsOf(t, q, e) = SegmentsOf(s, q, e)
SameCounts(s, t) ==
  \A q \in DOMAIN s.source : \A e \in s.selected.plays :
    Len(SegmentsOf(t, q, e)) = Len(SegmentsOf(s, q, e))
BlankIn(s, t) == \A q \in DOMAIN s.source : IsBlank(Reference(t, q)) => IsBlank(Reference(s, q))

\* The text and the reference that a result is marked for are still there.
Outlasts(s, t, id) ==
  /\ Reference(t, id[1]) = Reference(s, id[1])
  /\ id[3] <= Len(SegmentsOf(s, id[1], id[2])) =>
       /\ id[3] <= Len(SegmentsOf(t, id[1], id[2]))
       /\ SegmentsOf(t, id[1], id[2])[id[3]] = SegmentsOf(s, id[1], id[2])[id[3]]

\* What an edit leaves alone of the session it is made in.
Sound(s, edit) ==
  /\ Follows(s, edit.session)
  /\ \A id \in DOMAIN s.marks : id[1] \notin edit.raws => id \in DOMAIN edit.session.marks
  /\ \A q \in DOMAIN s.source : q \notin edit.raws => RowKept(s, edit.session, q)
  /\ ~edit.reshaped => SameCounts(s, edit.session)
  /\ \A id \in DOMAIN edit.session.marks : Outlasts(s, edit.session, id)
  /\ BlankIn(s, edit.session) \/ BlankIn(edit.session, s)

LEMMA ReferenceFollows ==
  ASSUME NEW s, WellFormed(s), NEW t, Follows(s, t), NEW q \in DOMAIN s.source,
         s.selected.reference # NoColumn =>
           Cell(t.source, s.owners[q], s.selected.reference)
             = Cell(s.source, s.owners[q], s.selected.reference)
  PROVE  Reference(t, q) = Reference(s, q)
BY DEF Reference, Follows

LEMMA EditPlayIs ==
  ASSUME NEW s, WellFormed(s), Marked(s), s.view = Build(s), NEW d \in DOMAIN s.view,
         NEW c \in s.selected.plays, s.view[d].segment[c] # NoSegment, NEW value \in Texts,
         NEW r, r = At(s, d)[1], NEW k, k = At(s, d)[2],
         NEW segments, segments = SegmentsOf(s, r, c),
         NEW text, text = JoinSegments(segments, k, value),
         NEW after, after = SplitDisplaySegments(text),
         NEW edit, edit = EditPlay(s, d, c, value)
  PROVE  /\ r \in DOMAIN s.source /\ c \in DOMAIN s.source[r]
         /\ segments \in Segments /\ k \in 1..Len(segments)
         /\ edit.raws = {r} /\ edit.reshaped = (Len(after) # Len(segments))
         /\ \E kept \in SUBSET DOMAIN s.marks :
              /\ edit.session = Edited(s, Written(s.source, r, c, text), Restrict(s.marks, kept))
              /\ \A id \in DOMAIN s.marks : ~(id[1] = r /\ id[2] = c) => id \in kept
              /\ \A id \in kept : id[1] = r /\ id[2] = c =>
                   /\ Len(after) # Len(segments) => ~(id[3] >= k)
                   /\ <<segments[k]>> # value => id # <<r, c, k>>
<1>1. /\ d \in DOMAIN Build(s) /\ r \in DOMAIN s.source /\ k \in Nat \ {0}
      /\ s.view[d] = DisplayRow(s, r, k)
  BY ViewRow
<1>2. s.view[d].raw = r /\ s.view[d].segment = SegmentRow(s, r, k)
  BY <1>1, RowFields
<1>3. s.view[d].segment[c] = k /\ k <= Len(segments)
  BY <1>2 DEF SegmentRow
<1>4. segments \in Segments /\ Len(segments) \in Nat /\ k \in 1..Len(segments)
  BY <1>1, <1>3, SegmentsOfAreSegments
<1>5. s.source[r] \in Seq(Texts) /\ c \in Nat \ {0}
  BY <1>1 DEF WellFormed, NoColumn
<1>6. c <= Len(s.source[r])
  <2>1. ASSUME ~(c <= Len(s.source[r]))
        PROVE  FALSE
    <3>1. Cell(s.source, r, c) = Empty
      BY <2>1 DEF Cell
    <3>2. segments = <<>>
      BY <3>1, EmptyHasNone DEF SegmentsOf
    <3> QED
      BY <1>4, <3>2
  <2> QED
    BY <2>1
<1>7. c \in DOMAIN s.source[r] /\ SplitDisplaySegments(s.source[r][c]) = segments
  BY <1>5, <1>6 DEF SegmentsOf, Cell
<1> DEFINE source == Written(s.source, r, c, text)
           written == [s EXCEPT !.source[r][c] = text]
           changed == <<segments[k]>> # value
           reshaped == Len(after) # Len(segments)
           marked == IF changed THEN InvalidateResultSegment(written, r, c, k) ELSE written
           final == IF reshaped THEN InvalidateResultsFromSegment(marked, r, c, k) ELSE marked
           kept1 == IF changed THEN DOMAIN s.marks \ {<<r, c, k>>} ELSE DOMAIN s.marks
           kept2 == IF reshaped THEN {id \in kept1 : ~(id[1] = r /\ id[2] = c /\ id[3] >= k)} ELSE kept1
<1>8. edit = [session |-> Rebuild(final), raws |-> {r}, reshaped |-> reshaped]
  BY <1>2, <1>3, <1>7 DEF EditPlay
<1>9. written = Trimmed(s, source, DOMAIN s.marks)
  <2>1. Restrict(s.marks, DOMAIN s.marks) = s.marks
    BY DEF Restrict, Marked
  <2>2. written = [s EXCEPT !.source = source]
    BY DEF Written
  <2> HIDE DEF source, written
  <2>3. DOMAIN s = {"id", "revision", "exported", "source", "owners", "selected", "marks", "view"}
    BY DEF WellFormed
  <2>4. [s EXCEPT !.source = source] = [s EXCEPT !.source = source, !.marks = s.marks]
    BY <2>3
  <2> QED
    BY <2>1, <2>2, <2>4 DEF Trimmed
<1> HIDE DEF written, source
<1>10. marked = Trimmed(s, source, kept1)
  <2>1. InvalidateResultSegment(written, r, c, k) = EraseMarks(written, {<<r, c, k>>})
    BY DEF InvalidateResultSegment
  <2>2. EraseMarks(written, {<<r, c, k>>}) = Trimmed(s, source, DOMAIN s.marks \ {<<r, c, k>>})
    BY <1>9, EraseIs
  <2> QED
    BY <1>9, <2>1, <2>2
<1> HIDE DEF marked
<1>11. final = Trimmed(s, source, kept2)
  <2> DEFINE ids == {id \in DOMAIN marked.marks : id[1] = r /\ id[2] = c /\ id[3] >= k}
  <2>1. InvalidateResultsFromSegment(marked, r, c, k) = EraseMarks(marked, ids)
    BY DEF InvalidateResultsFromSegment
  <2>2. EraseMarks(marked, ids) = Trimmed(s, source, kept1 \ ids) /\ marked.marks = Restrict(s.marks, kept1)
    <3> HIDE DEF ids, kept1
    <3> QED
      BY <1>10, EraseIs
  <2>3. DOMAIN marked.marks = kept1
    BY <2>2 DEF Restrict
  <2>4. kept1 \ ids = {id \in kept1 : ~(id[1] = r /\ id[2] = c /\ id[3] >= k)}
    BY <2>3
  <2> HIDE DEF ids
  <2> QED
    BY <1>10, <2>1, <2>2, <2>4
<1> HIDE DEF final
<1>12. kept2 \in SUBSET DOMAIN s.marks
  OBVIOUS
<1>13. \A id \in DOMAIN s.marks : ~(id[1] = r /\ id[2] = c) => id \in kept2
  OBVIOUS
<1>14. \A id \in kept2 : id[1] = r /\ id[2] = c =>
          /\ reshaped => ~(id[3] >= k)
          /\ changed => id # <<r, c, k>>
  OBVIOUS
<1>15. edit.session = Edited(s, source, Restrict(s.marks, kept2))
  <2>1. edit.session = Rebuild(final)
    BY <1>8
  <2> HIDE DEF kept2
  <2> QED
    BY <1>11, <2>1 DEF Edited, Trimmed
<1>16. edit.raws = {r} /\ edit.reshaped = reshaped
  <2> HIDE DEF reshaped
  <2> QED
    BY <1>8
<1> HIDE DEF kept2
<1> QED
  BY <1>1, <1>4, <1>7, <1>12, <1>13, <1>14, <1>15, <1>16 DEF source

LEMMA EditPlaySound ==
  ASSUME NEW s, WellFormed(s), Marked(s), s.view = Build(s), NEW d \in DOMAIN s.view,
         NEW c \in s.selected.plays, s.view[d].segment[c] # NoSegment, NEW value \in Texts,
         NEW edit, edit = EditPlay(s, d, c, value)
  PROVE  Sound(s, edit)
<1>0. PICK r, k, segments, text, after, source, t :
        /\ r = At(s, d)[1] /\ k = At(s, d)[2] /\ segments = SegmentsOf(s, r, c)
        /\ text = JoinSegments(segments, k, value) /\ after = SplitDisplaySegments(text)
        /\ source = Written(s.source, r, c, text) /\ t = edit.session
  OBVIOUS
<1> DEFINE reshaped == Len(after) # Len(segments)
           changed == <<segments[k]>> # value
<1>1. /\ r \in DOMAIN s.source /\ c \in DOMAIN s.source[r]
      /\ segments \in Segments /\ k \in 1..Len(segments)
      /\ edit.raws = {r} /\ edit.reshaped = reshaped
  BY <1>0, EditPlayIs
<1>2. PICK kept \in SUBSET DOMAIN s.marks :
        /\ t = Edited(s, source, Restrict(s.marks, kept))
        /\ \A id \in DOMAIN s.marks : ~(id[1] = r /\ id[2] = c) => id \in kept
        /\ \A id \in kept : id[1] = r /\ id[2] = c =>
             /\ reshaped => ~(id[3] >= k)
             /\ changed => id # <<r, c, k>>
  BY <1>0, EditPlayIs
<1>3. /\ text \in Texts
      /\ \A j \in 1..(k - 1) : j <= Len(after) /\ after[j] = segments[j]
      /\ Len(after) = Len(segments) => \A j \in (k + 1)..Len(segments) : after[j] = segments[j]
      /\ value = <<segments[k]>> => after = segments
  BY <1>0, <1>1, SplitOfJoin
<1>4. /\ source \in Seq(Seq(Texts)) /\ DOMAIN source = DOMAIN s.source
      /\ Cell(source, r, c) = text
      /\ \A q \in DOMAIN s.source : \A e \in Nat \ {0} :
           q # r \/ e # c => Cell(source, q, e) = Cell(s.source, q, e)
  <2>1. s.source \in Seq(Seq(Texts))
    BY DEF WellFormed
  <2>2. source = Written(s.source, r, c, text)
    BY <1>0
  <2>3. OnlyCell(source, s.source, r, c, text)
    BY <1>1, <1>3, <2>1, <2>2, WrittenCell
  <2> QED
    BY <2>3 DEF OnlyCell
<1>5. Follows(s, t) /\ t.source = source /\ DOMAIN t.marks = kept
  <2>1. t = Edited(s, source, Restrict(s.marks, kept)) /\ kept \in SUBSET DOMAIN s.marks
    BY <1>2
  <2>2. source \in Seq(Seq(Texts)) /\ DOMAIN source = DOMAIN s.source
    BY <1>4
  <2>3. Follows(s, t)
    BY <2>1, <2>2, EditedFollows
  <2>4. t.source = source /\ t.marks = Restrict(s.marks, kept)
    BY <2>1, <2>2, EditedIs
  <2> QED
    BY <2>3, <2>4 DEF Restrict
<1>6. \A e \in s.selected.plays : e \in Nat \ {0}
  BY DEF WellFormed, NoColumn
<1>7. SegmentsOf(t, r, c) = after
  BY <1>0, <1>4, <1>5 DEF SegmentsOf
<1>8. \A q \in DOMAIN s.source : \A e \in s.selected.plays :
        q # r \/ e # c => SegmentsOf(t, q, e) = SegmentsOf(s, q, e)
  BY <1>4, <1>5, <1>6 DEF SegmentsOf
<1>9. ASSUME NEW q \in DOMAIN s.source
      PROVE  Reference(t, q) = Reference(s, q)
  <2>1. s.owners[q] \in DOMAIN s.source
    BY DEF WellFormed
  <2>2. s.selected.reference # NoColumn =>
          s.selected.reference \in Nat \ {0} /\ s.selected.reference # c
    BY DEF WellFormed, NoColumn
  <2> QED
    BY <1>4, <1>5, <2>1, <2>2, ReferenceFollows
<1>10. \A q \in DOMAIN s.source : q \notin edit.raws => RowKept(s, t, q)
  BY <1>1, <1>8, <1>9 DEF RowKept
<1>11. ~edit.reshaped => SameCounts(s, t)
  <2>1. ~edit.reshaped => Len(after) = Len(segments)
    BY <1>1
  <2> QED
    BY <1>0, <1>7, <1>8, <2>1 DEF SameCounts
<1>12. ASSUME NEW id \in DOMAIN t.marks
       PROVE  Outlasts(s, t, id)
  <2>1. id \in ResultIds(DOMAIN s.source, s.selected.plays) /\ id \in kept
    BY <1>5 DEF Marked
  <2>2. /\ id[1] \in DOMAIN s.source /\ id[2] \in s.selected.plays /\ id[3] \in Nat \ {0}
        /\ id = <<id[1], id[2], id[3]>>
    BY <2>1 DEF ResultIds
  <2>3. ASSUME id[1] = r, id[2] = c, id[3] <= Len(segments)
        PROVE  id[3] <= Len(after) /\ after[id[3]] = segments[id[3]]
    <3>1. Len(segments) \in Nat
      BY <1>1
    <3>2. ASSUME id[3] < k
          PROVE  id[3] <= Len(after) /\ after[id[3]] = segments[id[3]]
      BY <1>1, <1>3, <2>2, <3>1, <3>2
    <3>3. ASSUME ~(id[3] < k)
          PROVE  id[3] <= Len(after) /\ after[id[3]] = segments[id[3]]
      <4>1. Len(after) = Len(segments)
        BY <1>1, <1>2, <2>1, <2>2, <2>3, <3>1, <3>3
      <4>2. ASSUME id[3] = k
            PROVE  after = segments
        <5>1. value = <<segments[k]>>
          BY <1>2, <2>1, <2>2, <2>3, <4>2
        <5> QED
          BY <1>3, <5>1
      <4>3. ASSUME id[3] # k
            PROVE  after[id[3]] = segments[id[3]]
        <5>1. id[3] \in (k + 1)..Len(segments)
          BY <1>1, <2>2, <2>3, <3>1, <3>3, <4>3
        <5> QED
          BY <1>3, <4>1, <5>1
      <4> QED
        BY <2>3, <4>1, <4>2, <4>3
    <3> QED
      BY <3>2, <3>3
  <2>4. ASSUME id[1] = r, id[2] = c, id[3] <= Len(SegmentsOf(s, id[1], id[2]))
        PROVE  /\ id[3] <= Len(SegmentsOf(t, id[1], id[2]))
               /\ SegmentsOf(t, id[1], id[2])[id[3]] = SegmentsOf(s, id[1], id[2])[id[3]]
    <3>1. SegmentsOf(s, id[1], id[2]) = segments /\ SegmentsOf(t, id[1], id[2]) = after
      BY <1>0, <1>7, <2>4
    <3> QED
      BY <2>3, <2>4, <3>1
  <2>5. ~(id[1] = r /\ id[2] = c) => SegmentsOf(t, id[1], id[2]) = SegmentsOf(s, id[1], id[2])
    BY <1>8, <2>2
  <2> QED
    BY <1>9, <2>2, <2>4, <2>5 DEF Outlasts
<1>13. BlankIn(s, t)
  BY <1>9 DEF BlankIn
<1>14. \A id \in DOMAIN s.marks : id[1] \notin edit.raws => id \in DOMAIN t.marks
  BY <1>1, <1>2, <1>5
<1> QED
  BY <1>0, <1>5, <1>10, <1>11, <1>12, <1>13, <1>14 DEF Sound

LEMMA TrimmedNone ==
  ASSUME NEW s, WellFormed(s), Marked(s), NEW source
  PROVE  Trimmed(s, source, DOMAIN s.marks) = [s EXCEPT !.source = source]
<1>1. Restrict(s.marks, DOMAIN s.marks) = s.marks
  BY DEF Restrict, Marked
<1>2. DOMAIN s = {"id", "revision", "exported", "source", "owners", "selected", "marks", "view"}
  BY DEF WellFormed
<1>3. [s EXCEPT !.source = source] = [s EXCEPT !.source = source, !.marks = s.marks]
  BY <1>2
<1> QED
  BY <1>1, <1>3 DEF Trimmed

\* Cell (owner, c) has the value, every other one the text it had.
Rewritten(rows, owner, c, value, wide, after) ==
  /\ wide[owner][c] = Cell(rows, owner, c)
  /\ after \in Seq(Seq(Texts)) /\ DOMAIN after = DOMAIN rows
  /\ Cell(after, owner, c) = value
  /\ \A q \in DOMAIN rows : \A e \in Nat \ {0} :
       q # owner \/ e # c => Cell(after, q, e) = Cell(rows, q, e)

LEMMA RewrittenCell ==
  ASSUME NEW rows \in Seq(Seq(Texts)), NEW r \in DOMAIN rows, NEW owner \in DOMAIN rows,
         NEW c \in Nat \ {0}, NEW value \in Texts,
         NEW wide, wide = Widen(Widen(rows, r, c), owner, c),
         NEW after, after = Written(wide, owner, c, value)
  PROVE  Rewritten(rows, owner, c, value, wide, after)
<1>1. PICK first : first = Widen(rows, r, c)
  OBVIOUS
<1>2. /\ first \in Seq(Seq(Texts)) /\ DOMAIN first = DOMAIN rows
      /\ \A q \in DOMAIN rows : \A e \in Nat \ {0} : Cell(first, q, e) = Cell(rows, q, e)
  BY <1>1, WidenIs
<1>3. wide = Widen(first, owner, c)
  BY <1>1
<1>4. /\ wide \in Seq(Seq(Texts)) /\ DOMAIN wide = DOMAIN first
      /\ c \in DOMAIN wide[owner]
      /\ \A q \in DOMAIN first : \A e \in Nat \ {0} : Cell(wide, q, e) = Cell(first, q, e)
  BY <1>2, <1>3, WidenIs
<1>5. wide[owner][c] = Cell(rows, owner, c)
  <2>1. wide[owner] \in Seq(Texts)
    BY <1>2, <1>4
  <2>2. c <= Len(wide[owner])
    BY <1>4, <2>1
  <2>3. Cell(wide, owner, c) = Cell(rows, owner, c)
    BY <1>2, <1>4
  <2> QED
    BY <2>2, <2>3 DEF Cell
<1>6. /\ after \in Seq(Seq(Texts)) /\ DOMAIN after = DOMAIN wide
      /\ Cell(after, owner, c) = value
      /\ \A q \in DOMAIN wide : \A e \in Nat \ {0} :
           q # owner \/ e # c => Cell(after, q, e) = Cell(wide, q, e)
  <2>1. after = Written(wide, owner, c, value)
    BY <1>1
  <2>2. OnlyCell(after, wide, owner, c, value)
    BY <1>2, <1>4, <2>1, WrittenCell
  <2> QED
    BY <2>2 DEF OnlyCell
<1> QED
  BY <1>2, <1>4, <1>5, <1>6 DEF Rewritten

\* The rows that show the reference of a row, and the results of all the others.
Mates(s, owner) == {q \in DOMAIN s.owners : s.owners[q] = owner}
Others(s, owner) == {id \in DOMAIN s.marks : s.owners[id[1]] # owner}

LEMMA EditReferenceIs ==
  ASSUME NEW s, WellFormed(s), Marked(s), s.view = Build(s), NEW d \in DOMAIN s.view,
         NEW c, c = s.selected.reference, c # NoColumn, NEW value \in Texts,
         NEW r, r = At(s, d)[1], NEW owner, owner = s.owners[r],
         NEW wide, wide = Widen(Widen(s.source, r, c), owner, c),
         NEW source, source = Written(wide, owner, c, value),
         NEW edit, edit = EditReference(s, d, value)
  PROVE  /\ r \in DOMAIN s.source /\ owner \in DOMAIN s.source
         /\ ~edit.reshaped
         /\ \/ /\ edit.raws = Mates(s, owner)
               /\ edit.session = Edited(s, source, Restrict(s.marks, Others(s, owner)))
            \/ /\ edit.raws = {r} /\ Cell(s.source, owner, c) = value
               /\ edit.session = Edited(s, source, Restrict(s.marks, DOMAIN s.marks))
<1>1. /\ d \in DOMAIN Build(s) /\ r \in DOMAIN s.source
      /\ s.view[d] = DisplayRow(s, r, At(s, d)[2])
  BY ViewRow
<1>2. s.view[d].raw = r
  BY <1>1, RowFields
<1>3. owner \in DOMAIN s.source /\ s.source \in Seq(Seq(Texts)) /\ c \in Nat \ {0}
  BY <1>1 DEF WellFormed, NoColumn
<1>4. /\ wide[owner][c] = Cell(s.source, owner, c)
      /\ source \in Seq(Seq(Texts)) /\ DOMAIN source = DOMAIN s.source
      /\ Cell(source, owner, c) = value
      /\ \A q \in DOMAIN s.source : \A e \in Nat \ {0} :
           q # owner \/ e # c => Cell(source, q, e) = Cell(s.source, q, e)
  <2>1. Rewritten(s.source, owner, c, value, wide, source)
    BY <1>1, <1>3, RewrittenCell
  <2> QED
    BY <2>1 DEF Rewritten
<1> DEFINE wider == [s EXCEPT !.source = Widen(Widen(@, r, c), owner, c)]
           written == [wider EXCEPT !.source[owner][c] = value]
           shown == [i \in DOMAIN s.view |->
                       IF s.view[i].raw = r THEN [s.view[i] EXCEPT !.reference = value] ELSE s.view[i]]
           inPlace == [written EXCEPT !.view =
                         [i \in DOMAIN @ |-> IF @[i].raw = r THEN [@[i] EXCEPT !.reference = value]
                                                             ELSE @[i]]]
<1>5. edit = IF wider.source[owner][c] # value
             THEN [session |-> Rebuild(InvalidateResultsForOwner(written, owner)),
                   raws |-> {q \in DOMAIN s.owners : s.owners[q] = owner}, reshaped |-> FALSE]
             ELSE [session |-> inPlace, raws |-> {r}, reshaped |-> FALSE]
  BY <1>2 DEF EditReference
<1>6. DOMAIN s = {"id", "revision", "exported", "source", "owners", "selected", "marks", "view"}
  BY DEF WellFormed
<1>7. wider = [s EXCEPT !.source = wide] /\ wider.source = wide
  BY <1>6
<1>8. written = [s EXCEPT !.source = source]
  <2>1. written = [wider EXCEPT !.source = source]
    <3> HIDE DEF wider
    <3> QED
      BY <1>7 DEF Written
  <2> HIDE DEF written
  <2> QED
    BY <1>6, <1>7, <2>1
<1>9. inPlace = [written EXCEPT !.view = shown]
  <2>1. written.view = s.view
    <3> HIDE DEF written
    <3> QED
      BY <1>6, <1>8
  <2> HIDE DEF written
  <2> QED
    BY <2>1
<1> HIDE DEF wider, written, inPlace
<1>10. ASSUME wider.source[owner][c] # value
       PROVE  /\ edit.raws = Mates(s, owner) /\ ~edit.reshaped
              /\ edit.session = Edited(s, source, Restrict(s.marks, Others(s, owner)))
  <2> DEFINE ids == {id \in DOMAIN s.marks : s.owners[id[1]] = owner}
             kept == Others(s, owner)
  <2>1. written.marks = s.marks /\ written.owners = s.owners
    BY <1>6, <1>8
  <2>2. InvalidateResultsForOwner(written, owner) = EraseMarks(written, ids)
    BY <2>1 DEF InvalidateResultsForOwner
  <2>3. DOMAIN s.marks \ ids = kept
    BY DEF Others
  <2> HIDE DEF ids, kept
  <2>4. written = Trimmed(s, source, DOMAIN s.marks)
    BY <1>8, TrimmedNone
  <2>5. EraseMarks(written, ids) = Trimmed(s, source, kept)
    BY <2>3, <2>4, EraseIs
  <2>6. edit = [session |-> Rebuild(Trimmed(s, source, kept)),
                raws |-> {q \in DOMAIN s.owners : s.owners[q] = owner}, reshaped |-> FALSE]
    BY <1>5, <1>10, <2>2, <2>5
  <2>7. Rebuild(Trimmed(s, source, kept)) = Edited(s, source, Restrict(s.marks, kept))
    BY DEF Edited, Trimmed
  <2>8. edit.session = Edited(s, source, Restrict(s.marks, kept))
    BY <2>6, <2>7
  <2> QED
    BY <2>6, <2>8 DEF kept, Mates
<1>11. ASSUME ~(wider.source[owner][c] # value)
       PROVE  /\ edit.raws = {r} /\ ~edit.reshaped /\ Cell(s.source, owner, c) = value
              /\ edit.session = Edited(s, source, Restrict(s.marks, DOMAIN s.marks))
  <2> DEFINE u == Trimmed(s, source, DOMAIN s.marks)
             t == Edited(s, source, Restrict(s.marks, DOMAIN s.marks))
  <2>1. Cell(s.source, owner, c) = value
    BY <1>4, <1>7, <1>11
  <2>2. t = [u EXCEPT !.view = Build(u)]
    BY DEF Edited, Rebuild, Trimmed
  <2>3. u = [s EXCEPT !.source = source]
    BY TrimmedNone
  <2> HIDE DEF u
  <2>4. \A q \in DOMAIN s.source : \A e \in Nat \ {0} : Cell(source, q, e) = Cell(s.source, q, e)
    BY <1>4, <2>1
  <2>5. WellFormed(t) /\ t.view = Build(t) /\ Follows(s, t) /\ t.source = source
        /\ t.marks = Restrict(s.marks, DOMAIN s.marks)
    <3>1. Follows(s, t)
      BY <1>4, EditedFollows
    <3> QED
      BY <1>4, <3>1, EditedIs
  <2>6. Build(t) = s.view
    <3> HIDE DEF t
    <3>1. t.marks = s.marks /\ t.owners = s.owners /\ t.selected = s.selected
      BY <2>5 DEF Follows, Restrict, Marked
    <3>2. \A q \in DOMAIN s.source : Reference(t, q) = Reference(s, q)
      <4> TAKE q \in DOMAIN s.source
      <4>1. s.owners[q] \in DOMAIN s.source
        BY DEF WellFormed
      <4> QED
        BY <1>3, <2>4, <2>5, <4>1, ReferenceFollows
    <3>3. \A q \in DOMAIN s.source : \A e \in s.selected.plays : SegmentsOf(t, q, e) = SegmentsOf(s, q, e)
      BY <2>4, <2>5 DEF SegmentsOf, WellFormed, NoColumn
    <3>4. \A q \in DOMAIN s.source : \A k : DisplayRow(t, q, k) = DisplayRow(s, q, k)
      BY <3>1, <3>2, <3>3, SameRow
    <3>5. Positions(t) = Positions(s)
      <4>1. DOMAIN t.source = DOMAIN s.source
        BY <1>4, <2>5
      <4> QED
        BY <2>5, <3>1, <3>2, <3>3, <4>1, SamePositions
    <3>6. Build(t) = Build(s)
      BY <3>4, <3>5, PositionsAre, SameView
    <3> QED
      BY <3>6
  <2>7. shown = s.view
    <3>1. ASSUME NEW i \in DOMAIN s.view
          PROVE  shown[i] = s.view[i]
      <4>1. /\ i \in DOMAIN Build(s) /\ At(s, i)[1] \in DOMAIN s.source
            /\ s.view[i] = DisplayRow(s, At(s, i)[1], At(s, i)[2])
        BY ViewRow
      <4>2. s.view[i].raw = At(s, i)[1] /\ s.view[i].reference = Reference(s, At(s, i)[1])
        BY <4>1, RowFields
      <4>3. s.view[i].raw = r => s.view[i].reference = value
        BY <2>1, <4>2 DEF Reference
      <4>4. [s.view[i] EXCEPT !.reference = s.view[i].reference] = s.view[i]
        BY <4>1, RowIs
      <4> QED
        BY <4>3, <4>4
    <3>2. s.view = [i \in DOMAIN s.view |-> s.view[i]]
      BY BuildIs
    <3> QED
      BY <3>1, <3>2
  <2>8. inPlace = t
    <3>1. Build(u) = s.view
      <4>1. DOMAIN u = DOMAIN s
        BY <2>3
      <4>2. t.view = Build(u)
        <5> HIDE DEF t
        <5> QED
          BY <1>6, <2>2, <4>1
      <4> QED
        BY <2>5, <2>6, <4>2
    <3> QED
      BY <1>8, <1>9, <2>2, <2>3, <2>7, <3>1
  <2> HIDE DEF t
  <2>9. edit = [session |-> t, raws |-> {r}, reshaped |-> FALSE]
    BY <1>5, <1>11, <2>8
  <2> QED
    BY <2>1, <2>9 DEF t
<1> QED
  BY <1>1, <1>3, <1>10, <1>11

LEMMA EditReferenceSound ==
  ASSUME NEW s, WellFormed(s), Marked(s), s.view = Build(s), NEW d \in DOMAIN s.view,
         s.selected.reference # NoColumn, NEW value \in Texts,
         NEW edit, edit = EditReference(s, d, value)
  PROVE  Sound(s, edit)
<1>1. PICK c, r, owner, wide, source, t :
        /\ c = s.selected.reference /\ r = At(s, d)[1] /\ owner = s.owners[r]
        /\ wide = Widen(Widen(s.source, r, c), owner, c)
        /\ source = Written(wide, owner, c, value) /\ t = edit.session
  OBVIOUS
<1> DEFINE others == Others(s, owner)
           Changed == /\ edit.raws = Mates(s, owner)
                      /\ t = Edited(s, source, Restrict(s.marks, others))
           Unchanged == /\ edit.raws = {r} /\ Cell(s.source, owner, c) = value
                        /\ t = Edited(s, source, Restrict(s.marks, DOMAIN s.marks))
<1>2. /\ r \in DOMAIN s.source /\ owner \in DOMAIN s.source /\ ~edit.reshaped
      /\ Changed \/ Unchanged
  BY <1>1, EditReferenceIs
<1>3. /\ s.source \in Seq(Seq(Texts)) /\ c \in Nat \ {0}
      /\ \A e \in s.selected.plays : e \in Nat \ {0} /\ e # c
      /\ DOMAIN s.owners = DOMAIN s.source
      /\ \A q \in DOMAIN s.source : s.owners[q] \in DOMAIN s.source
  BY <1>1 DEF WellFormed, NoColumn
<1>4. Rewritten(s.source, owner, c, value, wide, source)
  BY <1>1, <1>2, <1>3, RewrittenCell
<1>5. source \in Seq(Seq(Texts)) /\ DOMAIN source = DOMAIN s.source
  BY <1>4 DEF Rewritten
<1> DEFINE kept == DOMAIN t.marks
<1>6. /\ Follows(s, t) /\ t.source = source
      /\ Changed => kept = others
      /\ Unchanged => kept = DOMAIN s.marks
  <2>1. ASSUME NEW ids, ids \in SUBSET DOMAIN s.marks, t = Edited(s, source, Restrict(s.marks, ids))
        PROVE  Follows(s, t) /\ t.source = source /\ kept = ids
    <3>1. Follows(s, t)
      BY <1>5, <2>1, EditedFollows
    <3>2. t.source = source /\ t.marks = Restrict(s.marks, ids)
      BY <1>5, <2>1, EditedIs
    <3> QED
      BY <3>1, <3>2 DEF Restrict
  <2>2. others \in SUBSET DOMAIN s.marks
    BY DEF Others
  <2> HIDE DEF others, kept
  <2>3. Changed => Follows(s, t) /\ t.source = source /\ kept = others
    BY <2>1, <2>2
  <2>4. Unchanged => Follows(s, t) /\ t.source = source /\ kept = DOMAIN s.marks
    BY <2>1
  <2> QED
    BY <1>2, <2>3, <2>4
<1>7. ASSUME NEW q \in DOMAIN s.source
      PROVE  /\ \A e \in s.selected.plays : SegmentsOf(t, q, e) = SegmentsOf(s, q, e)
             /\ s.owners[q] # owner => Reference(t, q) = Reference(s, q)
             /\ s.owners[q] = owner => Reference(t, q) = value
             /\ Unchanged => Reference(t, q) = Reference(s, q)
  <2>1. \A e \in s.selected.plays : Cell(source, q, e) = Cell(s.source, q, e)
    BY <1>3, <1>4 DEF Rewritten
  <2>2. s.owners[q] # owner => Cell(source, s.owners[q], c) = Cell(s.source, s.owners[q], c)
    BY <1>3, <1>4 DEF Rewritten
  <2>3. s.owners[q] = owner => Cell(source, s.owners[q], c) = value
    BY <1>4 DEF Rewritten
  <2> HIDE DEF others, kept
  <2>4. s.owners[q] # owner => Reference(t, q) = Reference(s, q)
    BY <1>1, <1>6, <2>2, ReferenceFollows
  <2>5. s.owners[q] = owner => Reference(t, q) = value
    BY <1>1, <1>6, <2>3 DEF Reference, Follows
  <2>6. Unchanged => (s.owners[q] = owner => Reference(s, q) = value)
    BY <1>1 DEF Reference
  <2> QED
    BY <1>6, <2>1, <2>4, <2>5, <2>6 DEF SegmentsOf
<1>8. ASSUME NEW q \in DOMAIN s.source, q \notin edit.raws
      PROVE  RowKept(s, t, q)
  <2>1. Changed => s.owners[q] # owner
    BY <1>3, <1>8 DEF Mates
  <2> HIDE DEF Changed, Unchanged
  <2>2. Reference(t, q) = Reference(s, q)
    BY <1>2, <1>7, <2>1
  <2> QED
    BY <1>7, <2>2 DEF RowKept
<1>9. SameCounts(s, t)
  BY <1>7 DEF SameCounts
<1>10. ASSUME NEW id \in kept
       PROVE  Outlasts(s, t, id)
  <2>1. id \in DOMAIN s.marks
    BY <1>6 DEF Follows
  <2>2. id \in ResultIds(DOMAIN s.source, s.selected.plays)
    BY <2>1 DEF Marked
  <2>3. id[1] \in DOMAIN s.source /\ id[2] \in s.selected.plays
    BY <2>2 DEF ResultIds
  <2>4. Changed => s.owners[id[1]] # owner
    BY <1>6 DEF Others
  <2> HIDE DEF Changed, Unchanged
  <2>5. Reference(t, id[1]) = Reference(s, id[1])
    BY <1>2, <1>7, <2>3, <2>4
  <2> QED
    BY <1>7, <2>3, <2>5 DEF Outlasts
<1>11. ASSUME NEW id \in DOMAIN s.marks, id[1] \notin edit.raws
       PROVE  id \in kept
  <2>1. id \in ResultIds(DOMAIN s.source, s.selected.plays)
    BY DEF Marked
  <2>2. id[1] \in DOMAIN s.source
    BY <2>1 DEF ResultIds
  <2>3. Changed => id \in others
    BY <1>3, <1>11, <2>2 DEF Others, Mates
  <2> HIDE DEF kept
  <2> QED
    BY <1>2, <1>6, <2>3
<1>12. BlankIn(s, t) \/ BlankIn(t, s)
  <2>1. DOMAIN t.source = DOMAIN s.source
    BY <1>5, <1>6
  <2>2. ~IsBlank(value) => BlankIn(s, t)
    BY <1>7 DEF BlankIn
  <2>3. IsBlank(value) => BlankIn(t, s)
    BY <1>7, <2>1 DEF BlankIn
  <2> QED
    BY <2>2, <2>3
<1> HIDE DEF Changed, Unchanged
<1> QED
  BY <1>1, <1>2, <1>6, <1>8, <1>9, <1>10, <1>11, <1>12 DEF Sound

Proper(s) == WellFormed(s) /\ Marked(s) /\ s.view = Build(s)

LEMMA RevisedIs ==
  ASSUME NEW s, WellFormed(s), NEW u, Follows(s, u), NEW t, t = Revised(s, u)
  PROVE  /\ Proper(t)
         /\ t.id = s.id /\ t.exported = s.exported /\ t.owners = s.owners /\ t.selected = s.selected
         /\ t.source = u.source /\ t.marks = u.marks /\ t.view = u.view
         /\ t.revision = IF t.source # s.source THEN s.revision + 1 ELSE s.revision
<1> DEFINE n == IF u.source # s.source THEN s.revision + 1 ELSE s.revision
<1>1. u = [id |-> u.id, revision |-> u.revision, exported |-> u.exported, source |-> u.source,
           owners |-> u.owners, selected |-> u.selected, marks |-> u.marks, view |-> u.view]
  BY DEF Follows, WellFormed
<1>2. t = [u EXCEPT !.revision = n]
  BY DEF Revised, Follows
<1>3. n \in Nat
  BY DEF WellFormed
<1>4. t = [id |-> u.id, revision |-> n, exported |-> u.exported, source |-> u.source,
           owners |-> u.owners, selected |-> u.selected, marks |-> u.marks, view |-> u.view]
  <2> HIDE DEF n
  <2> QED
    BY <1>1, <1>2
<1> HIDE DEF n
<1>5. WellFormed(t)
  BY <1>3, <1>4 DEF Follows, WellFormed
<1>6. /\ t.source = u.source /\ t.owners = u.owners /\ t.selected = u.selected /\ t.marks = u.marks
      /\ t.view = u.view /\ t.id = u.id /\ t.exported = u.exported /\ t.revision = n
  BY <1>4
<1>7. Build(t) = Build(u)
  BY <1>5, <1>6, BuildFrame DEF Follows
<1>8. Marked(t)
  BY <1>6 DEF Follows, Marked
<1>9. Proper(t)
  BY <1>5, <1>6, <1>7, <1>8 DEF Follows, Proper
<1> QED
  BY <1>6, <1>9 DEF Follows, n

LEMMA UpdateIs ==
  ASSUME NEW s, Proper(s), NEW d \in DOMAIN s.view, NEW c, Editable(s, d, c), NEW value \in Texts,
         NEW edit, edit = UpdateDisplayCell(s, d, c, value)
  PROVE  \E first : /\ Sound(s, first)
                    /\ edit.raws = first.raws /\ edit.reshaped = first.reshaped
                    /\ edit.session = Revised(s, first.session)
<1>1. WellFormed(s) /\ Marked(s) /\ s.view = Build(s)
  BY DEF Proper
<1> DEFINE reference == EditReference(s, d, value)  play == EditPlay(s, d, c, value)
<1>2. CASE c = s.selected.reference
  <2>1. s.selected.reference # NoColumn
    BY <1>1, <1>2 DEF Editable, WellFormed
  <2>2. Sound(s, reference)
    BY <1>1, <2>1, EditReferenceSound
  <2>3. edit = [reference EXCEPT !.session = Revised(s, @)]
    BY <1>2 DEF UpdateDisplayCell
  <2>4. DOMAIN reference = {"session", "raws", "reshaped"}
    BY DEF EditReference
  <2> HIDE DEF reference
  <2>5. /\ edit.raws = reference.raws /\ edit.reshaped = reference.reshaped
        /\ edit.session = Revised(s, reference.session)
    BY <2>3, <2>4
  <2> QED
    BY <2>2, <2>5
<1>3. CASE c # s.selected.reference
  <2>1. c \in s.selected.plays /\ s.view[d].segment[c] # NoSegment
    BY <1>3 DEF Editable
  <2>2. Sound(s, play)
    BY <1>1, <2>1, EditPlaySound
  <2>3. edit = [play EXCEPT !.session = Revised(s, @)]
    BY <1>3 DEF UpdateDisplayCell
  <2>4. DOMAIN play = {"session", "raws", "reshaped"}
    BY DEF EditPlay
  <2> HIDE DEF play
  <2>5. /\ edit.raws = play.raws /\ edit.reshaped = play.reshaped
        /\ edit.session = Revised(s, play.session)
    BY <2>3, <2>4
  <2> QED
    BY <2>2, <2>5
<1> QED
  BY <1>2, <1>3

\* Writing the rows of these raw rows makes the view of s that of t.
Refreshed(s, t, raws) ==
  /\ DOMAIN t.view = DOMAIN s.view
  /\ \A d \in DOMAIN s.view :
       IF t.view[d].raw \in raws
       THEN [t.view[d] EXCEPT !.segment = s.view[d].segment] = t.view[d]
       ELSE t.view[d] = s.view[d]

\* A view of as many rows, no cell of which has more segments or less, has the
\* same rows, and the rows the edit did not touch are as they were.
LEMMA ViewAfter ==
  ASSUME NEW s, Proper(s), NEW edit, Sound(s, edit), NEW t, t = edit.session,
         Len(t.view) = Len(s.view), ~edit.reshaped
  PROVE  Refreshed(s, t, edit.raws)
<1>1. WellFormed(s) /\ Marked(s) /\ s.view = Build(s)
  BY DEF Proper
<1>2. Follows(s, t) /\ SameCounts(s, t)
  BY DEF Sound
<1>3. /\ WellFormed(t) /\ t.view = Build(t)
      /\ DOMAIN t.source = DOMAIN s.source /\ t.owners = s.owners /\ t.selected = s.selected
  BY <1>2 DEF Follows
<1>4. Cardinality(Positions(t)) = Cardinality(Positions(s))
  BY <1>1, <1>3, ViewIsSequence
<1>5. IsFiniteSet(Positions(s)) /\ IsFiniteSet(Positions(t))
  BY <1>1, <1>3, PositionsAre
<1>6. Positions(t) = Positions(s)
  <2>1. \A r \in DOMAIN s.source : \A c \in s.selected.plays :
          Len(SegmentsOf(t, r, c)) = Len(SegmentsOf(s, r, c))
    BY <1>2 DEF SameCounts
  <2>2. ASSUME BlankIn(s, t)
        PROVE  Positions(s) \in SUBSET Positions(t)
    BY <1>1, <1>3, <2>1, <2>2, PositionsFrom DEF BlankIn
  <2>3. ASSUME BlankIn(t, s)
        PROVE  Positions(t) \in SUBSET Positions(s)
    <3>1. s.selected = t.selected /\ DOMAIN s.source = DOMAIN t.source
      BY <1>3
    <3>2. \A r \in DOMAIN t.source : \A c \in t.selected.plays :
            Len(SegmentsOf(s, r, c)) = Len(SegmentsOf(t, r, c))
      BY <1>3, <2>1
    <3> QED
      BY <1>1, <1>3, <2>3, <3>1, <3>2, PositionsFrom DEF BlankIn
  <2>4. BlankIn(s, t) \/ BlankIn(t, s)
    BY DEF Sound
  <2> QED
    BY <1>4, <1>5, <2>2, <2>3, <2>4, FS_Subset
<1>7. DOMAIN t.view = DOMAIN s.view
  BY <1>1, <1>3, <1>4, ViewIsSequence
<1>8. ASSUME NEW d \in DOMAIN s.view
      PROVE  IF t.view[d].raw \in edit.raws
             THEN [t.view[d] EXCEPT !.segment = s.view[d].segment] = t.view[d]
             ELSE t.view[d] = s.view[d]
  <2>1. PICK r, k : r = At(s, d)[1] /\ k = At(s, d)[2]
    OBVIOUS
  <2>2. At(t, d) = At(s, d)
    BY <1>6 DEF At
  <2>3. d \in DOMAIN Build(s) /\ d \in DOMAIN Build(t)
    BY <1>1, <1>3, <1>7
  <2>4. /\ r \in DOMAIN s.source
        /\ s.view[d] = DisplayRow(s, r, k) /\ t.view[d] = DisplayRow(t, r, k)
    BY <1>1, <1>3, <2>1, <2>2, <2>3, ViewRow
  <2>5. t.view[d].raw = r
    BY <2>4, RowFields
  <2>6. ASSUME r \in edit.raws
        PROVE  [t.view[d] EXCEPT !.segment = s.view[d].segment] = t.view[d]
    <3>1. SegmentRow(t, r, k) = SegmentRow(s, r, k)
      BY <1>2, <1>3, <2>4 DEF SegmentRow, SameCounts
    <3>2. s.view[d].segment = t.view[d].segment
      BY <2>4, <3>1, RowFields
    <3>3. [t.view[d] EXCEPT !.segment = t.view[d].segment] = t.view[d]
      BY <2>4, RowIs
    <3> QED
      BY <3>2, <3>3
  <2>7. ASSUME r \notin edit.raws
        PROVE  t.view[d] = s.view[d]
    <3>1. RowKept(s, t, r)
      BY <2>4, <2>7 DEF Sound
    <3>2. \A c : <<r, c, k>> \in DOMAIN t.marks <=> <<r, c, k>> \in DOMAIN s.marks
      <4>1. \A c : <<r, c, k>>[1] = r
        OBVIOUS
      <4>2. \A id \in DOMAIN s.marks : id[1] = r => id \in DOMAIN t.marks
        BY <2>7 DEF Sound
      <4>3. DOMAIN t.marks \in SUBSET DOMAIN s.marks
        BY <1>2 DEF Follows
      <4> QED
        BY <4>1, <4>2, <4>3
    <3>3. \A c : <<r, c, k>> \in DOMAIN s.marks => t.marks[<<r, c, k>>] = s.marks[<<r, c, k>>]
      BY <1>2, <3>2 DEF Follows
    <3> QED
      BY <1>3, <2>4, <3>1, <3>2, <3>3, SameRow DEF RowKept
  <2> QED
    BY <2>5, <2>6, <2>7
<1> QED
  BY <1>7, <1>8 DEF Refreshed

\* What an edit does to the session, and to a grid that showed its view.
AfterEdit(s, edit, t) ==
  /\ Proper(t) /\ t.id = s.id /\ t.exported = s.exported
  /\ t.owners = s.owners /\ t.selected = s.selected
  /\ t.revision = IF t.source # s.source THEN s.revision + 1 ELSE s.revision
  /\ DOMAIN t.marks \in SUBSET DOMAIN s.marks
  /\ \A id \in DOMAIN t.marks : t.marks[id] = s.marks[id] /\ Outlasts(s, t, id)
  /\ grid = s.view => GridAfter(s.view, edit) = t.view

LEMMA EditIs ==
  ASSUME NEW s, Proper(s), NEW d \in DOMAIN s.view, NEW c, Editable(s, d, c), NEW value \in Texts,
         NEW edit, edit = UpdateDisplayCell(s, d, c, value), NEW t, t = edit.session
  PROVE  AfterEdit(s, edit, t)
<1>1. WellFormed(s)
  BY DEF Proper
<1>2. PICK first : /\ Sound(s, first)
                   /\ edit.raws = first.raws /\ edit.reshaped = first.reshaped
                   /\ t = Revised(s, first.session)
  BY UpdateIs
<1>3. PICK u : u = first.session
  OBVIOUS
<1>4. Follows(s, u) /\ t = Revised(s, u)
  BY <1>2, <1>3 DEF Sound
<1>5. /\ Proper(t)
      /\ t.id = s.id /\ t.exported = s.exported /\ t.owners = s.owners /\ t.selected = s.selected
      /\ t.source = u.source /\ t.marks = u.marks /\ t.view = u.view
      /\ t.revision = IF t.source # s.source THEN s.revision + 1 ELSE s.revision
  BY <1>1, <1>4, RevisedIs
<1>6. ASSUME NEW id \in DOMAIN t.marks
      PROVE  Outlasts(s, t, id)
  <2>1. Outlasts(s, u, id)
    BY <1>2, <1>3, <1>5 DEF Sound
  <2>2. Reference(t, id[1]) = Reference(u, id[1])
    BY <1>4, <1>5 DEF Reference, Follows
  <2>3. SegmentsOf(t, id[1], id[2]) = SegmentsOf(u, id[1], id[2])
    BY <1>5 DEF SegmentsOf
  <2> QED
    BY <2>1, <2>2, <2>3 DEF Outlasts
<1>7. ASSUME grid = s.view
      PROVE  GridAfter(s.view, edit) = t.view
  <2> DEFINE partly == [e \in DOMAIN grid |->
                          IF t.view[e].raw \in edit.raws
                          THEN [t.view[e] EXCEPT !.segment = grid[e].segment] ELSE grid[e]]
  <2>1. GridAfter(s.view, edit) =
          IF Len(t.view) # Len(s.view) \/ edit.reshaped THEN t.view ELSE partly
    BY DEF GridAfter
  <2>2. ASSUME Len(t.view) = Len(s.view), ~edit.reshaped
        PROVE  partly = t.view
    <3>1. Sound(s, first) /\ Len(u.view) = Len(s.view) /\ ~first.reshaped
      BY <1>2, <1>5, <2>2
    <3>2. Refreshed(s, u, first.raws)
      BY <1>3, <3>1, ViewAfter
    <3>4. DOMAIN t.view = DOMAIN s.view /\ \A e \in DOMAIN grid : partly[e] = t.view[e]
      BY <1>2, <1>5, <1>7, <3>2 DEF Refreshed
    <3>3. t.view = [e \in DOMAIN grid |-> t.view[e]]
      <4>1. t.view = Build(t)
        BY <1>5 DEF Proper
      <4>2. t.view = [e \in DOMAIN t.view |-> t.view[e]]
        BY <4>1, BuildIs
      <4> QED
        BY <1>7, <3>4, <4>2
    <3> QED
      BY <3>3, <3>4
  <2> HIDE DEF partly
  <2> QED
    BY <2>1, <2>2
<1> QED
  BY <1>4, <1>5, <1>6, <1>7 DEF Follows, AfterEdit

-----------------------------------------------------------------------------
(* Marking a result                                                        *)

SessionOf(id, revision, exported, source, owners, selected, marks, view) ==
  [id |-> id, revision |-> revision, exported |-> exported, source |-> source,
   owners |-> owners, selected |-> selected, marks |-> marks, view |-> view]

WithMarks(s, marks) == [s EXCEPT !.marks = marks]
WithView(s, view) == [s EXCEPT !.view = view]
WithRevision(s, revision) == [s EXCEPT !.revision = revision]

LEMMA FieldReplaced ==
  ASSUME NEW a, NEW b, NEW e, NEW f, NEW g, NEW h, NEW i, NEW j, NEW x
  PROVE  /\ WithMarks(SessionOf(a, b, e, f, g, h, i, j), x) = SessionOf(a, b, e, f, g, h, x, j)
         /\ WithView(SessionOf(a, b, e, f, g, h, i, j), x) = SessionOf(a, b, e, f, g, h, i, x)
         /\ WithRevision(SessionOf(a, b, e, f, g, h, i, j), x) = SessionOf(a, x, e, f, g, h, i, j)
<1>1. WithMarks(SessionOf(a, b, e, f, g, h, i, j), x) = SessionOf(a, b, e, f, g, h, x, j)
  BY DEF SessionOf, WithMarks
<1>2. WithView(SessionOf(a, b, e, f, g, h, i, j), x) = SessionOf(a, b, e, f, g, h, i, x)
  BY DEF SessionOf, WithView
<1>3. WithRevision(SessionOf(a, b, e, f, g, h, i, j), x) = SessionOf(a, x, e, f, g, h, i, j)
  BY DEF SessionOf, WithRevision
<1> QED
  BY <1>1, <1>2, <1>3

\* Row (r, k) of t is the given row with another result.
Cycled(t, r, k, c, next, row) ==
  /\ DisplayRow(t, r, k) = [row EXCEPT !.result[c] = next]
  /\ DisplayRow(t, r, k).result[c] = next
  /\ DisplayRow(t, r, k).text = row.text

LEMMA CycledRow ==
  ASSUME NEW s, NEW t, NEW r, NEW k, NEW c \in s.selected.plays, NEW next, NEW row,
         row = DisplayRow(s, r, k), t.owners = s.owners, t.selected = s.selected, t.source = s.source,
         k <= Len(SegmentsOf(s, r, c)),
         \A id : id # <<r, c, k>> => /\ id \in DOMAIN t.marks <=> id \in DOMAIN s.marks
                                     /\ id \in DOMAIN s.marks => t.marks[id] = s.marks[id],
         IF <<r, c, k>> \in DOMAIN t.marks THEN t.marks[<<r, c, k>>] = next ELSE next = "blank"
  PROVE  Cycled(t, r, k, c, next, row)
<1>1. Reference(t, r) = Reference(s, r) /\ \A e : SegmentsOf(t, r, e) = SegmentsOf(s, r, e)
  BY DEF Reference, SegmentsOf
<1>2. SegmentRow(t, r, k) = SegmentRow(s, r, k) /\ TextRow(t, r, k) = TextRow(s, r, k)
  BY <1>1 DEF SegmentRow, TextRow
<1>3. ResultRow(t, r, k) = [ResultRow(s, r, k) EXCEPT ![c] = next]
  <2>1. \A e \in s.selected.plays : e # c => <<r, e, k>> # <<r, c, k>>
    OBVIOUS
  <2>2. \A e \in s.selected.plays : e # c => ResultRow(t, r, k)[e] = ResultRow(s, r, k)[e]
    BY <1>1, <2>1 DEF ResultRow
  <2>3. ResultRow(t, r, k)[c] = next
    BY <1>1 DEF ResultRow
  <2>4. /\ ResultRow(t, r, k) = [e \in s.selected.plays |-> ResultRow(t, r, k)[e]]
        /\ ResultRow(s, r, k) = [e \in s.selected.plays |-> ResultRow(s, r, k)[e]]
    BY DEF ResultRow
  <2> QED
    BY <2>2, <2>3, <2>4
<1>4. DOMAIN ResultRow(s, r, k) = s.selected.plays
  BY DEF ResultRow
<1>5. row = [raw |-> r, expanded |-> k, owner |-> s.owners[r], reference |-> Reference(s, r),
             segment |-> SegmentRow(s, r, k), text |-> TextRow(s, r, k), result |-> ResultRow(s, r, k)]
  BY RowIs
<1>6. [row EXCEPT !.result[c] = next] =
        [raw |-> r, expanded |-> k, owner |-> s.owners[r], reference |-> Reference(s, r),
         segment |-> SegmentRow(s, r, k), text |-> TextRow(s, r, k),
         result |-> [ResultRow(s, r, k) EXCEPT ![c] = next]]
  BY <1>5
<1>7. DisplayRow(t, r, k) =
        [raw |-> r, expanded |-> k, owner |-> s.owners[r], reference |-> Reference(s, r),
         segment |-> SegmentRow(s, r, k), text |-> TextRow(s, r, k),
         result |-> [ResultRow(s, r, k) EXCEPT ![c] = next]]
  BY <1>1, <1>2, <1>3, RowIs
<1> QED
  BY <1>4, <1>5, <1>6, <1>7 DEF Cycled

LEMMA CycleIs ==
  ASSUME NEW s, Proper(s), NEW d \in DOMAIN s.view, NEW c \in s.selected.plays,
         s.view[d].segment[c] # NoSegment, NEW t, t = CycleResult(s, d, c),
         NEW r, r = At(s, d)[1], NEW k, k = At(s, d)[2]
  PROVE  /\ Proper(t) /\ t.id = s.id /\ t.exported = s.exported /\ t.revision = s.revision + 1
         /\ t.source = s.source /\ t.owners = s.owners /\ t.selected = s.selected
         /\ ResultKey(s, d, c) = <<r, c, k>> /\ k <= Len(SegmentsOf(s, r, c))
         /\ s.view[d].text[c] = SegmentsOf(s, r, c)[k] /\ s.view[d].reference = Reference(s, r)
         /\ \A id \in DOMAIN t.marks : id # <<r, c, k>> => id \in DOMAIN s.marks
         /\ DOMAIN t.view = DOMAIN s.view
         /\ \A e \in DOMAIN s.view : t.view[e].text = s.view[e].text
         /\ [s.view EXCEPT ![d].result[c] = t.view[d].result[c]] = t.view
<1>1. WellFormed(s) /\ Marked(s) /\ s.view = Build(s)
  BY DEF Proper
<1>2. /\ d \in DOMAIN Build(s) /\ d \in 1..Cardinality(Positions(s))
      /\ r \in DOMAIN s.source /\ k \in Nat \ {0}
      /\ s.view[d] = DisplayRow(s, r, k)
  BY <1>1, ViewRow
<1>3. /\ s.view[d].raw = r /\ s.view[d].segment = SegmentRow(s, r, k)
      /\ s.view[d].text = TextRow(s, r, k) /\ s.view[d].reference = Reference(s, r)
  BY <1>2, RowFields
<1>4. s.view[d].segment[c] = k /\ k <= Len(SegmentsOf(s, r, c))
  BY <1>3 DEF SegmentRow
<1>5. s.view[d].text[c] = SegmentsOf(s, r, c)[k]
  BY <1>3, <1>4 DEF TextRow
<1>6. PICK key : key = <<r, c, k>>
  OBVIOUS
<1>7. ResultKey(s, d, c) = key
  BY <1>3, <1>4, <1>6 DEF ResultKey
<1> DEFINE next == IF key \notin DOMAIN s.marks THEN "pass"
                   ELSE IF s.marks[key] = "pass" THEN "fail" ELSE "blank"
           marks == IF next = "blank" THEN Restrict(s.marks, DOMAIN s.marks \ {key})
                    ELSE [id \in DOMAIN s.marks \cup {key} |-> IF id = key THEN next ELSE s.marks[id]]
           view == [s.view EXCEPT ![d].result[c] = next]
<1>8. t = [s EXCEPT !.marks = marks, !.view = view, !.revision = @ + 1]
  <2>1. t = [s EXCEPT !.marks = IF next = "blank" THEN Restrict(@, DOMAIN @ \ {key})
                                ELSE [id \in DOMAIN @ \cup {key} |-> IF id = key THEN next ELSE @[id]],
                      !.view[d].result[c] = next,
                      !.revision = @ + 1]
    BY <1>7 DEF CycleResult
  <2> HIDE DEF next
  <2> QED
    BY <2>1
<1>9. /\ next \in {"pass", "fail", "blank"}
      /\ marks \in [DOMAIN marks -> {"pass", "fail"}]
      /\ DOMAIN marks \in SUBSET (DOMAIN s.marks \cup {key})
      /\ \A id : id # key => /\ id \in DOMAIN marks <=> id \in DOMAIN s.marks
                             /\ id \in DOMAIN s.marks => marks[id] = s.marks[id]
      /\ IF key \in DOMAIN marks THEN marks[key] = next ELSE next = "blank"
  <2>1. next \in {"pass", "fail", "blank"}
    OBVIOUS
  <2>2. s.marks \in [DOMAIN s.marks -> {"pass", "fail"}]
    BY <1>1 DEF Marked
  <2>3. ASSUME next = "blank"
        PROVE  /\ marks \in [DOMAIN marks -> {"pass", "fail"}]
               /\ DOMAIN marks = DOMAIN s.marks \ {key}
               /\ \A id \in DOMAIN marks : marks[id] = s.marks[id]
    <3>1. marks = [id \in DOMAIN s.marks \ {key} |-> s.marks[id]]
      BY <2>3 DEF Restrict
    <3> HIDE DEF marks
    <3> QED
      BY <2>2, <3>1
  <2>4. ASSUME next # "blank"
        PROVE  /\ marks \in [DOMAIN marks -> {"pass", "fail"}]
               /\ DOMAIN marks = DOMAIN s.marks \cup {key}
               /\ \A id \in DOMAIN s.marks : id # key => marks[id] = s.marks[id]
               /\ marks[key] = next
    <3>1. marks = [id \in DOMAIN s.marks \cup {key} |-> IF id = key THEN next ELSE s.marks[id]]
      BY <2>4
    <3> HIDE DEF marks, next
    <3> QED
      BY <2>1, <2>2, <2>4, <3>1
  <2> HIDE DEF next, marks
  <2> QED
    BY <2>1, <2>3, <2>4
<1> HIDE DEF next, marks
<1>10. s = [id |-> s.id, revision |-> s.revision, exported |-> s.exported, source |-> s.source,
            owners |-> s.owners, selected |-> s.selected, marks |-> s.marks, view |-> s.view]
  BY <1>1 DEF WellFormed
<1> HIDE DEF view
<1>11. t = [id |-> s.id, revision |-> s.revision + 1, exported |-> s.exported, source |-> s.source,
            owners |-> s.owners, selected |-> s.selected, marks |-> marks, view |-> view]
  <2>1. PICK a, b, e, f, g, h, i, j : s = SessionOf(a, b, e, f, g, h, i, j)
    BY <1>10 DEF SessionOf
  <2>2. /\ s.id = a /\ s.revision = b /\ s.exported = e /\ s.source = f
        /\ s.owners = g /\ s.selected = h
    BY <2>1 DEF SessionOf
  <2>3. t = WithRevision(WithView(WithMarks(s, marks), view), b + 1)
    BY <1>8, <2>2 DEF WithMarks, WithView, WithRevision
  <2>4. t = SessionOf(a, b + 1, e, f, g, h, marks, view)
    BY <2>1, <2>3, FieldReplaced
  <2> QED
    BY <2>2, <2>4 DEF SessionOf
<1>12. WellFormed(t)
  <2>1. s.revision + 1 \in Nat
    BY <1>1 DEF WellFormed
  <2> QED
    BY <1>1, <1>11, <2>1 DEF WellFormed
<1>13. /\ t.source = s.source /\ t.owners = s.owners /\ t.selected = s.selected
       /\ t.marks = marks /\ t.view = view /\ t.id = s.id /\ t.exported = s.exported
       /\ t.revision = s.revision + 1
  BY <1>11
<1>14. Marked(t)
  <2>1. key \in ResultIds(DOMAIN s.source, s.selected.plays)
    BY <1>2, <1>6 DEF ResultIds
  <2>2. DOMAIN s.marks \in SUBSET ResultIds(DOMAIN s.source, s.selected.plays)
    BY <1>1 DEF Marked
  <2>3. DOMAIN marks \in SUBSET ResultIds(DOMAIN s.source, s.selected.plays)
    BY <1>9, <2>1, <2>2
  <2> QED
    BY <1>9, <1>13, <2>3 DEF Marked
<1>15. Positions(t) = Positions(s)
  <2>1. \A q : Reference(t, q) = Reference(s, q)
    BY <1>13 DEF Reference
  <2>2. \A q, e : SegmentsOf(t, q, e) = SegmentsOf(s, q, e)
    BY <1>13 DEF SegmentsOf
  <2> QED
    BY <1>1, <1>12, <1>13, <2>1, <2>2, SamePositions
<1>16. /\ DisplayRow(t, r, k) = [s.view[d] EXCEPT !.result[c] = next]
       /\ DisplayRow(t, r, k).result[c] = next
       /\ DisplayRow(t, r, k).text = s.view[d].text
  <2>1. Cycled(t, r, k, c, next, s.view[d])
    BY <1>2, <1>4, <1>6, <1>9, <1>13, CycledRow
  <2> QED
    BY <2>1 DEF Cycled
<1>17. DOMAIN Build(s) = 1..Cardinality(Positions(s)) /\ DOMAIN Build(t) = DOMAIN Build(s)
  BY <1>1, <1>12, <1>15, ViewIsSequence
<1>18. ASSUME NEW e \in DOMAIN s.view
       PROVE  /\ Build(t)[e] = IF e = d THEN [s.view[d] EXCEPT !.result[c] = next] ELSE s.view[e]
              /\ Build(t)[e].text = s.view[e].text
  <2>1. PICK q, j : q = At(s, e)[1] /\ j = At(s, e)[2]
    OBVIOUS
  <2>2. /\ e \in 1..Cardinality(Positions(s))
        /\ s.view[e] = DisplayRow(s, q, j) /\ At(s, e) \in Positions(s)
    BY <1>1, <2>1, ViewRow
  <2>3. Build(t)[e] = DisplayRow(t, q, j)
    <3>1. At(t, e) = At(s, e)
      BY <1>15 DEF At
    <3>2. e \in DOMAIN Build(t)
      BY <1>1, <1>17
    <3> QED
      BY <1>12, <2>1, <3>1, <3>2, ViewRow
  <2>4. ASSUME e = d
        PROVE  Build(t)[e] = [s.view[d] EXCEPT !.result[c] = next] /\ Build(t)[e].text = s.view[e].text
    <3>1. q = r /\ j = k
      BY <2>1, <2>4
    <3> QED
      BY <1>16, <2>3, <2>4, <3>1
  <2>5. ASSUME e # d
        PROVE  Build(t)[e] = s.view[e]
    <3>1. At(s, e) # At(s, d)
      <4>1. /\ Positions(s) \in SUBSET (Nat \X Nat) /\ IsFiniteSet(Positions(s))
        BY <1>1, PositionsAre
      <4> QED
        BY <1>2, <2>2, <2>5, <4>1, PlacesDiffer DEF At
    <3>2. At(s, d) \in Positions(s) /\ Positions(s) \in SUBSET (Nat \X Nat)
      BY <1>1, <1>2, ViewRow, PositionsAre
    <3>3. q # r \/ j # k
      BY <2>1, <2>2, <3>1, <3>2
    <3>4. \A h : <<q, h, j>> # key
      BY <1>6, <3>3
    <3>5. /\ Reference(t, q) = Reference(s, q)
          /\ \A h \in s.selected.plays : SegmentsOf(t, q, h) = SegmentsOf(s, q, h)
      BY <1>13 DEF Reference, SegmentsOf
    <3>6. DisplayRow(t, q, j) = DisplayRow(s, q, j)
      <4>1. \A h : /\ <<q, h, j>> \in DOMAIN t.marks <=> <<q, h, j>> \in DOMAIN s.marks
                   /\ <<q, h, j>> \in DOMAIN s.marks => t.marks[<<q, h, j>>] = s.marks[<<q, h, j>>]
        BY <1>9, <1>13, <3>4
      <4>2. t.selected = s.selected /\ t.owners[q] = s.owners[q]
        BY <1>13
      <4> QED
        BY <3>5, <4>1, <4>2, SameRow
    <3> QED
      BY <2>2, <2>3, <3>6
  <2> QED
    BY <2>4, <2>5
<1>19. view = Build(t)
  <2>1. s.view = [e \in DOMAIN s.view |-> s.view[e]] /\ Build(t) = [e \in DOMAIN Build(t) |-> Build(t)[e]]
    BY <1>1, BuildIs
  <2>2. /\ view = [e \in DOMAIN s.view |-> view[e]]
        /\ \A e \in DOMAIN s.view :
             view[e] = IF e = d THEN [s.view[d] EXCEPT !.result[c] = next] ELSE s.view[e]
    BY <2>1 DEF view
  <2> QED
    BY <1>1, <1>17, <1>18, <2>1, <2>2
<1>20. Proper(t)
  BY <1>12, <1>13, <1>14, <1>19 DEF Proper
<1>21. t.view[d].result[c] = next
  BY <1>13, <1>16, <1>18, <1>19, <1>2, <1>15 DEF view
<1>22. [s.view EXCEPT ![d].result[c] = t.view[d].result[c]] = t.view
  BY <1>13, <1>21 DEF view
<1> QED
  BY <1>1, <1>3, <1>4, <1>5, <1>6, <1>7, <1>9, <1>13, <1>17, <1>18, <1>19, <1>20, <1>22

-----------------------------------------------------------------------------
(* A session just made                                                     *)

LEMMA Least ==
  ASSUME NEW S \in SUBSET Nat, IsFiniteSet(S), S # {}
  PROVE  \E m \in S : \A x \in S : m <= x
<1> DEFINE m == Nth(S, 1)  before == {y \in S : y < m}
<1>1. 1 \in 1..Cardinality(S)
  <2>1. Cardinality(S) \in Nat /\ Cardinality(S) # 0
    BY FS_EmptySet, FS_CardinalityType
  <2> QED
    BY <2>1
<1>2. m \in S /\ Cardinality(before) = 0
  BY <1>1, NthIsIn
<1>3. IsFiniteSet(before)
  BY FS_Subset
<1>4. before = {}
  <2> HIDE DEF before
  <2> QED
    BY <1>2, <1>3, FS_EmptySet
<1> HIDE DEF m
<1>5. \A x \in S : m <= x
  BY <1>2, <1>4
<1> QED
  BY <1>2, <1>5

LEMMA LargerOf ==
  ASSUME NEW a \in Nat, NEW b \in Nat
  PROVE  Max({a, b}) = IF a >= b THEN a ELSE b
<1> DEFINE m == IF a >= b THEN a ELSE b
<1>1. m \in {a, b} /\ \A y \in {a, b} : m >= y
  OBVIOUS
<1>2. \A x \in {a, b} : (\A y \in {a, b} : x >= y) => x = m
  OBVIOUS
<1> HIDE DEF m
<1>3. Max({a, b}) = CHOOSE x \in {a, b} : \A y \in {a, b} : x >= y
  BY DEF Max
<1> QED
  BY <1>1, <1>2, <1>3 DEF m

LEMMA CountingUp ==
  ASSUME NEW N \in Nat, NEW S, 0 \in S, \A i \in 1..N : i - 1 \in S => i \in S
  PROVE  \A i \in 0..N : i \in S
<1> DEFINE bad == {i \in 0..N : i \notin S}
<1>1. SUFFICES ASSUME bad # {}
               PROVE  FALSE
  OBVIOUS
<1>2. IsFiniteSet(0..N)
  BY Interval
<1>3. bad \in SUBSET Nat /\ IsFiniteSet(bad)
  BY <1>2, FS_Subset
<1>4. PICK m \in bad : \A x \in bad : m <= x
  <2> HIDE DEF bad
  <2> QED
    BY <1>1, <1>3, Least
<1>5. m \in 1..N
  <2>1. m \in 0..N /\ m \notin S
    OBVIOUS
  <2> QED
    BY <2>1
<1>6. m - 1 \in 0..N /\ m - 1 \notin bad
  BY <1>4, <1>5
<1> QED
  BY <1>4, <1>5, <1>6

\* A loop over the first n elements of something, from base and step by step.
IsRun(f, base, step, n) == f = [i \in 0..n |-> IF i = 0 THEN base ELSE step[<<f[i - 1], i>>]]

LEMMA RunIs ==
  ASSUME NEW n \in Nat, NEW f, NEW base, NEW step, IsRun(f, base, step, n), NEW i \in 0..n
  PROVE  f[i] = IF i = 0 THEN base ELSE step[<<f[i - 1], i>>]
<1>1. PICK h : h = f
  OBVIOUS
<1>2. f = [j \in 0..n |-> IF j = 0 THEN base ELSE step[<<h[j - 1], j>>]]
  BY <1>1 DEF IsRun
<1> QED
  BY <1>1, <1>2

LEMMA RunGoesOn ==
  ASSUME NEW m \in Nat, m # 0, NEW f, NEW base, NEW step, IsRun(f, base, step, m - 1)
  PROVE  \E g : IsRun(g, base, step, m)
<1> DEFINE g == [i \in 0..m |-> IF i < m THEN f[i] ELSE step[<<f[m - 1], m>>]]
<1>1. ASSUME NEW i \in 0..m
      PROVE  g[i] = IF i = 0 THEN base ELSE step[<<g[i - 1], i>>]
  <2>1. CASE i < m
    <3>1. i \in 0..(m - 1) /\ (i # 0 => i - 1 \in 0..m /\ i - 1 < m) /\ m - 1 \in Nat
      BY <2>1
    <3>2. g[i] = f[i] /\ (i # 0 => g[i - 1] = f[i - 1])
      BY <2>1, <3>1
    <3>3. f[i] = IF i = 0 THEN base ELSE step[<<f[i - 1], i>>]
      BY <3>1, RunIs
    <3> HIDE DEF g
    <3> QED
      BY <3>2, <3>3
  <2>2. CASE ~(i < m)
    <3>1. i = m /\ i # 0 /\ m - 1 \in 0..m /\ m - 1 < m
      BY <2>2
    <3>2. g[i] = step[<<f[m - 1], m>>] /\ g[m - 1] = f[m - 1]
      BY <2>2, <3>1
    <3> HIDE DEF g
    <3> QED
      BY <3>1, <3>2
  <2> QED
    BY <2>1, <2>2
<1>2. g = [i \in 0..m |-> g[i]]
  OBVIOUS
<1> HIDE DEF g
<1>3. IsRun(g, base, step, m)
  BY <1>1, <1>2 DEF IsRun
<1> QED
  BY <1>3

LEMMA RunExists ==
  ASSUME NEW N \in Nat, NEW base, NEW step
  PROVE  \E f : IsRun(f, base, step, N)
<1> DEFINE S == {n \in 0..N : \E f : IsRun(f, base, step, n)}
<1>1. 0 \in S
  <2>1. IsRun([i \in 0..0 |-> base], base, step, 0)
    BY DEF IsRun
  <2> QED
    BY <2>1
<1>2. ASSUME NEW i \in 1..N, i - 1 \in S
      PROVE  i \in S
  <2>1. PICK f : IsRun(f, base, step, i - 1)
    BY <1>2
  <2>2. \E g : IsRun(g, base, step, i)
    BY <2>1, RunGoesOn
  <2> QED
    BY <2>2
<1>3. \A i \in 0..N : i \in S
  <2> HIDE DEF S
  <2> QED
    BY <1>1, <1>2, CountingUp
<1> QED
  BY <1>3

LEMMA RunStays ==
  ASSUME NEW N \in Nat, NEW S, NEW base \in S, NEW step,
         \A x \in S : \A i \in 1..N : step[<<x, i>>] \in S,
         NEW f, IsRun(f, base, step, N)
  PROVE  \A i \in 0..N : f[i] \in S
<1> DEFINE T == {i \in 0..N : f[i] \in S}
<1>1. 0 \in T
  <2>1. 0 \in 0..N
    OBVIOUS
  <2>2. f[0] = base
    <3> HIDE DEF T
    <3> QED
      BY <2>1, RunIs
  <2> QED
    BY <2>1, <2>2
<1>2. ASSUME NEW i \in 1..N, i - 1 \in T
      PROVE  i \in T
  <2>1. f[i] = step[<<f[i - 1], i>>]
    BY RunIs
  <2> QED
    BY <1>2, <2>1
<1>3. \A i \in 0..N : i \in T
  <2> HIDE DEF T
  <2> QED
    BY <1>1, <1>2, CountingUp
<1> QED
  BY <1>3

\* What ReferenceOwners makes of the first merges.
Own(sheet) == [owners |-> [r \in DOMAIN sheet.rows |-> r], projected |-> {}]
IsProjection(sheet, c, f, n) ==
  f = [i \in 0..n |-> IF i = 0 THEN Own(sheet) ELSE Project(sheet, c, f[i - 1], i)]
Projections(sheet, c) == CHOOSE f : IsProjection(sheet, c, f, Len(sheet.merges))
Projected(sheet) ==
  [owners : [DOMAIN sheet.rows -> DOMAIN sheet.rows], projected : SUBSET DOMAIN sheet.rows]

LEMMA ProjectKeepsShape ==
  ASSUME NEW sheet, NEW c, NEW acc \in Projected(sheet), NEW i
  PROVE  Project(sheet, c, acc, i) \in Projected(sheet)
<1> DEFINE D == DOMAIN sheet.rows
           merge == sheet.merges[i]
           anchors == {r \in D : sheet.excel[r] = merge.first}
           covered == {r \in D : merge.first <= sheet.excel[r] /\ sheet.excel[r] <= merge.last}
           valid == \E a \in anchors :
                      /\ merge.first > sheet.header /\ merge.first <= merge.last
                      /\ Cell(sheet.rows, a, c) # Empty
                      /\ \A r \in covered : /\ r \notin acc.projected
                                            /\ Cell(sheet.rows, r, c) \in {Empty, Cell(sheet.rows, a, c)}
           applies == /\ Covers(merge, c) /\ merge.left = merge.right
                      /\ i \notin Conflicts(sheet.merges, c)
                      /\ valid
           next == [owners |-> [r \in D |-> IF r \in covered THEN CHOOSE a \in anchors : TRUE
                                            ELSE acc.owners[r]],
                    projected |-> acc.projected \cup covered]
<1>1. Project(sheet, c, acc, i) = IF applies THEN next ELSE acc
  BY DEF Project
<1>2. ASSUME applies
      PROVE  next \in Projected(sheet)
  <2>1. \E a \in anchors : TRUE
    BY <1>2
  <2>2. (CHOOSE a \in anchors : TRUE) \in anchors
    <3> HIDE DEF anchors
    <3> QED
      BY <2>1
  <2>3. anchors \in SUBSET D /\ covered \in SUBSET D
    OBVIOUS
  <2>4. acc.owners \in [D -> D] /\ acc.projected \in SUBSET D
    BY DEF Projected
  <2> HIDE DEF D, anchors, covered
  <2>5. next.owners \in [D -> D] /\ next.projected \in SUBSET D
    BY <2>2, <2>3, <2>4
  <2> QED
    BY <2>5 DEF Projected, D
<1> HIDE DEF applies, next
<1> QED
  BY <1>1, <1>2

LEMMA ProjectionExists ==
  ASSUME NEW sheet, NEW c, NEW N \in Nat
  PROVE  \E f : IsProjection(sheet, c, f, N)
<1> DEFINE S == Projected(sheet)
           step == [p \in S \X (1..N) |-> Project(sheet, c, p[1], p[2])]
<1>1. PICK f : IsRun(f, Own(sheet), step, N)
  BY RunExists
<1>2. Own(sheet) \in S
  BY DEF Own, Projected
<1>3. ASSUME NEW x \in S, NEW i \in 1..N
      PROVE  step[<<x, i>>] = Project(sheet, c, x, i) /\ step[<<x, i>>] \in S
  <2>1. step[<<x, i>>] = Project(sheet, c, x, i)
    OBVIOUS
  <2> HIDE DEF step
  <2> QED
    BY <2>1, ProjectKeepsShape
<1> HIDE DEF step, S
<1>4. \A i \in 0..N : f[i] \in S
  BY <1>1, <1>2, <1>3, RunStays
<1>5. ASSUME NEW i \in 0..N
      PROVE  f[i] = IF i = 0 THEN Own(sheet) ELSE Project(sheet, c, f[i - 1], i)
  <2>1. f[i] = IF i = 0 THEN Own(sheet) ELSE step[<<f[i - 1], i>>]
    BY <1>1, RunIs
  <2>2. i # 0 => i \in 1..N /\ f[i - 1] \in S
    BY <1>4
  <2> QED
    BY <1>3, <2>1, <2>2
<1>6. f = [i \in 0..N |-> f[i]]
  BY <1>1 DEF IsRun
<1>7. IsProjection(sheet, c, f, N)
  BY <1>5, <1>6 DEF IsProjection
<1> QED
  BY <1>7

LEMMA ProjectionsAre ==
  ASSUME NEW sheet, Len(sheet.merges) \in Nat, NEW c
  PROVE  /\ \A i \in 0..Len(sheet.merges) :
              /\ Projections(sheet, c)[i] = IF i = 0 THEN Own(sheet)
                                            ELSE Project(sheet, c, Projections(sheet, c)[i - 1], i)
              /\ Projections(sheet, c)[i] \in Projected(sheet)
         /\ ReferenceOwners(sheet, c) =
              IF c = NoColumn THEN Own(sheet).owners
              ELSE Projections(sheet, c)[Len(sheet.merges)].owners
<1> DEFINE N == Len(sheet.merges)  f == Projections(sheet, c)
           S == {i \in 0..N : f[i] \in Projected(sheet)}
<1>1. IsProjection(sheet, c, f, N)
  BY ProjectionExists DEF Projections
<1> HIDE DEF f
<1>2. ASSUME NEW i \in 0..N
      PROVE  f[i] = IF i = 0 THEN Own(sheet) ELSE Project(sheet, c, f[i - 1], i)
  <2>1. PICK h : h = f
    OBVIOUS
  <2>2. f = [j \in 0..N |-> IF j = 0 THEN Own(sheet) ELSE Project(sheet, c, h[j - 1], j)]
    BY <1>1, <2>1 DEF IsProjection
  <2> QED
    BY <2>1, <2>2
<1>3. 0 \in S
  <2>1. Own(sheet) \in Projected(sheet)
    BY DEF Own, Projected
  <2> QED
    BY <1>2, <2>1
<1>4. ASSUME NEW i \in 1..N, i - 1 \in S
      PROVE  i \in S
  <2>1. f[i - 1] \in Projected(sheet) /\ f[i] = Project(sheet, c, f[i - 1], i)
    BY <1>2, <1>4
  <2> QED
    BY <2>1, ProjectKeepsShape
<1>5. \A i \in 0..N : i \in S
  <2> HIDE DEF S
  <2> QED
    BY <1>3, <1>4, CountingUp
<1>6. ReferenceOwners(sheet, c) = IF c = NoColumn THEN Own(sheet).owners ELSE f[N].owners
  BY DEF ReferenceOwners, Own, Projections, IsProjection, f
<1> QED
  BY <1>2, <1>5, <1>6 DEF f

LEMMA OwnersAreRows ==
  ASSUME NEW sheet, Len(sheet.merges) \in Nat, NEW c
  PROVE  ReferenceOwners(sheet, c) \in [DOMAIN sheet.rows -> DOMAIN sheet.rows]
<1>1. Own(sheet) \in Projected(sheet)
  BY DEF Own, Projected
<1>2. Projections(sheet, c)[Len(sheet.merges)] \in Projected(sheet)
  BY ProjectionsAre
<1>3. ReferenceOwners(sheet, c) =
        IF c = NoColumn THEN Own(sheet).owners ELSE Projections(sheet, c)[Len(sheet.merges)].owners
  BY ProjectionsAre
<1> QED
  BY <1>1, <1>2, <1>3 DEF Projected

\* A session the mapping panel has just made.
New(s) == Proper(s) /\ s.revision = 0 /\ s.exported = 0 /\ s.marks = <<>>

LEMMA CreatedIs ==
  ASSUME NEW sheet \in Sheets, NEW id \in Nat, NEW s, s = CreateSession(id, sheet, sheet.selected)
  PROVE  New(s) /\ s.id = id
<1> DEFINE owners == ReferenceOwners(sheet, sheet.selected.reference)
           u == SessionOf(id, 0, 0, sheet.rows, owners, sheet.selected, <<>>, <<>>)
<1>1. /\ sheet.rows \in Seq(Seq(Texts))
      /\ Len(sheet.merges) \in Nat
      /\ sheet.selected.reference \in Nat
      /\ sheet.selected.plays \subseteq Nat \ {NoColumn, sheet.selected.reference}
      /\ IsFiniteSet(sheet.selected.plays)
  BY CorpusSessionAssumption DEF CorpusSessionAssumption, Texts
<1>2. owners \in [DOMAIN sheet.rows -> DOMAIN sheet.rows]
  BY <1>1, OwnersAreRows
<1>3. s = WithView(u, Build(u))
  BY DEF CreateSession, Rebuild, WithView, SessionOf
<1> HIDE DEF owners
<1>4. s = SessionOf(id, 0, 0, sheet.rows, owners, sheet.selected, <<>>, Build(u))
  <2>1. PICK v : v = Build(u)
    OBVIOUS
  <2> QED
    BY <1>3, <2>1, FieldReplaced
<1>5. WellFormed(u)
  BY <1>1, <1>2 DEF WellFormed, SessionOf
<1>6. PICK v : v = Build(u)
  OBVIOUS
<1>7. s = SessionOf(id, 0, 0, sheet.rows, owners, sheet.selected, <<>>, v)
  BY <1>4, <1>6
<1>8. /\ s.id = id /\ s.revision = 0 /\ s.exported = 0 /\ s.source = sheet.rows
      /\ s.owners = owners /\ s.selected = sheet.selected /\ s.marks = <<>> /\ s.view = v
  BY <1>7 DEF SessionOf
<1>9. WellFormed(s)
  BY <1>1, <1>2, <1>7 DEF WellFormed, SessionOf
<1>10. /\ u.source = sheet.rows /\ u.owners = owners /\ u.selected = sheet.selected /\ u.marks = <<>>
  BY DEF SessionOf
<1> HIDE DEF u
<1>11. Build(s) = Build(u)
  BY <1>5, <1>8, <1>9, <1>10, BuildFrame
<1>12. Marked(s)
  <2>1. DOMAIN s.marks = {} /\ s.marks = [i \in {} |-> s.marks[i]]
    BY <1>8
  <2> QED
    BY <2>1 DEF Marked
<1> QED
  BY <1>6, <1>8, <1>9, <1>11, <1>12 DEF New, Proper

-----------------------------------------------------------------------------
(* Whose reference a row shows                                             *)

Ranges == [first : Nat, last : Nat, left : Nat, right : Nat]
Relevant(merges, c) == {i \in DOMAIN merges : Covers(merges[i], c)}
MergeBefore(merges, i, j) ==
  \/ merges[i].first < merges[j].first
  \/ merges[i].first = merges[j].first /\ i < j
Preceding(merges, S, i) == {j \in S : MergeBefore(merges, j, i)}
Scanned(merges, S, k) ==
  CHOOSE x \in S : Cardinality({y \in S : MergeBefore(merges, y, x)}) = k - 1

LEMMA RelevantAre ==
  ASSUME NEW merges \in Seq(Ranges), NEW c
  PROVE  /\ Relevant(merges, c) \in SUBSET Nat /\ IsFiniteSet(Relevant(merges, c))
         /\ \A i \in Relevant(merges, c) : merges[i] \in Ranges
<1>1. DOMAIN merges = 1..Len(merges) /\ Len(merges) \in Nat
  OBVIOUS
<1>2. Relevant(merges, c) \in SUBSET (1..Len(merges))
  BY <1>1 DEF Relevant
<1>3. IsFiniteSet(1..Len(merges))
  BY <1>1, Interval
<1> QED
  BY <1>1, <1>2, <1>3, FS_Subset

\* The scan meets every merge over the column once, by first row.
ScanMeets(merges, S, n) ==
  /\ n \in Nat
  /\ \A k \in 1..n : Scanned(merges, S, k) \in S
  /\ \A x \in S : \E k \in 1..n : Scanned(merges, S, k) = x
  /\ \A j, k \in 1..n :
       j < k => merges[Scanned(merges, S, j)].first <= merges[Scanned(merges, S, k)].first

LEMMA ScannedIs ==
  ASSUME NEW merges \in Seq(Ranges), NEW S \in SUBSET Nat, IsFiniteSet(S),
         \A i \in S : merges[i] \in Ranges
  PROVE  ScanMeets(merges, S, Cardinality(S))
<1> DEFINE R == {p \in S \X S : MergeBefore(merges, p[1], p[2])}  n == Cardinality(S)
           Rank(x) == Cardinality(Preceding(merges, S, x))
<1>1. n \in Nat
  BY FS_CardinalityType
<1>2. \A x, y \in S : <<x, y>> \in R <=> MergeBefore(merges, x, y)
  OBVIOUS
<1>3. /\ \A x \in S : ~MergeBefore(merges, x, x)
      /\ \A x, y \in S : x # y => MergeBefore(merges, x, y) \/ MergeBefore(merges, y, x)
      /\ \A x, y, z \in S : MergeBefore(merges, x, y) /\ MergeBefore(merges, y, z) =>
                              MergeBefore(merges, x, z)
  <2>1. \A x \in S : x \in Nat /\ merges[x].first \in Nat
    BY DEF Ranges
  <2> QED
    BY <2>1 DEF MergeBefore
<1> HIDE DEF R
<1>4. \A k \in 1..n : \E x \in S : Cardinality(Below(S, R, x)) = k - 1
  BY <1>2, <1>3, RanksAreTaken
<1>5. \A x \in S : Below(S, R, x) = Preceding(merges, S, x)
  BY <1>2 DEF Below, Preceding
<1>6. \A k \in 1..n : \E x \in S : Cardinality({y \in S : MergeBefore(merges, y, x)}) = k - 1
  BY <1>4, <1>5 DEF Preceding
<1>7. ASSUME NEW k \in 1..n
      PROVE  Scanned(merges, S, k) \in S /\ Rank(Scanned(merges, S, k)) = k - 1
  BY <1>6 DEF Scanned, Preceding
<1>8. ASSUME NEW x \in S, NEW y \in S, MergeBefore(merges, x, y)
      PROVE  Rank(x) \in Nat /\ Rank(y) \in Nat /\ Rank(x) < Rank(y)
  <2>1. \A z \in S : MergeBefore(merges, z, x) => MergeBefore(merges, z, y)
    BY <1>3, <1>8
  <2>2. Preceding(merges, S, x) \in SUBSET Preceding(merges, S, y)
    BY <2>1 DEF Preceding
  <2>3. x \in Preceding(merges, S, y) /\ x \notin Preceding(merges, S, x)
    BY <1>3, <1>8 DEF Preceding
  <2>4. Preceding(merges, S, y) \in SUBSET S
    BY DEF Preceding
  <2>5. IsFiniteSet(Preceding(merges, S, y)) /\ IsFiniteSet(Preceding(merges, S, x))
    BY <2>2, <2>4, FS_Subset
  <2>6. /\ Rank(x) \in Nat /\ Rank(y) \in Nat /\ Rank(x) <= Rank(y)
        /\ Rank(x) = Rank(y) => Preceding(merges, S, x) = Preceding(merges, S, y)
    BY <2>2, <2>5, FS_Subset, FS_CardinalityType
  <2> QED
    BY <2>3, <2>6
<1>9. ASSUME NEW x \in S
      PROVE  \E k \in 1..n : Scanned(merges, S, k) = x
  <2> DEFINE k == Rank(x) + 1
  <2>1. Preceding(merges, S, x) \in SUBSET S /\ x \notin Preceding(merges, S, x)
    BY <1>3 DEF Preceding
  <2>2. Rank(x) \in Nat /\ Rank(x) < n
    <3>1. IsFiniteSet(Preceding(merges, S, x)) /\ Rank(x) \in Nat
      BY <2>1, FS_Subset, FS_CardinalityType
    <3>2. Rank(x) <= n /\ (Rank(x) = n => Preceding(merges, S, x) = S)
      BY <2>1, FS_Subset
    <3> QED
      BY <1>1, <2>1, <3>1, <3>2
  <2>3. k \in 1..n
    BY <1>1, <2>2
  <2>4. PICK y : y = Scanned(merges, S, k)
    OBVIOUS
  <2>5. y \in S /\ Rank(y) = Rank(x)
    BY <1>7, <2>2, <2>3, <2>4
  <2>6. ~(Rank(x) < Rank(y)) /\ ~(Rank(y) < Rank(x))
    BY <2>2, <2>5
  <2>7. ~MergeBefore(merges, x, y) /\ ~MergeBefore(merges, y, x)
    <3> HIDE DEF Rank
    <3> QED
      BY <1>8, <2>5, <2>6
  <2>8. y = x
    BY <1>3, <2>5, <2>7
  <2> QED
    BY <2>3, <2>4, <2>8
<1>10. ASSUME NEW j \in 1..n, NEW k \in 1..n, j < k
       PROVE  merges[Scanned(merges, S, j)].first <= merges[Scanned(merges, S, k)].first
  <2>1. PICK x, y : x = Scanned(merges, S, j) /\ y = Scanned(merges, S, k)
    OBVIOUS
  <2>2. x \in S /\ y \in S /\ Rank(x) = j - 1 /\ Rank(y) = k - 1
    BY <1>7, <2>1
  <2>3. ~MergeBefore(merges, y, x)
    <3> SUFFICES ASSUME MergeBefore(merges, y, x)
                 PROVE  FALSE
      OBVIOUS
    <3>1. Rank(y) < Rank(x)
      BY <1>8, <2>2
    <3> HIDE DEF Rank
    <3> QED
      BY <1>1, <1>10, <2>2, <3>1
  <2>4. x # y
    <3> HIDE DEF Rank
    <3> QED
      BY <1>1, <1>10, <2>2
  <2>5. MergeBefore(merges, x, y)
    BY <1>3, <2>2, <2>3, <2>4
  <2>6. merges[x].first \in Nat /\ merges[y].first \in Nat
    BY <2>2 DEF Ranges
  <2> QED
    BY <2>1, <2>5, <2>6 DEF MergeBefore
<1> QED
  BY <1>1, <1>7, <1>9, <1>10 DEF ScanMeets


\* The scan of Conflicts, which has met the first k merges over the column after k steps.
NoGroup == [last |-> 0, group |-> {}, conflicts |-> {}]
ScanOrder(merges, S) == [k \in 1..Cardinality(S) |-> Scanned(merges, S, k)]
IsScan(merges, order, f, n) ==
  f = [k \in 0..n |-> IF k = 0 THEN NoGroup ELSE Grouped(f[k - 1], merges, order[k])]
Scan(merges, order) == CHOOSE f : IsScan(merges, order, f, Len(order))
Groups(S) == [last : Nat, group : SUBSET S, conflicts : SUBSET S]

\* Merge i has joined the group, or has begun one.
Joined(merges, acc, i, next) ==
  /\ i \in next.group /\ acc.conflicts \in SUBSET next.conflicts
  /\ merges[i].last <= next.last
  /\ merges[i].first <= acc.last =>
       /\ acc.last <= next.last /\ acc.group \in SUBSET next.group
       /\ acc.group \cup {i} \in SUBSET next.conflicts

LEMMA GroupedIs ==
  ASSUME NEW merges, NEW S, NEW acc \in Groups(S), NEW i \in S, merges[i] \in Ranges,
         NEW next, next = Grouped(acc, merges, i)
  PROVE  next \in Groups(S) /\ Joined(merges, acc, i, next)
<1>1. /\ acc.last \in Nat /\ acc.group \in SUBSET S /\ acc.conflicts \in SUBSET S
      /\ merges[i].last \in Nat /\ merges[i].first \in Nat
  BY DEF Groups, Ranges
<1>2. PICK reach : reach = Reach(acc, merges[i])
  OBVIOUS
<1>3. reach \in Nat /\ acc.last <= reach /\ merges[i].last <= reach
  <2>1. reach = IF acc.last >= merges[i].last THEN acc.last ELSE merges[i].last
    BY <1>1, <1>2, LargerOf DEF Reach
  <2> QED
    BY <1>1, <2>1
<1>4. CASE merges[i].first <= acc.last
  <2>1. next = [last |-> reach, group |-> acc.group \cup {i},
                conflicts |-> acc.conflicts \cup acc.group \cup {i}]
    BY <1>2, <1>4 DEF Grouped
  <2> QED
    BY <1>1, <1>3, <2>1 DEF Groups, Joined
<1>5. CASE ~(merges[i].first <= acc.last)
  <2>1. next = [last |-> merges[i].last, group |-> {i}, conflicts |-> acc.conflicts]
    BY <1>5 DEF Grouped
  <2> QED
    BY <1>1, <1>5, <2>1 DEF Groups, Joined
<1> QED
  BY <1>4, <1>5

LEMMA ScanIs ==
  ASSUME NEW merges \in Seq(Ranges), NEW c, NEW S, S = Relevant(merges, c), NEW n, n = Cardinality(S)
  PROVE  \E f : /\ f[0] = NoGroup
                /\ \A k \in 1..n : f[k] = Grouped(f[k - 1], merges, Scanned(merges, S, k))
                /\ \A k \in 0..n : f[k] \in Groups(S)
                /\ Conflicts(merges, c) = f[n].conflicts
<1>1. S \in SUBSET Nat /\ IsFiniteSet(S) /\ \A i \in S : merges[i] \in Ranges
  BY RelevantAre
<1>2. n \in Nat /\ \A k \in 1..n : Scanned(merges, S, k) \in S
  BY <1>1, ScannedIs DEF ScanMeets
<1>3. PICK order : order = ScanOrder(merges, S)
  OBVIOUS
<1>4. Len(order) = n /\ \A k \in 1..n : order[k] = Scanned(merges, S, k)
  <2>1. order \in [1..n -> S]
    BY <1>2, <1>3 DEF ScanOrder
  <2>2. order \in Seq(S)
    BY <1>2, <2>1
  <2> QED
    BY <1>2, <1>3, <2>1, <2>2 DEF ScanOrder
<1>5. NoGroup \in Groups(S)
  BY DEF NoGroup, Groups
<1> DEFINE step == [p \in Groups(S) \X (1..n) |-> Grouped(p[1], merges, order[p[2]])]
<1>6. ASSUME NEW x \in Groups(S), NEW k \in 1..n
      PROVE  step[<<x, k>>] = Grouped(x, merges, order[k]) /\ step[<<x, k>>] \in Groups(S)
  <2>1. step[<<x, k>>] = Grouped(x, merges, order[k])
    OBVIOUS
  <2> HIDE DEF step
  <2>2. order[k] \in S /\ merges[order[k]] \in Ranges
    BY <1>1, <1>2, <1>4
  <2> QED
    BY <2>1, <2>2, GroupedIs
<1>7. PICK g : IsRun(g, NoGroup, step, n)
  BY <1>2, RunExists
<1> HIDE DEF step
<1>8. \A k \in 0..n : g[k] \in Groups(S)
  BY <1>2, <1>5, <1>6, <1>7, RunStays
<1>9. ASSUME NEW k \in 0..n
      PROVE  g[k] = IF k = 0 THEN NoGroup ELSE Grouped(g[k - 1], merges, order[k])
  <2>1. g[k] = IF k = 0 THEN NoGroup ELSE step[<<g[k - 1], k>>]
    BY <1>2, <1>7, RunIs
  <2>2. k # 0 => k \in 1..n /\ g[k - 1] \in Groups(S)
    BY <1>2, <1>8
  <2> QED
    BY <1>6, <2>1, <2>2
<1>10. \E f : IsScan(merges, order, f, n)
  <2>1. g = [k \in 0..n |-> g[k]]
    BY <1>7 DEF IsRun
  <2>2. IsScan(merges, order, g, n)
    BY <1>9, <2>1 DEF IsScan
  <2> QED
    BY <2>2
<1>11. PICK f : f = Scan(merges, order)
  OBVIOUS
<1>12. IsScan(merges, order, f, n)
  BY <1>4, <1>10, <1>11 DEF Scan
<1>13. ASSUME NEW k \in 0..n
       PROVE  f[k] = IF k = 0 THEN NoGroup ELSE Grouped(f[k - 1], merges, order[k])
  <2>1. PICK h : h = f
    OBVIOUS
  <2>2. f = [j \in 0..n |-> IF j = 0 THEN NoGroup ELSE Grouped(h[j - 1], merges, order[j])]
    BY <1>12, <2>1 DEF IsScan
  <2> QED
    BY <2>1, <2>2
<1>14. f[0] = NoGroup
  <2>1. 0 \in 0..n
    BY <1>2
  <2> QED
    BY <1>13, <2>1
<1>15. \A k \in 0..n : f[k] \in Groups(S)
  <2> DEFINE T == {k \in 0..n : f[k] \in Groups(S)}
  <2>1. 0 \in T
    BY <1>2, <1>5, <1>14
  <2>2. ASSUME NEW k \in 1..n, k - 1 \in T
        PROVE  k \in T
    <3>1. f[k] = Grouped(f[k - 1], merges, order[k]) /\ f[k - 1] \in Groups(S)
      BY <1>2, <1>13, <2>2
    <3>2. order[k] \in S /\ merges[order[k]] \in Ranges
      BY <1>1, <1>2, <1>4
    <3>3. f[k] \in Groups(S)
      BY <3>1, <3>2, GroupedIs
    <3> QED
      BY <3>3
  <2>3. \A k \in 0..n : k \in T
    <3> HIDE DEF T
    <3> QED
      BY <1>2, <2>1, <2>2, CountingUp
  <2> QED
    BY <2>3
<1>16. Conflicts(merges, c) = f[n].conflicts
  <2>1. Conflicts(merges, c) = f[Len(order)].conflicts
    BY <1>3, <1>11 DEF Conflicts, InOrder, Scan, IsScan, ScanOrder, Scanned, MergeBefore, Relevant, NoGroup
  <2> QED
    BY <1>4, <2>1
<1>17. \A k \in 1..n : f[k] = Grouped(f[k - 1], merges, Scanned(merges, S, k))
  BY <1>2, <1>4, <1>13
<1> QED
  BY <1>14, <1>15, <1>16, <1>17

LEMMA NotBeyond ==
  ASSUME NEW p \in Nat, NEW q \in Nat, NEW r \in Nat, p <= q, q <= r
  PROVE  p <= r
OBVIOUS

\* A merge of the group that reaches the next merge is in conflict with it.
LEMMA GroupReaches ==
  ASSUME NEW merges, NEW S, NEW acc \in Groups(S), NEW x, merges[x] \in Ranges, NEW z \in S,
         merges[z] \in Ranges, x \in acc.group, merges[x].last <= acc.last,
         merges[z].first <= merges[x].last, NEW next, next = Grouped(acc, merges, z)
  PROVE  /\ x \in next.group /\ merges[x].last <= next.last
         /\ x \in next.conflicts /\ z \in next.conflicts
<1>1. next \in Groups(S) /\ Joined(merges, acc, z, next)
  BY GroupedIs
<1>2. /\ acc.last \in Nat /\ next.last \in Nat
      /\ merges[x].last \in Nat /\ merges[z].first \in Nat
  BY <1>1 DEF Groups, Ranges
<1>3. merges[z].first <= acc.last
  BY <1>2, NotBeyond
<1>4. acc.last <= next.last /\ x \in next.group /\ {x, z} \in SUBSET next.conflicts
  BY <1>1, <1>3 DEF Joined
<1> QED
  BY <1>2, <1>4, NotBeyond

\* Two merges that reach the same row are in conflict: the group that the first one is
\* put in still reaches the second when the scan meets that one.
LEMMA OverlapsConflict ==
  ASSUME NEW merges \in Seq(Ranges), NEW c, NEW i \in DOMAIN merges, NEW j \in DOMAIN merges, i # j,
         Covers(merges[i], c), Covers(merges[j], c), NEW row \in Nat,
         merges[i].first <= row, row <= merges[i].last,
         merges[j].first <= row, row <= merges[j].last
  PROVE  i \in Conflicts(merges, c)
<1>1. PICK S, n : S = Relevant(merges, c) /\ n = Cardinality(S)
  OBVIOUS
<1>2. i \in S /\ j \in S
  BY <1>1 DEF Relevant
<1>3. S \in SUBSET Nat /\ IsFiniteSet(S) /\ \A x \in S : merges[x] \in Ranges
  BY <1>1, RelevantAre
<1>4. /\ n \in Nat
      /\ \A k \in 1..n : Scanned(merges, S, k) \in S
      /\ \A x \in S : \E k \in 1..n : Scanned(merges, S, k) = x
      /\ \A p, q \in 1..n :
           p < q => merges[Scanned(merges, S, p)].first <= merges[Scanned(merges, S, q)].first
  <2>1. ScanMeets(merges, S, n)
    BY <1>1, <1>3, ScannedIs
  <2> QED
    BY <2>1 DEF ScanMeets
<1>5. PICK f : /\ f[0] = NoGroup
               /\ \A k \in 1..n : f[k] = Grouped(f[k - 1], merges, Scanned(merges, S, k))
               /\ \A k \in 0..n : f[k] \in Groups(S)
               /\ Conflicts(merges, c) = f[n].conflicts
  BY <1>1, ScanIs
<1>6. PICK a \in 1..n, b \in 1..n :
        a < b /\ {Scanned(merges, S, a), Scanned(merges, S, b)} = {i, j}
  <2>1. PICK p \in 1..n, q \in 1..n : Scanned(merges, S, p) = i /\ Scanned(merges, S, q) = j
    BY <1>2, <1>4
  <2>2. p < q \/ q < p
    BY <2>1
  <2> QED
    BY <2>1, <2>2
<1>7. PICK x, y : x = Scanned(merges, S, a) /\ y = Scanned(merges, S, b)
  OBVIOUS
<1>8. x \in S /\ y \in S /\ merges[y].first <= row /\ row <= merges[x].last
  BY <1>2, <1>6, <1>7
<1> DEFINE Holds(k) == /\ a <= k /\ k < b => x \in f[k].group /\ merges[x].last <= f[k].last
                       /\ b <= k => {x, y} \in SUBSET f[k].conflicts
           T == {k \in 0..n : Holds(k)}
<1>9. 0 \in T
  BY <1>4
<1>10. ASSUME NEW k \in 1..n, k - 1 \in T
       PROVE  k \in T
  <2>1. PICK z, acc, next : z = Scanned(merges, S, k) /\ acc = f[k - 1] /\ next = f[k]
    OBVIOUS
  <2>2. /\ k - 1 \in 0..n /\ k \in 0..n /\ k \in Nat /\ a \in Nat /\ b \in Nat
        /\ a <= k - 1 /\ k - 1 < b => x \in acc.group /\ merges[x].last <= acc.last
        /\ b <= k - 1 => {x, y} \in SUBSET acc.conflicts
    BY <1>4, <1>10, <2>1
  <2>3. SUFFICES /\ a <= k /\ k < b => x \in next.group /\ merges[x].last <= next.last
                 /\ b <= k => {x, y} \in SUBSET next.conflicts
    BY <2>1, <2>2
  <2> HIDE DEF T, Holds
  <2>4. z \in S /\ merges[z] \in Ranges
    BY <1>3, <1>4, <2>1
  <2>5. acc \in Groups(S) /\ next = Grouped(acc, merges, z)
    BY <1>5, <2>1, <2>2
  <2>6. next \in Groups(S) /\ Joined(merges, acc, z, next)
    BY <2>4, <2>5, GroupedIs
  <2>7. /\ acc.last \in Nat /\ next.last \in Nat
        /\ merges[x].last \in Nat /\ merges[y].first \in Nat /\ merges[z].first \in Nat
    BY <1>3, <1>8, <2>4, <2>5, <2>6 DEF Groups, Ranges
  <2>8. CASE k < a
    BY <1>6, <2>2, <2>8
  <2>9. CASE k = a
    <3>1. z = x
      BY <1>7, <2>1, <2>9
    <3> QED
      BY <1>6, <2>2, <2>6, <2>9, <3>1 DEF Joined
  <2>10. CASE a < k /\ k <= b
    <3>1. x \in acc.group /\ merges[x].last <= acc.last
      BY <2>2, <2>10
    <3>2. merges[z].first <= merges[y].first
      <4>1. CASE k = b
        <5>1. z = y
          BY <1>7, <2>1, <4>1
        <5> QED
          BY <2>7, <5>1
      <4>2. CASE k < b
        BY <1>4, <1>7, <2>1, <4>2
      <4> QED
        BY <2>2, <2>10, <4>1, <4>2
    <3>3. merges[z].first <= merges[x].last
      <4>1. merges[z].first <= row
        BY <1>8, <2>7, <3>2, NotBeyond
      <4> QED
        BY <1>8, <2>7, <4>1, NotBeyond
    <3>4. x \in next.group /\ merges[x].last <= next.last /\ x \in next.conflicts /\ z \in next.conflicts
      BY <1>3, <1>8, <2>4, <2>5, <3>1, <3>3, GroupReaches
    <3>5. b <= k => z = y
      BY <1>7, <2>1, <2>2, <2>10
    <3> QED
      BY <3>4, <3>5
  <2>11. CASE b < k
    <3>1. x \in acc.conflicts /\ y \in acc.conflicts
      BY <2>2, <2>11
    <3> QED
      BY <2>2, <2>6, <2>11, <3>1 DEF Joined
  <2> QED
    BY <2>2, <2>8, <2>9, <2>10, <2>11
<1>11. \A k \in 0..n : k \in T
  <2> HIDE DEF T
  <2> QED
    BY <1>4, <1>9, <1>10, CountingUp
<1>12. {x, y} \in SUBSET f[n].conflicts
  <2>1. n \in T
    <3> HIDE DEF T
    <3> QED
      BY <1>4, <1>11
  <2> QED
    BY <1>6, <2>1
<1> QED
  BY <1>5, <1>6, <1>7, <1>12

\* Why row r shows the reference of row a: one merge that is in no conflict says so.
Lends(sheet, c, i, r, a) ==
  /\ i \in DOMAIN sheet.merges /\ i \notin Conflicts(sheet.merges, c)
  /\ Covers(sheet.merges[i], c) /\ sheet.merges[i].left = sheet.merges[i].right
  /\ sheet.merges[i].first = sheet.excel[a] /\ sheet.excel[a] > sheet.header
  /\ sheet.merges[i].first <= sheet.merges[i].last
  /\ sheet.merges[i].first <= sheet.excel[r] /\ sheet.excel[r] <= sheet.merges[i].last
  /\ Cell(sheet.rows, r, c) \in {Empty, Cell(sheet.rows, a, c)}
Lent(sheet, c, owners) ==
  \A r \in DOMAIN sheet.rows : owners[r] # r =>
    owners[r] \in DOMAIN sheet.rows /\ \E i : Lends(sheet, c, i, r, owners[r])

LEMMA ProjectKeepsLent ==
  ASSUME NEW sheet, NEW c, NEW acc, Lent(sheet, c, acc.owners), NEW i \in DOMAIN sheet.merges,
         \A r \in DOMAIN sheet.rows : \A q \in DOMAIN sheet.rows \ {r} : sheet.excel[q] # sheet.excel[r],
         NEW next, next = Project(sheet, c, acc, i)
  PROVE  Lent(sheet, c, next.owners)
<1> DEFINE D == DOMAIN sheet.rows
           merge == sheet.merges[i]
           anchors == {r \in D : sheet.excel[r] = merge.first}
           covered == {r \in D : merge.first <= sheet.excel[r] /\ sheet.excel[r] <= merge.last}
           valid == \E a \in anchors :
                      /\ merge.first > sheet.header /\ merge.first <= merge.last
                      /\ Cell(sheet.rows, a, c) # Empty
                      /\ \A r \in covered : /\ r \notin acc.projected
                                            /\ Cell(sheet.rows, r, c) \in {Empty, Cell(sheet.rows, a, c)}
           applies == /\ Covers(merge, c) /\ merge.left = merge.right
                      /\ i \notin Conflicts(sheet.merges, c)
                      /\ valid
           owners == [r \in D |-> IF r \in covered THEN CHOOSE a \in anchors : TRUE ELSE acc.owners[r]]
<1>1. next = IF applies THEN [owners |-> owners, projected |-> acc.projected \cup covered] ELSE acc
  BY DEF Project
<1>2. ASSUME applies
      PROVE  Lent(sheet, c, owners)
  <2>1. PICK a \in anchors :
          /\ merge.first > sheet.header /\ merge.first <= merge.last
          /\ \A r \in covered : Cell(sheet.rows, r, c) \in {Empty, Cell(sheet.rows, a, c)}
    BY <1>2
  <2>2. PICK first : first = CHOOSE e \in anchors : TRUE
    OBVIOUS
  <2>3. first \in anchors
    <3> HIDE DEF anchors
    <3> QED
      BY <2>1, <2>2
  <2>4. first = a
    BY <2>1, <2>3
  <2>5. ASSUME NEW r \in D, owners[r] # r
        PROVE  owners[r] \in D /\ \E e : Lends(sheet, c, e, r, owners[r])
    <3>1. ASSUME r \in covered
          PROVE  owners[r] \in D /\ Lends(sheet, c, i, r, owners[r])
      <4>1. owners[r] = a /\ a \in D /\ sheet.excel[a] = merge.first
        BY <2>1, <2>2, <2>4, <3>1
      <4> HIDE DEF owners
      <4> QED
        BY <1>2, <2>1, <3>1, <4>1 DEF Lends
    <3>2. ASSUME r \notin covered
          PROVE  owners[r] \in D /\ \E e : Lends(sheet, c, e, r, owners[r])
      <4>1. owners[r] = acc.owners[r]
        BY <3>2
      <4> HIDE DEF owners
      <4> QED
        BY <2>5, <4>1 DEF Lent
    <3> QED
      BY <3>1, <3>2
  <2> HIDE DEF owners
  <2> QED
    BY <2>5 DEF Lent
<1> HIDE DEF applies, owners
<1> QED
  BY <1>1, <1>2

LEMMA OwnersAreLent ==
  ASSUME NEW sheet, Len(sheet.merges) \in Nat, DOMAIN sheet.merges = 1..Len(sheet.merges), NEW c,
         \A r \in DOMAIN sheet.rows : \A q \in DOMAIN sheet.rows \ {r} : sheet.excel[q] # sheet.excel[r]
  PROVE  Lent(sheet, c, ReferenceOwners(sheet, c))
<1> DEFINE N == Len(sheet.merges)
<1>1. PICK f : f = Projections(sheet, c)
  OBVIOUS
<1>2. /\ \A i \in 0..N : f[i] = IF i = 0 THEN Own(sheet) ELSE Project(sheet, c, f[i - 1], i)
      /\ ReferenceOwners(sheet, c) = IF c = NoColumn THEN Own(sheet).owners ELSE f[N].owners
  BY <1>1, ProjectionsAre
<1>3. Lent(sheet, c, Own(sheet).owners)
  BY DEF Lent, Own
<1> DEFINE T == {i \in 0..N : Lent(sheet, c, f[i].owners)}
<1>4. 0 \in T
  <2>1. 0 \in 0..N
    OBVIOUS
  <2>2. f[0] = Own(sheet)
    <3> HIDE DEF T
    <3> QED
      BY <1>2, <2>1
  <2> QED
    BY <1>3, <2>1, <2>2
<1>5. ASSUME NEW i \in 1..N, i - 1 \in T
      PROVE  i \in T
  <2>1. f[i] = Project(sheet, c, f[i - 1], i) /\ Lent(sheet, c, f[i - 1].owners)
    BY <1>2, <1>5
  <2>2. Lent(sheet, c, f[i].owners)
    BY <2>1, ProjectKeepsLent
  <2> QED
    BY <2>2
<1>6. \A i \in 0..N : i \in T
  <2> HIDE DEF T
  <2> QED
    BY <1>4, <1>5, CountingUp
<1>7. Lent(sheet, c, f[N].owners)
  BY <1>6
<1> QED
  BY <1>2, <1>3, <1>7

-----------------------------------------------------------------------------
(* What a workbook holds                                                   *)

\* Every text and every marked result of the session is in the view.
Within(s, view) ==
  /\ Len(view) = Len(s.view)
  /\ \A d \in DOMAIN s.view :
       /\ s.view[d].reference = view[d].reference
       /\ s.view[d].text = view[d].text
       /\ \A c \in s.selected.plays : s.view[d].result[c] \in {"blank", view[d].result[c]}

\* An edit that leaves every source cell as it was can only take results away.
LEMMA FewerResults ==
  ASSUME NEW s, Proper(s), NEW t, Proper(t),
         t.source = s.source, t.owners = s.owners, t.selected = s.selected,
         DOMAIN t.marks \in SUBSET DOMAIN s.marks,
         \A id \in DOMAIN t.marks : t.marks[id] = s.marks[id]
  PROVE  /\ Within(t, s.view) /\ DOMAIN t.view = DOMAIN s.view
<1>1. WellFormed(s) /\ s.view = Build(s) /\ WellFormed(t) /\ t.view = Build(t)
  BY DEF Proper
<1>2. \A q : Reference(t, q) = Reference(s, q)
  BY DEF Reference
<1>3. \A q, e : SegmentsOf(t, q, e) = SegmentsOf(s, q, e)
  BY DEF SegmentsOf
<1>4. Positions(t) = Positions(s)
  BY <1>1, <1>2, <1>3, SamePositions
<1>5. /\ DOMAIN Build(t) = DOMAIN Build(s) /\ Len(Build(t)) = Len(Build(s))
  BY <1>1, <1>4, ViewIsSequence
<1>6. ASSUME NEW d \in DOMAIN t.view
      PROVE  /\ t.view[d].reference = s.view[d].reference
             /\ t.view[d].text = s.view[d].text
             /\ \A c \in t.selected.plays : t.view[d].result[c] \in {"blank", s.view[d].result[c]}
  <2>1. PICK r, k : r = At(s, d)[1] /\ k = At(s, d)[2]
    OBVIOUS
  <2>2. At(t, d) = At(s, d)
    BY <1>4 DEF At
  <2>3. d \in DOMAIN Build(s) /\ d \in DOMAIN Build(t)
    BY <1>1, <1>5
  <2>4. s.view[d] = DisplayRow(s, r, k) /\ t.view[d] = DisplayRow(t, r, k)
    BY <1>1, <2>1, <2>2, <2>3, ViewRow
  <2>5. TextRow(t, r, k) = TextRow(s, r, k)
    BY <1>3 DEF TextRow
  <2>6. ASSUME NEW c \in t.selected.plays
        PROVE  ResultRow(t, r, k)[c] \in {"blank", ResultRow(s, r, k)[c]}
    <3>1. SegmentsOf(t, r, c) = SegmentsOf(s, r, c)
      BY <1>3
    <3> QED
      BY <3>1 DEF ResultRow
  <2>7. /\ t.view[d].reference = Reference(t, r) /\ s.view[d].reference = Reference(s, r)
        /\ t.view[d].text = TextRow(t, r, k) /\ s.view[d].text = TextRow(s, r, k)
        /\ t.view[d].result = ResultRow(t, r, k) /\ s.view[d].result = ResultRow(s, r, k)
    BY <2>4, RowFields
  <2> QED
    BY <1>2, <2>5, <2>6, <2>7
<1> QED
  BY <1>1, <1>5, <1>6 DEF Within

LEMMA WithinIsTransitive ==
  ASSUME NEW s, NEW t, NEW view, Within(t, s.view), Within(s, view),
         DOMAIN t.view = DOMAIN s.view, t.selected = s.selected
  PROVE  Within(t, view)
<1>1. Len(view) = Len(t.view)
  BY DEF Within
<1>2. ASSUME NEW d \in DOMAIN t.view
      PROVE  /\ t.view[d].reference = view[d].reference
             /\ t.view[d].text = view[d].text
             /\ \A c \in t.selected.plays : t.view[d].result[c] \in {"blank", view[d].result[c]}
  BY DEF Within
<1> QED
  BY <1>1, <1>2 DEF Within

LEMMA WithinItself ==
  ASSUME NEW s
  PROVE  Within(s, s.view)
BY DEF Within

\* Exporting changes nothing of a session but the revision that counts as exported.
LEMMA MarkExportedIs ==
  ASSUME NEW s, Proper(s), NEW id, NEW revision \in Nat, NEW t, t = MarkExported(s, id, revision)
  PROVE  /\ Proper(t) /\ t.id = s.id /\ t.revision = s.revision /\ t.view = s.view
         /\ t.source = s.source /\ t.owners = s.owners /\ t.selected = s.selected /\ t.marks = s.marks
         /\ \/ t.exported = s.exported
            \/ t.exported = revision
         /\ s.exported <= t.exported
<1>1. /\ s = SessionOf(s.id, s.revision, s.exported, s.source, s.owners, s.selected, s.marks, s.view)
      /\ s.exported \in Nat
  BY DEF Proper, WellFormed, SessionOf
<1> DEFINE m == Max({s.exported, revision})
<1>2. m = IF s.exported >= revision THEN s.exported ELSE revision
  BY <1>1, LargerOf
<1>3. t = s \/ t = [s EXCEPT !.exported = m]
  BY DEF MarkExported
<1> HIDE DEF m
<1>4. m \in Nat /\ m \in {s.exported, revision} /\ s.exported <= m
  BY <1>1, <1>2
<1>5. ASSUME t = [s EXCEPT !.exported = m]
      PROVE  t = SessionOf(s.id, s.revision, m, s.source, s.owners, s.selected, s.marks, s.view)
  <2>1. PICK a, b, e, f, g, h, i, j : s = SessionOf(a, b, e, f, g, h, i, j)
    BY <1>1
  <2>2. /\ s.id = a /\ s.revision = b /\ s.source = f /\ s.owners = g /\ s.selected = h
        /\ s.marks = i /\ s.view = j
    BY <2>1 DEF SessionOf
  <2>3. t = SessionOf(a, b, m, f, g, h, i, j)
    BY <1>5, <2>1 DEF SessionOf
  <2> QED
    BY <2>2, <2>3
<1>6. ASSUME t = [s EXCEPT !.exported = m]
      PROVE  /\ t.id = s.id /\ t.revision = s.revision /\ t.view = s.view
             /\ t.source = s.source /\ t.owners = s.owners /\ t.selected = s.selected
             /\ t.marks = s.marks /\ t.exported = m /\ WellFormed(t)
  <2>1. /\ t.id = s.id /\ t.revision = s.revision /\ t.view = s.view
        /\ t.source = s.source /\ t.owners = s.owners /\ t.selected = s.selected
        /\ t.marks = s.marks /\ t.exported = m
    BY <1>5, <1>6 DEF SessionOf
  <2> QED
    BY <1>4, <1>5, <1>6, <2>1 DEF Proper, WellFormed, SessionOf
<1>7. ASSUME t = [s EXCEPT !.exported = m]
      PROVE  Proper(t)
  <2>1. Build(t) = Build(s)
    BY <1>6, <1>7, BuildFrame DEF Proper
  <2>2. Marked(t)
    BY <1>6, <1>7 DEF Proper, Marked
  <2> QED
    BY <1>6, <1>7, <2>1, <2>2 DEF Proper
<1> QED
  BY <1>1, <1>3, <1>4, <1>6, <1>7

-----------------------------------------------------------------------------
(* The invariant                                                           *)

\* The text and the reference a result was given for are the ones it stands at.
StandsFor(s, mark, id) ==
  /\ id[3] <= Len(SegmentsOf(s, id[1], id[2]))
  /\ mark.text = SegmentsOf(s, id[1], id[2])[id[3]]
  /\ s.selected.reference # NoColumn => mark.reference = Reference(s, id[1])

\* An export, or the workbook it wrote, is a copy of this session or of an earlier
\* revision of it; a copy of this revision has every text and result it has now.
CopyOf(s, copy) ==
  /\ DOMAIN copy = {"stage", "id", "revision", "view"}
  /\ copy.id = s.id /\ copy.revision \in Nat /\ copy.revision <= s.revision
  /\ copy.revision = s.revision => Within(s, copy.view)

ShownInv == Proper(session) /\ grid = session.view
JudgedInv == \A id \in DOMAIN session.marks : StandsFor(session, judged[id], id)
SavedInv == saved.stage = "written" => CopyOf(session, saved)
ExportedInv ==
  session.exported # 0 => saved.stage = "written" /\ session.exported <= saved.revision
PlayedInv ==
  playing # None /\ playing.session = session.id =>
    \A d \in DOMAIN playing.texts :
      d \in DOMAIN session.view /\ session.view[d].text[playing.column] = playing.texts[d]
ExportInv ==
  Exporting => /\ ~closing /\ export.stage \in {"running", "written", "failed"}
               /\ CopyOf(session, export) /\ session.exported <= export.revision
               /\ export.stage = "written" => saved = export

SessionInv == ShownInv /\ JudgedInv /\ SavedInv /\ ExportedInv /\ PlayedInv /\ ExportInv

Fresh(action) ==
  action = Close \/ \E s : New(s) /\ action = [kind |-> "install", session |-> s]

PanelInv ==
  /\ nextId \in Nat
  /\ pending # None => Exporting /\ Fresh(pending)
  /\ playing # None => DOMAIN playing = {"session", "column", "texts"}

Inv == PanelInv /\ ((session = None /\ ~Exporting) \/ SessionInv)

LEMMA InitEstablishesInv ==
  Init => Inv
BY CorpusSessionAssumption DEF Init, Inv, PanelInv, NoExport, Exporting

\* Whoever asks to leave brings a new session or nothing at all.
LEMMA ActionsAreFresh ==
  ASSUME nextId \in Nat, NEW action \in Actions
  PROVE  Fresh(action) /\ (nextId' = (IF action.kind = "install" THEN nextId + 1 ELSE nextId) =>
                             nextId' \in Nat)
<1>1. ASSUME NEW sheet \in Sheets, action = Install(sheet)
      PROVE  Fresh(action)
  <2> DEFINE s == CreateSession(nextId, sheet, sheet.selected)
  <2>1. New(s)
    BY CreatedIs
  <2>2. action = [kind |-> "install", session |-> s]
    BY <1>1 DEF Install
  <2> HIDE DEF s
  <2> QED
    BY <2>1, <2>2 DEF Fresh
<1>2. Fresh(action)
  BY <1>1 DEF Actions, Fresh
<1> QED
  BY <1>2

\* A new session in place of the old one.
LEMMA InstallKeepsInv ==
  ASSUME PanelInv, NEW u, New(u), session' = u, grid' = u.view,
         playing' = IF playing = None THEN None
                    ELSE [playing EXCEPT !.session = None, !.texts = <<>>],
         judged' = <<>>, saved' = NoExport, ~Exporting', pending' = None, nextId' \in Nat
  PROVE  Inv'
<1>1. /\ Proper(u) /\ u.exported = 0 /\ DOMAIN u.marks = {}
  BY DEF New
<1>2. playing' # None => /\ DOMAIN playing' = {"session", "column", "texts"}
                         /\ DOMAIN playing'.texts = {}
  BY DEF PanelInv
<1>3. saved'.stage # "written"
  BY DEF NoExport
<1>4. ShownInv' /\ JudgedInv'
  BY <1>1 DEF ShownInv, JudgedInv
<1>5. SavedInv' /\ ExportedInv' /\ ExportInv'
  BY <1>1, <1>3 DEF SavedInv, ExportedInv, ExportInv
<1>6. PlayedInv'
  BY <1>2 DEF PlayedInv
<1>7. PanelInv'
  BY <1>2 DEF PanelInv
<1> QED
  BY <1>4, <1>5, <1>6, <1>7 DEF Inv, SessionInv

\* The session stays, no export is under way and nobody waits for one.
LEMMA StayKeepsInv ==
  ASSUME PanelInv, (session = None /\ ~Exporting) \/ SessionInv,
         session' = session, ~Exporting', pending' = None, nextId' \in Nat,
         UNCHANGED <<grid, judged, saved, playing>>
  PROVE  Inv'
<1>1. PanelInv'
  BY DEF PanelInv
<1>2. ASSUME SessionInv
      PROVE  SessionInv'
  <2>1. ShownInv' /\ JudgedInv'
    BY <1>2 DEF SessionInv, ShownInv, JudgedInv
  <2>2. SavedInv' /\ ExportedInv'
    BY <1>2 DEF SessionInv, SavedInv, ExportedInv
  <2>3. PlayedInv' /\ ExportInv'
    BY <1>2 DEF SessionInv, PlayedInv, ExportInv
  <2> QED
    BY <2>1, <2>2, <2>3 DEF SessionInv
<1> QED
  BY <1>1, <1>2 DEF Inv

LEMMA LeaveKeepsInv ==
  ASSUME Inv, NEW action \in Actions, LeaveFreely(action) \/ LeaveDiscarding(action)
  PROVE  Inv'
<1>1. /\ ~Exporting /\ pending = None
      /\ Perform(action, session) /\ TakeId(action) /\ export' = export /\ pending' = pending
  BY DEF LeaveFreely, LeaveDiscarding, MayLeave
<1>2. ~Exporting' /\ pending' = None
  BY <1>1 DEF Exporting
<1>3. Fresh(action) /\ nextId' \in Nat
  BY <1>1, ActionsAreFresh DEF Inv, PanelInv, TakeId
<1>4. ASSUME action.kind = "close"
      PROVE  Inv'
  <2>1. session' = session /\ UNCHANGED <<grid, judged, saved, playing>>
    BY <1>1, <1>4 DEF Perform
  <2> QED
    BY <1>2, <1>3, <2>1, StayKeepsInv DEF Inv
<1>5. ASSUME action.kind # "close"
      PROVE  Inv'
  <2>1. PICK u : New(u) /\ action = [kind |-> "install", session |-> u]
    BY <1>3, <1>5 DEF Fresh, Close
  <2>2. /\ session' = u /\ grid' = u.view
        /\ playing' = IF playing = None THEN None
                      ELSE [playing EXCEPT !.session = None, !.texts = <<>>]
        /\ judged' = <<>> /\ saved' = NoExport
    BY <1>1, <1>5, <2>1 DEF Perform
  <2> QED
    BY <1>2, <1>3, <2>1, <2>2, InstallKeepsInv DEF Inv
<1> QED
  BY <1>4, <1>5

\* The export is a copy of the session as it is.
LEMMA SnapshotIs ==
  ASSUME SessionInv, ~closing, export' = Snapshot,
         UNCHANGED <<session, grid, playing, closing, judged, saved>>
  PROVE  SessionInv' /\ Exporting'
<1>1. Proper(session) /\ session.revision \in Nat /\ session.exported \in Nat
  BY DEF SessionInv, ShownInv, Proper, WellFormed
<1>2. CopyOf(session, Snapshot) /\ Snapshot.stage = "running" /\ Snapshot.revision = session.revision
  BY <1>1, WithinItself DEF Snapshot, CopyOf
<1>3. session.exported <= session.revision
  <2>1. ASSUME session.exported # 0
        PROVE  session.exported <= session.revision
    BY <1>1, <2>1 DEF SessionInv, ExportedInv, SavedInv, CopyOf
  <2> QED
    BY <1>1, <2>1
<1>4. ExportInv'
  BY <1>2, <1>3 DEF ExportInv
<1>5. ShownInv' /\ JudgedInv'
  BY DEF SessionInv, ShownInv, JudgedInv
<1>6. SavedInv' /\ ExportedInv' /\ PlayedInv'
  BY DEF SessionInv, SavedInv, ExportedInv, PlayedInv
<1>7. Exporting'
  BY <1>2 DEF Exporting
<1> QED
  BY <1>4, <1>5, <1>6, <1>7 DEF SessionInv

LEMMA StartExportKeepsInv ==
  ASSUME Inv, StartExport
  PROVE  Inv'
<1>1. /\ SessionInv /\ ~closing /\ export' = Snapshot /\ pending = None
      /\ UNCHANGED <<session, grid, pending, playing, closing, nextId, judged, saved>>
  BY DEF Inv, StartExport, MayLeave
<1>2. SessionInv' /\ Exporting'
  BY <1>1, SnapshotIs
<1>3. PanelInv'
  BY <1>1 DEF Inv, PanelInv
<1> QED
  BY <1>2, <1>3 DEF Inv

LEMMA LeaveAfterExportKeepsInv ==
  ASSUME Inv, NEW action \in Actions, LeaveAfterExport(action)
  PROVE  Inv'
<1>1. /\ SessionInv /\ ~closing /\ export' = Snapshot /\ pending' = action /\ TakeId(action)
      /\ UNCHANGED <<session, grid, playing, closing, judged, saved>>
  BY DEF Inv, LeaveAfterExport, MayLeave, HasChanges
<1>2. SessionInv' /\ Exporting'
  BY <1>1, SnapshotIs
<1>3. Fresh(action) /\ nextId' \in Nat
  BY <1>1, ActionsAreFresh DEF Inv, PanelInv, TakeId
<1>4. PanelInv'
  BY <1>1, <1>2, <1>3 DEF Inv, PanelInv
<1> QED
  BY <1>2, <1>4 DEF Inv

\* What is known of the session is known of one that differs in what was exported.
LEMMA ExportedSession ==
  ASSUME SessionInv, NEW s, Proper(s), s.id = session.id, s.revision = session.revision,
         s.view = session.view, s.source = session.source, s.owners = session.owners,
         s.selected = session.selected, s.marks = session.marks,
         session' = s, UNCHANGED <<grid, judged, saved, playing>>,
         (saved.stage = "written" /\ s.exported <= saved.revision) \/ s.exported = session.exported,
         ~Exporting'
  PROVE  SessionInv'
<1>1. ShownInv'
  BY DEF SessionInv, ShownInv
<1>2. /\ \A r, c : SegmentsOf(s, r, c) = SegmentsOf(session, r, c)
      /\ \A r : Reference(s, r) = Reference(session, r)
  BY DEF SegmentsOf, Reference
<1>3. JudgedInv'
  <2>1. ASSUME NEW id \in DOMAIN s.marks
        PROVE  StandsFor(s, judged[id], id)
    <3>1. StandsFor(session, judged[id], id)
      BY DEF SessionInv, JudgedInv
    <3> QED
      BY <1>2, <3>1 DEF StandsFor
  <2> QED
    BY <2>1 DEF JudgedInv
<1>4. Within(session, saved.view) => Within(s, saved.view)
  BY DEF Within
<1>5. SavedInv'
  BY <1>4 DEF SessionInv, SavedInv, CopyOf
<1>6. ExportedInv'
  BY DEF SessionInv, ExportedInv
<1>7. PlayedInv'
  BY DEF SessionInv, PlayedInv
<1>8. ExportInv'
  BY DEF ExportInv
<1> QED
  BY <1>1, <1>3, <1>5, <1>6, <1>7, <1>8 DEF SessionInv

LEMMA ExportJobKeepsInv ==
  ASSUME Inv, ExportJob
  PROVE  Inv'
<1>1. /\ SessionInv /\ Exporting /\ export.stage = "running"
      /\ UNCHANGED <<session, grid, pending, playing, closing, nextId, judged>>
  BY DEF Inv, ExportJob, Exporting
<1>2. PICK stage \in {"written", "failed"} :
        /\ export' = [export EXCEPT !.stage = stage]
        /\ saved' = IF stage = "written" THEN export' ELSE saved
  BY DEF ExportJob
<1>3. CopyOf(session, export) /\ session.exported <= export.revision /\ ~closing
  BY <1>1 DEF SessionInv, ExportInv
<1>4. /\ export'.stage = stage /\ export'.id = export.id
      /\ export'.revision = export.revision /\ export'.view = export.view
      /\ DOMAIN export' = DOMAIN export
  BY <1>2, <1>3 DEF CopyOf
<1>5. CopyOf(session, export')
  BY <1>3, <1>4 DEF CopyOf
<1>6. Exporting'
  BY <1>4 DEF Exporting
<1>7. SavedInv'
  BY <1>1, <1>2, <1>5 DEF SessionInv, SavedInv
<1>8. ExportedInv'
  BY <1>1, <1>2, <1>3, <1>4 DEF SessionInv, ExportedInv
<1>9. ExportInv'
  BY <1>1, <1>2, <1>3, <1>4, <1>5 DEF ExportInv
<1>10. ShownInv' /\ JudgedInv'
  BY <1>1 DEF SessionInv, ShownInv, JudgedInv
<1>11. PlayedInv'
  BY <1>1 DEF SessionInv, PlayedInv
<1>12. PanelInv'
  BY <1>1, <1>6 DEF Inv, PanelInv
<1> QED
  BY <1>7, <1>8, <1>9, <1>10, <1>11, <1>12 DEF Inv, SessionInv

\* The result of an export, and the action that waited for it when it may go on.
LEMMA FinishExportKeepsInv ==
  ASSUME Inv, FinishExport
  PROVE  Inv'
<1>1. /\ SessionInv /\ Exporting /\ PanelInv
      /\ export' = NoExport /\ pending' = None /\ nextId' = nextId
  BY DEF Inv, FinishExport, Exporting
<1>2. CopyOf(session, export) /\ session.exported <= export.revision /\ Proper(session)
  BY <1>1 DEF SessionInv, ExportInv, ShownInv
<1>3. ~Exporting'
  BY <1>1 DEF Exporting, NoExport
<1>4. PICK after : after = IF export.stage = "written"
                           THEN MarkExported(session, export.id, export.revision) ELSE session
  OBVIOUS
<1>5. \/ pending # None /\ Perform(pending, after)
      \/ session' = after /\ UNCHANGED <<grid, playing, closing, judged, saved>>
  BY <1>4 DEF FinishExport
<1>6. /\ Proper(after) /\ after.id = session.id /\ after.revision = session.revision
      /\ after.view = session.view /\ after.source = session.source /\ after.owners = session.owners
      /\ after.selected = session.selected /\ after.marks = session.marks
      /\ \/ after.exported = session.exported
         \/ export.stage = "written" /\ after.exported = export.revision
  <2>1. CASE export.stage = "written"
    <3>1. after = MarkExported(session, export.id, export.revision) /\ export.revision \in Nat
      BY <1>2, <1>4, <2>1 DEF CopyOf
    <3> QED
      BY <1>2, <2>1, <3>1, MarkExportedIs
  <2>2. CASE export.stage # "written"
    BY <1>2, <1>4, <2>2
  <2> QED
    BY <2>1, <2>2
<1>7. \/ saved.stage = "written" /\ after.exported <= saved.revision
      \/ after.exported = session.exported
  BY <1>1, <1>2, <1>6 DEF SessionInv, ExportInv, CopyOf
<1>8. ASSUME session' = after, UNCHANGED <<grid, playing, judged, saved>>
      PROVE  Inv'
  <2>1. SessionInv'
    BY <1>1, <1>3, <1>6, <1>7, <1>8, ExportedSession
  <2>2. PanelInv'
    BY <1>1, <1>8 DEF PanelInv
  <2> QED
    BY <2>1, <2>2 DEF Inv
<1>9. ASSUME pending # None, Perform(pending, after), pending.kind # "close"
      PROVE  Inv'
  <2>1. PICK u : New(u) /\ pending = [kind |-> "install", session |-> u]
    BY <1>1, <1>9 DEF PanelInv, Fresh, Close
  <2>2. /\ session' = u /\ grid' = u.view
        /\ playing' = IF playing = None THEN None
                      ELSE [playing EXCEPT !.session = None, !.texts = <<>>]
        /\ judged' = <<>> /\ saved' = NoExport
    BY <1>9, <2>1 DEF Perform
  <2>3. nextId' \in Nat
    BY <1>1 DEF PanelInv
  <2> QED
    BY <1>1, <1>3, <2>1, <2>2, <2>3, InstallKeepsInv
<1>10. ASSUME pending # None, Perform(pending, after), pending.kind = "close"
       PROVE  Inv'
  <2>1. session' = after /\ UNCHANGED <<grid, playing, judged, saved>>
    BY <1>10 DEF Perform
  <2> QED
    BY <1>8, <2>1
<1> QED
  BY <1>5, <1>8, <1>9, <1>10

-----------------------------------------------------------------------------
(* Editing, marking and playing keep the invariant                         *)

Outdated(of, revision) == IF of.revision < revision THEN [of EXCEPT !.view = <<>>] ELSE of

\* A copy of a session is one of the session after an edit or a mark, if it is outdated then.
LEMMA OutdatedCopy ==
  ASSUME NEW s, s.revision \in Nat, NEW t, t.revision \in Nat, NEW of, CopyOf(s, of),
         t.id = s.id, s.revision <= t.revision,
         t.revision = s.revision =>
           Within(t, s.view) /\ DOMAIN t.view = DOMAIN s.view /\ t.selected = s.selected,
         NEW to, to = Outdated(of, t.revision)
  PROVE  CopyOf(t, to) /\ to.stage = of.stage /\ to.revision = of.revision
<1>1. /\ DOMAIN to = DOMAIN of /\ to.stage = of.stage /\ to.id = of.id /\ to.revision = of.revision
      /\ of.revision = t.revision => to.view = of.view
  BY DEF CopyOf, Outdated
<1>2. ASSUME to.revision = t.revision
      PROVE  Within(t, to.view)
  <2>1. t.revision = s.revision /\ of.revision = s.revision /\ to.view = of.view
    BY <1>1, <1>2 DEF CopyOf
  <2>2. PICK view : view = of.view
    OBVIOUS
  <2>3. Within(s, view)
    BY <2>1, <2>2 DEF CopyOf
  <2>4. Within(t, view)
    BY <2>1, <2>3, WithinIsTransitive
  <2> QED
    BY <2>1, <2>2, <2>4
<1> QED
  BY <1>1, <1>2 DEF CopyOf

\* Nothing of an export or of its workbook is lost but the view of an earlier revision.
LEMMA OutdateKeeps ==
  ASSUME SessionInv, NEW t, Proper(t), session' = t, Outdate, closing' = closing,
         t.id = session.id, t.exported = session.exported, session.revision <= t.revision,
         t.revision = session.revision =>
           Within(t, session.view) /\ DOMAIN t.view = DOMAIN session.view /\ t.selected = session.selected
  PROVE  SavedInv' /\ ExportedInv' /\ ExportInv' /\ (Exporting' <=> Exporting)
<1>1. session.revision \in Nat /\ t.revision \in Nat
  BY DEF SessionInv, ShownInv, Proper, WellFormed
<1>2. /\ export' = IF Exporting THEN Outdated(export, t.revision) ELSE export
      /\ saved' = IF saved.stage = "written" THEN Outdated(saved, t.revision) ELSE saved
  BY DEF Outdate, Outdated
<1>3. ASSUME Exporting
      PROVE  CopyOf(t, export') /\ export'.stage = export.stage /\ export'.revision = export.revision
  BY <1>1, <1>2, <1>3, OutdatedCopy DEF SessionInv, ExportInv
<1>4. ASSUME saved.stage = "written"
      PROVE  CopyOf(t, saved') /\ saved'.stage = "written" /\ saved'.revision = saved.revision
  BY <1>1, <1>2, <1>4, OutdatedCopy DEF SessionInv, SavedInv
<1>5. SavedInv'
  BY <1>2, <1>4 DEF SavedInv
<1>6. ExportedInv'
  BY <1>4 DEF SessionInv, ExportedInv
<1>7. Exporting' <=> Exporting
  BY <1>2, <1>3 DEF Exporting
<1>8. ExportInv'
  <2>1. ASSUME Exporting
        PROVE  /\ ~closing /\ export'.stage \in {"running", "written", "failed"}
               /\ t.exported <= export'.revision
               /\ export'.stage = "written" => saved' = export'
    BY <1>2, <1>3, <2>1 DEF SessionInv, ExportInv
  <2> QED
    BY <1>3, <1>7, <2>1 DEF ExportInv
<1> QED
  BY <1>5, <1>6, <1>7, <1>8
\* A step that is not one of leaving.
Stays == session'.id = session.id /\ closing' = closing

LEMMA EditKeepsInv ==
  ASSUME Inv, session # None, NEW d \in DOMAIN session.view, NEW c, NEW value \in Values,
         ApplyCellEdit(d, c, value)
  PROVE  Inv' /\ Stays
<1>1. PICK edit : edit = UpdateDisplayCell(session, d, c, value)
  OBVIOUS
<1>2. PICK s, t : s = session /\ t = edit.session
  OBVIOUS
<1>3. /\ Editable(s, d, c) /\ session' = t /\ grid' = GridAfter(s.view, edit)
      /\ judged' = Restrict(judged, DOMAIN t.marks) /\ Outdate
      /\ playing = None /\ UNCHANGED <<pending, playing, closing, nextId>>
  BY <1>1, <1>2 DEF ApplyCellEdit, MayEdit
<1>4. SessionInv /\ PanelInv /\ Proper(s) /\ grid = s.view /\ value \in Texts
  BY <1>2, CorpusSessionAssumption DEF Inv, SessionInv, ShownInv, CorpusSessionAssumption, Texts
<1>5. /\ Proper(t) /\ t.id = s.id /\ t.exported = s.exported
      /\ t.owners = s.owners /\ t.selected = s.selected
      /\ t.revision = IF t.source # s.source THEN s.revision + 1 ELSE s.revision
      /\ DOMAIN t.marks \in SUBSET DOMAIN s.marks
      /\ \A id \in DOMAIN t.marks : t.marks[id] = s.marks[id] /\ Outlasts(s, t, id)
      /\ GridAfter(s.view, edit) = t.view
  <2>1. edit = UpdateDisplayCell(s, d, c, value) /\ t = edit.session /\ d \in DOMAIN s.view
    BY <1>1, <1>2
  <2>2. Proper(s) /\ Editable(s, d, c) /\ value \in Texts /\ grid = s.view
    BY <1>3, <1>4
  <2>3. AfterEdit(s, edit, t)
    BY <2>1, <2>2, EditIs
  <2> QED
    BY <2>2, <2>3 DEF AfterEdit
<1>6. s.revision \in Nat
  BY <1>4 DEF Proper, WellFormed
<1>7. ASSUME t.revision = s.revision
      PROVE  Within(t, s.view) /\ DOMAIN t.view = DOMAIN s.view
  <2>1. t.source = s.source
    BY <1>5, <1>6, <1>7
  <2> QED
    BY <1>4, <1>5, <2>1, FewerResults
<1>8. SavedInv' /\ ExportedInv' /\ ExportInv' /\ (Exporting' <=> Exporting)
  BY <1>2, <1>3, <1>4, <1>5, <1>6, <1>7, OutdateKeeps
<1>9. ShownInv'
  BY <1>3, <1>5 DEF ShownInv
<1>10. ASSUME NEW id \in DOMAIN t.marks
       PROVE  StandsFor(t, judged'[id], id)
  <2>1. judged'[id] = judged[id]
    BY <1>3 DEF Restrict
  <2>2. StandsFor(s, judged[id], id) /\ Outlasts(s, t, id)
    BY <1>2, <1>4, <1>5 DEF SessionInv, JudgedInv
  <2> QED
    BY <1>5, <2>1, <2>2 DEF StandsFor, Outlasts
<1>11. JudgedInv'
  BY <1>3, <1>10 DEF JudgedInv
<1>12. PlayedInv'
  BY <1>3 DEF PlayedInv
<1>13. PanelInv'
  BY <1>3, <1>4, <1>8 DEF PanelInv
<1>14. Stays
  BY <1>2, <1>3, <1>5 DEF Stays
<1> QED
  BY <1>8, <1>9, <1>11, <1>12, <1>13, <1>14 DEF Inv, SessionInv

LEMMA MarkKeepsInv ==
  ASSUME Inv, session # None, NEW d \in DOMAIN session.view, NEW c \in session.selected.plays,
         MarkResult(d, c)
  PROVE  Inv' /\ Stays
<1>1. PICK s, t : s = session /\ t = CycleResult(session, d, c)
  OBVIOUS
<1>2. PICK r, k : r = At(s, d)[1] /\ k = At(s, d)[2]
  OBVIOUS
<1>3. /\ s.view[d].segment[c] # NoSegment /\ session' = t
      /\ grid' = [grid EXCEPT ![d].result[c] = t.view[d].result[c]]
      /\ Outdate /\ UNCHANGED <<pending, playing, closing, nextId>>
  BY <1>1 DEF MarkResult
<1>4. SessionInv /\ PanelInv /\ Proper(s) /\ grid = s.view
  BY <1>1 DEF Inv, SessionInv, ShownInv
<1>5. /\ Proper(t) /\ t.id = s.id /\ t.exported = s.exported /\ t.revision = s.revision + 1
      /\ t.source = s.source /\ t.owners = s.owners /\ t.selected = s.selected
      /\ ResultKey(s, d, c) = <<r, c, k>> /\ k <= Len(SegmentsOf(s, r, c))
      /\ s.view[d].text[c] = SegmentsOf(s, r, c)[k] /\ s.view[d].reference = Reference(s, r)
      /\ \A id \in DOMAIN t.marks : id # <<r, c, k>> => id \in DOMAIN s.marks
      /\ DOMAIN t.view = DOMAIN s.view
      /\ \A e \in DOMAIN s.view : t.view[e].text = s.view[e].text
      /\ [s.view EXCEPT ![d].result[c] = t.view[d].result[c]] = t.view
  BY <1>1, <1>2, <1>3, <1>4, CycleIs
<1>6. s.revision \in Nat
  BY <1>4 DEF Proper, WellFormed
<1>7. SavedInv' /\ ExportedInv' /\ ExportInv' /\ (Exporting' <=> Exporting)
  BY <1>1, <1>3, <1>4, <1>5, <1>6, OutdateKeeps
<1>8. ShownInv'
  BY <1>3, <1>4, <1>5 DEF ShownInv
<1>9. PICK mark : /\ mark.text = SegmentsOf(s, r, c)[k] /\ mark.reference = Reference(s, r)
                  /\ judged' = [id \in DOMAIN t.marks |-> IF id = <<r, c, k>> THEN mark ELSE judged[id]]
  <2>1. PICK mark : mark = [text |-> s.view[d].text[c], reference |-> s.view[d].reference]
    OBVIOUS
  <2>2. judged' = [id \in DOMAIN t.marks |-> IF id = <<r, c, k>> THEN mark ELSE judged[id]]
    BY <1>1, <1>3, <1>5, <2>1 DEF MarkResult
  <2>3. mark.text = SegmentsOf(s, r, c)[k] /\ mark.reference = Reference(s, r)
    BY <1>5, <2>1
  <2> QED
    BY <2>2, <2>3
<1>10. /\ \A q, e : SegmentsOf(t, q, e) = SegmentsOf(s, q, e)
       /\ \A q : Reference(t, q) = Reference(s, q)
  BY <1>5 DEF SegmentsOf, Reference
<1>11. ASSUME NEW id \in DOMAIN t.marks
       PROVE  StandsFor(t, judged'[id], id)
  <2>1. ASSUME id = <<r, c, k>>
        PROVE  StandsFor(t, judged'[id], id)
    <3>1. id[1] = r /\ id[2] = c /\ id[3] = k /\ judged'[id] = mark
      BY <1>9, <2>1
    <3> QED
      BY <1>5, <1>9, <1>10, <3>1 DEF StandsFor
  <2>2. ASSUME id # <<r, c, k>>
        PROVE  StandsFor(t, judged'[id], id)
    <3>1. judged'[id] = judged[id] /\ id \in DOMAIN s.marks
      BY <1>5, <1>9, <2>2
    <3>2. StandsFor(s, judged[id], id)
      BY <1>1, <1>4, <3>1 DEF SessionInv, JudgedInv
    <3> QED
      BY <1>5, <1>10, <3>1, <3>2 DEF StandsFor
  <2> QED
    BY <2>1, <2>2
<1>12. JudgedInv'
  BY <1>3, <1>11 DEF JudgedInv
<1>13. PlayedInv'
  BY <1>1, <1>3, <1>4, <1>5 DEF SessionInv, PlayedInv
<1>14. PanelInv'
  BY <1>3, <1>4, <1>7 DEF PanelInv
<1>15. Stays
  BY <1>1, <1>3, <1>5 DEF Stays
<1> QED
  BY <1>7, <1>8, <1>12, <1>13, <1>14, <1>15 DEF Inv, SessionInv

\* Whatever becomes of the playback, the session and the export stay.
LEMMA PlayingKeepsInv ==
  ASSUME Inv, UNCHANGED <<session, grid, export, pending, closing, nextId, judged, saved>>,
         PanelInv', (session = None /\ ~Exporting) \/ PlayedInv'
  PROVE  Inv'
<1>1. Exporting' <=> Exporting
  BY DEF Exporting
<1>2. ASSUME SessionInv, PlayedInv'
      PROVE  SessionInv'
  <2>1. ShownInv' /\ JudgedInv'
    BY <1>2 DEF SessionInv, ShownInv, JudgedInv
  <2>2. SavedInv' /\ ExportedInv'
    BY <1>2 DEF SessionInv, SavedInv, ExportedInv
  <2>3. ExportInv'
    BY <1>2, <1>1 DEF SessionInv, ExportInv
  <2> QED
    BY <1>2, <2>1, <2>2, <2>3 DEF SessionInv
<1> QED
  BY <1>1, <1>2 DEF Inv

LEMMA PlayKeepsInv ==
  ASSUME Inv, session # None, NEW first \in DOMAIN session.view, NEW last \in DOMAIN session.view,
         NEW c, StartPlayback(first, last, c)
  PROVE  Inv'
<1>1. /\ playing' = [session |-> session.id, column |-> c,
                     texts |-> [d \in first..last |-> session.view[d].text[c]]]
      /\ UNCHANGED <<session, grid, export, pending, closing, nextId, judged, saved>>
  BY DEF StartPlayback
<1>2. /\ playing'.column = c /\ DOMAIN playing' = {"session", "column", "texts"}
      /\ DOMAIN playing'.texts = first..last
      /\ \A d \in first..last : playing'.texts[d] = session.view[d].text[c]
  BY <1>1
<1>3. \A d \in first..last : d \in DOMAIN session.view
  <2>1. DOMAIN session.view = 1..Cardinality(Positions(session)) /\ Cardinality(Positions(session)) \in Nat
    BY ViewIsSequence, PositionsAre DEF Inv, SessionInv, ShownInv, Proper
  <2> QED
    BY <2>1
<1>4. PlayedInv'
  BY <1>1, <1>2, <1>3 DEF PlayedInv
<1>5. PanelInv'
  BY <1>1, <1>2 DEF Inv, PanelInv, Exporting
<1> QED
  BY <1>1, <1>4, <1>5, PlayingKeepsInv

LEMMA PlaybackEndsKeepsInv ==
  ASSUME Inv, PlaybackEnds
  PROVE  Inv'
<1>1. playing' = None /\ UNCHANGED <<session, grid, export, pending, closing, nextId, judged, saved>>
  BY DEF PlaybackEnds
<1>2. PlayedInv' /\ PanelInv'
  BY <1>1 DEF Inv, PlayedInv, PanelInv, Exporting
<1> QED
  BY <1>1, <1>2, PlayingKeepsInv

LEMMA StutterKeepsInv ==
  ASSUME Inv, UNCHANGED vars
  PROVE  Inv'
<1>1. /\ UNCHANGED <<session, grid, export, pending, closing, nextId, judged, saved>>
      /\ playing' = playing
  BY DEF vars
<1>2. (session = None /\ ~Exporting) \/ PlayedInv'
  BY <1>1 DEF Inv, SessionInv, PlayedInv
<1>3. PanelInv'
  BY <1>1 DEF Inv, PanelInv, Exporting
<1> QED
  BY <1>1, <1>2, <1>3, PlayingKeepsInv

LEMMA StepKeepsInv ==
  ASSUME Inv, [Next]_vars
  PROVE  Inv'
<1>1. ASSUME Leave
      PROVE  Inv'
  BY <1>1, LeaveKeepsInv, LeaveAfterExportKeepsInv DEF Leave
<1>2. ASSUME Edit
      PROVE  Inv'
  BY <1>2, EditKeepsInv DEF Edit
<1>3. ASSUME Mark
      PROVE  Inv'
  BY <1>3, MarkKeepsInv DEF Mark
<1>4. ASSUME Play
      PROVE  Inv'
  BY <1>4, PlayKeepsInv DEF Play
<1> QED
  BY <1>1, <1>2, <1>3, <1>4, StartExportKeepsInv, ExportJobKeepsInv, FinishExportKeepsInv,
     PlaybackEndsKeepsInv, StutterKeepsInv DEF Next, Closed

LEMMA AlwaysInv ==
  Spec => []Inv
<1>1. Init => Inv
  BY InitEstablishesInv
<1>2. Inv /\ [Next]_vars => Inv'
  BY StepKeepsInv
<1> QED
  BY <1>1, <1>2, PTL DEF Spec

-----------------------------------------------------------------------------
(* Theorems                                                                *)

\* The grid always shows the view, and the view is the one Build would make anew:
\* the row that CycleResult writes in place, the references that UpdateDisplayCell
\* writes when nothing changed, and the rows that ApplyCellEdit alone refreshes in
\* the grid are all that a complete rebuild would have changed.
THEOREM GridAlwaysShowsSession ==
  Spec => []GridShowsSession
<1>1. Inv => GridShowsSession
  BY DEF Inv, SessionInv, ShownInv, Proper, GridShowsSession
<1> QED
  BY <1>1, AlwaysInv, PTL

\* Every result that is still marked stands at the text and the reference the user
\* gave it for: UpdateDisplayCell takes away all the others.
THEOREM MarksAlwaysFitTheirText ==
  Spec => []MarksFitTheirText
<1>1. ASSUME Inv, session # None
      PROVE  \A id \in DOMAIN session.marks :
               LET segments == SplitDisplaySegments(Cell(session.source, id[1], id[2]))
               IN  /\ id[3] <= Len(segments)
                   /\ judged[id].text = segments[id[3]]
                   /\ session.selected.reference # NoColumn =>
                        judged[id].reference =
                          Cell(session.source, session.owners[id[1]], session.selected.reference)
  <2>1. JudgedInv
    BY <1>1 DEF Inv, SessionInv
  <2> QED
    BY <2>1 DEF JudgedInv, StandsFor, SegmentsOf, Reference
<1>2. Inv => MarksFitTheirText
  BY <1>1 DEF MarksFitTheirText
<1> QED
  BY <1>2, AlwaysInv, PTL

\* The export under way is one of the session on the screen, of a revision it has
\* reached; nobody waits for an export that is not under way, and the window does
\* not close over one.
THEOREM ExportIsAlwaysOfThisSession ==
  Spec => []ExportIsOfThisSession
<1>1. ASSUME Inv
      PROVE  ExportIsOfThisSession
  <2>1. pending # None => Exporting
    BY <1>1 DEF Inv, PanelInv
  <2>2. ASSUME Exporting
        PROVE  ~closing /\ export.id = session.id /\ export.revision <= session.revision
    BY <1>1, <2>2 DEF Inv, SessionInv, ExportInv, CopyOf
  <2> QED
    BY <2>1, <2>2 DEF ExportIsOfThisSession
<1> QED
  BY <1>1, AlwaysInv, PTL

\* While the playback started on this session is busy, the grid shows what is heard.
THEOREM PlayedTextIsAlwaysShown ==
  Spec => []PlayedTextIsShown
<1>1. ASSUME Inv, playing # None, session # None, playing.session = session.id,
             NEW d \in DOMAIN playing.texts
      PROVE  d <= Len(grid) /\ grid[d].text[playing.column] = playing.texts[d]
  <2>1. SessionInv /\ grid = session.view /\ WellFormed(session) /\ session.view = Build(session)
    BY <1>1 DEF Inv, SessionInv, ShownInv, Proper
  <2>2. d \in DOMAIN session.view /\ session.view[d].text[playing.column] = playing.texts[d]
    BY <1>1, <2>1 DEF SessionInv, PlayedInv
  <2>3. PICK n : n = Cardinality(Positions(session))
    OBVIOUS
  <2>4. n \in Nat /\ DOMAIN session.view = 1..n /\ Len(session.view) = n
    BY <2>1, <2>3, ViewIsSequence, PositionsAre
  <2> QED
    BY <2>1, <2>2, <2>4
<1>2. Inv => PlayedTextIsShown
  BY <1>1 DEF PlayedTextIsShown
<1> QED
  BY <1>2, AlwaysInv, PTL

\* A workbook of this revision has all that there is to lose.
LEMMA CurrentCopyIsEnough ==
  ASSUME SessionInv, saved.stage = "written", saved.revision = session.revision
  PROVE  InWorkbook(session)
<1>1. saved.id = session.id /\ Within(session, saved.view)
  BY DEF SessionInv, SavedInv, CopyOf
<1> QED
  BY <1>1 DEF Within, InWorkbook

\* A session without changes is the workbook.
LEMMA NoChangesAreLost ==
  ASSUME SessionInv, session.revision = session.exported, session.revision # 0
  PROVE  InWorkbook(session)
<1>1. session.revision \in Nat
  BY DEF SessionInv, ShownInv, Proper, WellFormed
<1>2. saved.stage = "written" /\ session.revision <= saved.revision /\ CopyOf(session, saved)
  BY DEF SessionInv, ExportedInv, SavedInv
<1>3. saved.revision = session.revision
  BY <1>1, <1>2 DEF CopyOf
<1> QED
  BY <1>2, <1>3, CurrentCopyIsEnough

\* What FinishExport lets go has been exported as it is.
LEMMA FinishLosesNothing ==
  ASSUME Inv, FinishExport, ~Stays, session.revision # 0
  PROVE  InWorkbook(session)
<1>1. SessionInv /\ CopyOf(session, export) /\ Proper(session)
  BY DEF Inv, FinishExport, Exporting, SessionInv, ExportInv, ShownInv
<1>2. PICK after : after = IF export.stage = "written"
                           THEN MarkExported(session, export.id, export.revision) ELSE session
  OBVIOUS
<1>3. ASSUME export.stage = "written"
      PROVE  /\ after.id = session.id /\ after.revision = session.revision
             /\ after.exported \in {session.exported, export.revision}
  <2>1. after = MarkExported(session, export.id, export.revision) /\ export.revision \in Nat
    BY <1>1, <1>2, <1>3 DEF CopyOf
  <2> QED
    BY <1>1, <2>1, MarkExportedIs
<1>4. after.id = session.id
  BY <1>2, <1>3
<1>5. export.stage = "written" /\ ~Dirty(after)
  BY <1>2, <1>4 DEF FinishExport, Stays
<1>6. \/ session.revision = session.exported
      \/ session.revision = export.revision
  BY <1>3, <1>5 DEF Dirty
<1>7. saved = export
  BY <1>1, <1>5 DEF Inv, SessionInv, ExportInv, Exporting
<1> QED
  BY <1>1, <1>5, <1>6, <1>7, NoChangesAreLost, CurrentCopyIsEnough

LEMMA LeavingIsSafe ==
  ASSUME Inv, [Next]_vars, session # None, session.revision # 0,
         (~closing /\ closing') \/ session'.id # session.id
  PROVE  (\E action \in Actions : LeaveDiscarding(action)) \/ InWorkbook(session)
<1>1. ~Stays
  BY DEF Stays
<1>2. ASSUME NEW action \in Actions, LeaveFreely(action)
      PROVE  InWorkbook(session)
  <2>1. SessionInv /\ session.revision = session.exported
    BY <1>2 DEF Inv, LeaveFreely, HasChanges, Dirty
  <2> QED
    BY <2>1, NoChangesAreLost
<1>3. ASSUME NEW action \in Actions, LeaveAfterExport(action)
      PROVE  Stays
  BY <1>3 DEF LeaveAfterExport, Stays
<1>4. Edit \/ Mark => Stays
  BY EditKeepsInv, MarkKeepsInv DEF Edit, Mark
<1>5. StartExport \/ ExportJob \/ Play \/ PlaybackEnds \/ Closed \/ UNCHANGED vars => Stays
  BY DEF StartExport, ExportJob, Play, StartPlayback, PlaybackEnds, Closed, vars, Stays
<1>6. Leave \/ FinishExport
  BY <1>1, <1>4, <1>5 DEF Next
<1>7. FinishExport => InWorkbook(session)
  BY <1>1, FinishLosesNothing
<1> QED
  BY <1>1, <1>2, <1>3, <1>6, <1>7 DEF Leave

\* A session with changes is left, for another one or for good, only when the user
\* gave the changes up or a workbook holds every text and every result of it:
\* neither the leave gate nor an export that ends after another one loses any.
THEOREM NothingIsEverLostOnLeaving ==
  Spec => NothingIsLostOnLeaving
<1>1. Inv /\ [Next]_vars =>
        ( \/ ~closing /\ closing'
          \/ session # None /\ session'.id # session.id
          => \/ session = None
             \/ session.revision = 0
             \/ \E action \in Actions : LeaveDiscarding(action)
             \/ InWorkbook(session) )
  BY LeavingIsSafe
<1> QED
  BY <1>1, AlwaysInv, PTL DEF Spec, NothingIsLostOnLeaving

\* A row shows the reference of another row only because of one merge that leaves no
\* doubt: no other one reaches either row, it begins at the other row, below the header
\* and in the reference column alone, and the row had no other text.
THEOREM OwnersAreAlwaysSound ==
  Spec => []OwnersAreSound
<1>1. ASSUME NEW sheet \in Layouts, NEW c, c = sheet.selected.reference,
             NEW owners, owners = Install(sheet).session.owners, NEW r \in DOMAIN sheet.rows, owners[r] # r
      PROVE  LET over(q) == {i \in DOMAIN sheet.merges :
                               /\ Covers(sheet.merges[i], c)
                               /\ sheet.merges[i].first <= sheet.excel[q]
                               /\ sheet.excel[q] <= sheet.merges[i].last}
             IN  /\ \E i \in over(r) : /\ over(r) = {i} /\ over(owners[r]) = {i}
                                       /\ sheet.merges[i].left = sheet.merges[i].right
                                       /\ sheet.merges[i].first = sheet.excel[owners[r]]
                 /\ sheet.excel[owners[r]] > sheet.header
                 /\ Cell(sheet.rows, r, c) \in {Empty, Cell(sheet.rows, owners[r], c)}
  <2> DEFINE over(q) == {i \in DOMAIN sheet.merges :
                           /\ Covers(sheet.merges[i], c)
                           /\ sheet.merges[i].first <= sheet.excel[q]
                           /\ sheet.excel[q] <= sheet.merges[i].last}
  <2>1. /\ sheet.merges \in Seq(Ranges)
        /\ \A q \in DOMAIN sheet.rows : sheet.excel[q] \in Nat
        /\ \A q \in DOMAIN sheet.rows : \A e \in DOMAIN sheet.rows \ {q} : sheet.excel[e] # sheet.excel[q]
    BY CorpusSessionAssumption DEF CorpusSessionAssumption, Ranges
  <2>2. owners = ReferenceOwners(sheet, c)
    BY <1>1 DEF Install, CreateSession, Rebuild
  <2>3. Lent(sheet, c, owners)
    BY <2>1, <2>2, OwnersAreLent
  <2>4. PICK a : a = owners[r]
    OBVIOUS
  <2>5. PICK i : Lends(sheet, c, i, r, a)
    BY <1>1, <2>3, <2>4 DEF Lent
  <2>6. a \in DOMAIN sheet.rows
    BY <1>1, <2>3, <2>4 DEF Lent
  <2>7. i \in DOMAIN sheet.merges /\ i \notin Conflicts(sheet.merges, c) /\ Covers(sheet.merges[i], c)
    BY <2>5 DEF Lends
  <2>8. ASSUME NEW q \in {r, a}
        PROVE  over(q) = {i}
    <3>1. q \in DOMAIN sheet.rows /\ sheet.excel[q] \in Nat
      BY <2>1, <2>6, <2>8
    <3>2. i \in over(q)
      <4>1. sheet.merges[i].first \in Nat
        <5>1. PICK merge : merge = sheet.merges[i]
          OBVIOUS
        <5>2. merge \in Ranges
          BY <2>1, <2>7, <5>1
        <5> QED
          BY <5>1, <5>2 DEF Ranges
      <4>2. sheet.merges[i].first <= sheet.excel[q] /\ sheet.excel[q] <= sheet.merges[i].last
        <5>1. CASE q = r
          BY <2>5, <5>1 DEF Lends
        <5>2. CASE q = a
          BY <2>5, <4>1, <5>2 DEF Lends
        <5> QED
          BY <2>8, <5>1, <5>2
      <4> QED
        BY <2>7, <4>2
    <3>3. ASSUME NEW j \in over(q), j # i
          PROVE  FALSE
      BY <2>1, <2>7, <3>1, <3>2, <3>3, OverlapsConflict
    <3> HIDE DEF over
    <3> QED
      BY <3>2, <3>3
  <2>9. over(r) = {i} /\ over(a) = {i}
    <3> HIDE DEF over
    <3> QED
      BY <2>8
  <2>10. /\ sheet.merges[i].left = sheet.merges[i].right /\ sheet.merges[i].first = sheet.excel[a]
         /\ sheet.excel[a] > sheet.header
         /\ Cell(sheet.rows, r, c) \in {Empty, Cell(sheet.rows, a, c)}
    BY <2>5 DEF Lends
  <2> HIDE DEF over
  <2>11. /\ \E e \in over(r) : /\ over(r) = {e} /\ over(a) = {e}
                              /\ sheet.merges[e].left = sheet.merges[e].right
                              /\ sheet.merges[e].first = sheet.excel[a]
         /\ sheet.excel[a] > sheet.header
         /\ Cell(sheet.rows, r, c) \in {Empty, Cell(sheet.rows, a, c)}
    BY <2>9, <2>10
  <2> QED
    BY <2>4, <2>11 DEF over
<1>2. OwnersAreSound
  BY <1>1 DEF OwnersAreSound
<1> QED
  BY <1>2, PTL

=============================================================================
