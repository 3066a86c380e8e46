------------------------- MODULE ComparePanelProofs -------------------------
(***************************************************************************)
(* Theorems about ComparePanel, for any files, contents, drafts and        *)
(* options, and any number of edits, comparisons, changes and faults: the  *)
(* alignment of two texts of any length, the rows of a report, and the     *)
(* report that the panel shows.                                            *)
(***************************************************************************)
EXTENDS CompareTextProofs

-----------------------------------------------------------------------------
(* The rows of an alignment: which numbers they count up to on either      *)
(* side, and which records they match.                                     *)

\* The numbers other than 0 are those after lo up to hi, in order.
Runs(s, lo, hi) ==
  /\ s \in Seq(Nat)
  /\ \A k \in 1..Len(s) : s[k] # 0 => s[k] \in (lo + 1)..hi
  /\ \A v \in (lo + 1)..hi : \E k \in 1..Len(s) : s[k] = v
  /\ \A k, l \in 1..Len(s) : (k < l /\ s[k] # 0 /\ s[l] # 0) => s[k] < s[l]

LEMMA RunsJoin ==
  ASSUME NEW s, NEW t, NEW lo \in Nat, NEW mid \in Nat, NEW hi \in Nat, lo <= mid, mid <= hi,
         Runs(s, lo, mid), Runs(t, mid, hi)
  PROVE  Runs(s \o t, lo, hi)
<1>1. s \in Seq(Nat) /\ t \in Seq(Nat)
  BY DEF Runs
<1>2. PICK n \in Nat, m \in Nat : n = Len(s) /\ m = Len(t)
  BY <1>1
<1>3. PICK u : u = s \o t
  OBVIOUS
<1>4. /\ u \in Seq(Nat) /\ Len(u) = n + m
      /\ \A k \in 1..(n + m) : u[k] = IF k <= n THEN s[k] ELSE t[k - n]
  BY <1>1, <1>2, <1>3, ConcatProperties
<1>5. /\ \A k \in 1..n : s[k] # 0 => s[k] \in (lo + 1)..mid
      /\ \A k \in 1..m : t[k] # 0 => t[k] \in (mid + 1)..hi
  BY <1>2 DEF Runs
<1>6. \A k \in 1..(n + m) : u[k] # 0 => u[k] \in (lo + 1)..hi
  <2>1. ASSUME NEW k \in 1..(n + m), u[k] # 0
        PROVE  u[k] \in (lo + 1)..hi
    <3>1. CASE k <= n
      <4>1. k \in 1..n /\ u[k] = s[k]
        BY <1>4, <3>1
      <4>2. PICK v : v = s[k]
        OBVIOUS
      <4>3. v \in (lo + 1)..mid
        BY <1>5, <2>1, <4>1, <4>2
      <4> QED
        BY <4>1, <4>2, <4>3
    <3>2. CASE ~(k <= n)
      <4>1. k - n \in 1..m /\ u[k] = t[k - n]
        BY <1>4, <3>2
      <4>2. PICK v : v = t[k - n]
        OBVIOUS
      <4>3. v \in (mid + 1)..hi
        BY <1>5, <2>1, <4>1, <4>2
      <4> QED
        BY <4>1, <4>2, <4>3
    <3> QED
      BY <3>1, <3>2
  <2> QED
    BY <2>1
<1>7. \A v \in (lo + 1)..hi : \E k \in 1..(n + m) : u[k] = v
  <2>1. ASSUME NEW v \in (lo + 1)..hi
        PROVE  \E k \in 1..(n + m) : u[k] = v
    <3>1. CASE v <= mid
      <4>1. v \in (lo + 1)..mid
        BY <3>1
      <4>2. PICK k \in 1..n : s[k] = v
        BY <1>2, <4>1 DEF Runs
      <4>3. k \in 1..(n + m) /\ u[k] = s[k]
        BY <1>4
      <4> QED
        BY <4>2, <4>3
    <3>2. CASE ~(v <= mid)
      <4>1. v \in (mid + 1)..hi
        BY <3>2
      <4>2. PICK k \in 1..m : t[k] = v
        BY <1>2, <4>1 DEF Runs
      <4>3. k + n \in 1..(n + m) /\ ~(k + n <= n) /\ (k + n) - n = k
        OBVIOUS
      <4>4. u[k + n] = t[k]
        BY <1>4, <4>3
      <4> QED
        BY <4>2, <4>3, <4>4
    <3> QED
      BY <3>1, <3>2
  <2> QED
    BY <2>1
<1>8. \A k, l \in 1..(n + m) : (k < l /\ u[k] # 0 /\ u[l] # 0) => u[k] < u[l]
  <2>1. ASSUME NEW k \in 1..(n + m), NEW l \in 1..(n + m), k < l, u[k] # 0, u[l] # 0
        PROVE  u[k] < u[l]
    <3>1. CASE l <= n
      <4>1. k \in 1..n /\ l \in 1..n /\ u[k] = s[k] /\ u[l] = s[l]
        BY <1>4, <2>1, <3>1
      <4> QED
        BY <1>2, <2>1, <4>1 DEF Runs
    <3>2. CASE k <= n /\ ~(l <= n)
      <4>1. k \in 1..n /\ l - n \in 1..m /\ u[k] = s[k] /\ u[l] = t[l - n]
        BY <1>4, <3>2
      <4>2. PICK v : v = s[k]
        OBVIOUS
      <4>3. PICK w : w = t[l - n]
        OBVIOUS
      <4>4. v \in (lo + 1)..mid /\ w \in (mid + 1)..hi
        BY <1>5, <2>1, <4>1, <4>2, <4>3
      <4> QED
        BY <4>1, <4>2, <4>3, <4>4
    <3>3. CASE ~(k <= n)
      <4>1. k - n \in 1..m /\ l - n \in 1..m /\ u[k] = t[k - n] /\ u[l] = t[l - n] /\ k - n < l - n
        BY <1>4, <2>1, <3>3
      <4>2. PICK x \in 1..m, y \in 1..m : x = k - n /\ y = l - n
        BY <4>1
      <4> QED
        BY <1>2, <2>1, <4>1, <4>2 DEF Runs
    <3> QED
      BY <2>1, <3>1, <3>2, <3>3
  <2> QED
    BY <2>1
<1> QED
  BY <1>3, <1>4, <1>6, <1>7, <1>8 DEF Runs

LEMMA RunsEmpty ==
  ASSUME NEW lo \in Nat, NEW s \in Seq(Nat), \A k \in 1..Len(s) : s[k] = 0
  PROVE  Runs(s, lo, lo)
<1>1. (lo + 1)..lo = {}
  OBVIOUS
<1> QED
  BY <1>1 DEF Runs

\* All of the numbers after lo, without a gap.
LEMMA RunsAll ==
  ASSUME NEW lo \in Nat, NEW n \in Nat, NEW s \in Seq(Nat), Len(s) = n,
         \A k \in 1..n : s[k] = lo + k
  PROVE  Runs(s, lo, lo + n)
<1>1. \A k \in 1..n : lo + k \in (lo + 1)..(lo + n)
  OBVIOUS
<1>2. ASSUME NEW v \in (lo + 1)..(lo + n)
      PROVE  \E k \in 1..n : s[k] = v
  <2>1. PICK k \in 1..n : k = v - lo
    OBVIOUS
  <2>2. lo + k = v
    BY <2>1
  <2> QED
    BY <2>2
<1>3. \A k, l \in 1..n : k < l => lo + k < lo + l
  OBVIOUS
<1>4. \A k, l \in 1..n : (k < l /\ s[k] # 0 /\ s[l] # 0) => s[k] < s[l]
  BY <1>3
<1>5. \A k \in 1..n : s[k] # 0 => s[k] \in (lo + 1)..(lo + n)
  BY <1>1
<1> QED
  BY <1>2, <1>4, <1>5 DEF Runs

RowPairs == [reference : Nat, actual : Nat]
Refs(path) == [k \in DOMAIN path |-> path[k].reference]
Acts(path) == [k \in DOMAIN path |-> path[k].actual]

LEMMA PairIs ==
  ASSUME NEW i \in Nat, NEW j \in Nat
  PROVE  Pair(i, j) \in RowPairs /\ Pair(i, j).reference = i /\ Pair(i, j).actual = j
BY DEF Pair, RowPairs

LEMMA SidesAre ==
  ASSUME NEW path \in Seq(RowPairs)
  PROVE  /\ Refs(path) \in Seq(Nat) /\ Len(Refs(path)) = Len(path)
         /\ Acts(path) \in Seq(Nat) /\ Len(Acts(path)) = Len(path)
         /\ \A k \in 1..Len(path) : Refs(path)[k] = path[k].reference /\ Acts(path)[k] = path[k].actual
                                    /\ path[k] \in RowPairs /\ path[k].reference \in Nat /\ path[k].actual \in Nat
<1>1. PICK n \in Nat : n = Len(path)
  OBVIOUS
<1>2. DOMAIN path = 1..n
  BY <1>1
<1>9. \A k \in 1..n : path[k] \in RowPairs
  BY <1>1, ElementOfSeq
<1>3. \A k \in 1..n : path[k] \in RowPairs /\ path[k].reference \in Nat /\ path[k].actual \in Nat
  BY <1>9 DEF RowPairs
<1>4. /\ Refs(path) = [k \in 1..n |-> path[k].reference]
      /\ Acts(path) = [k \in 1..n |-> path[k].actual]
  BY <1>2 DEF Refs, Acts
<1>5. PICK s : s = [k \in 1..n |-> path[k].reference]
  OBVIOUS
<1>6. PICK t : t = [k \in 1..n |-> path[k].actual]
  OBVIOUS
<1>7. s \in Seq(Nat) /\ Len(s) = n /\ \A k \in 1..n : s[k] = path[k].reference
  BY <1>3, <1>5
<1>8. t \in Seq(Nat) /\ Len(t) = n /\ \A k \in 1..n : t[k] = path[k].actual
  BY <1>3, <1>6
<1> QED
  BY <1>1, <1>3, <1>4, <1>5, <1>6, <1>7, <1>8

\* A sequence of n numbers followed by one of m.
OneAfter(s, x, y, n, m) ==
  /\ s \in Seq(Nat) /\ Len(s) = n + m
  /\ \A k \in 1..(n + m) : s[k] = IF k <= n THEN x[k] ELSE y[k - n]

LEMMA NumbersJoin ==
  ASSUME NEW x \in Seq(Nat), NEW y \in Seq(Nat), NEW n \in Nat, NEW m \in Nat, n = Len(x), m = Len(y)
  PROVE  OneAfter(x \o y, x, y, n, m)
<1>1. PICK s \in Seq(Nat) : s = x \o y
  BY ConcatProperties
<1>2. Len(s) = n + m
  BY <1>1, ConcatProperties
<1>3. \A k \in 1..(n + m) : s[k] = IF k <= n THEN x[k] ELSE y[k - n]
  BY <1>1, ConcatProperties
<1> QED
  BY <1>1, <1>2, <1>3 DEF OneAfter

LEMMA SidesJoin ==
  ASSUME NEW p \in Seq(RowPairs), NEW q \in Seq(RowPairs)
  PROVE  Refs(p \o q) = Refs(p) \o Refs(q) /\ Acts(p \o q) = Acts(p) \o Acts(q)
<1>1. PICK n \in Nat, m \in Nat : n = Len(p) /\ m = Len(q)
  OBVIOUS
<1>2. PICK u : u = p \o q
  OBVIOUS
<1>3. /\ u \in Seq(RowPairs) /\ Len(u) = n + m
      /\ \A k \in 1..(n + m) : u[k] = IF k <= n THEN p[k] ELSE q[k - n]
  BY <1>1, <1>2, ConcatProperties
<1>4. /\ Refs(u) \in Seq(Nat) /\ Len(Refs(u)) = n + m
      /\ Acts(u) \in Seq(Nat) /\ Len(Acts(u)) = n + m
      /\ \A k \in 1..(n + m) : Refs(u)[k] = u[k].reference /\ Acts(u)[k] = u[k].actual
  BY <1>3, SidesAre
<1>5. /\ Refs(p) \in Seq(Nat) /\ Len(Refs(p)) = n
      /\ Acts(p) \in Seq(Nat) /\ Len(Acts(p)) = n
      /\ \A k \in 1..n : Refs(p)[k] = p[k].reference /\ Acts(p)[k] = p[k].actual
  BY <1>1, SidesAre
<1>6. /\ Refs(q) \in Seq(Nat) /\ Len(Refs(q)) = m
      /\ Acts(q) \in Seq(Nat) /\ Len(Acts(q)) = m
      /\ \A k \in 1..m : Refs(q)[k] = q[k].reference /\ Acts(q)[k] = q[k].actual
  BY <1>1, SidesAre
<1>7. PICK s : s = Refs(p) \o Refs(q)
  OBVIOUS
<1>8. PICK t : t = Acts(p) \o Acts(q)
  OBVIOUS
<1>9. /\ s \in Seq(Nat) /\ Len(s) = n + m
      /\ \A k \in 1..(n + m) : s[k] = IF k <= n THEN Refs(p)[k] ELSE Refs(q)[k - n]
  <2>1. PICK x \in Seq(Nat), y \in Seq(Nat) :
          x = Refs(p) /\ y = Refs(q) /\ Len(x) = n /\ Len(y) = m
    BY <1>5, <1>6
  <2>2. OneAfter(x \o y, x, y, n, m)
    BY <2>1, NumbersJoin
  <2>3. OneAfter(s, x, y, n, m)
    BY <1>7, <2>1, <2>2
  <2> QED
    BY <2>1, <2>3 DEF OneAfter
<1>10. /\ t \in Seq(Nat) /\ Len(t) = n + m
       /\ \A k \in 1..(n + m) : t[k] = IF k <= n THEN Acts(p)[k] ELSE Acts(q)[k - n]
  <2>1. PICK x \in Seq(Nat), y \in Seq(Nat) :
          x = Acts(p) /\ y = Acts(q) /\ Len(x) = n /\ Len(y) = m
    BY <1>5, <1>6
  <2>2. OneAfter(x \o y, x, y, n, m)
    BY <2>1, NumbersJoin
  <2>3. OneAfter(t, x, y, n, m)
    BY <1>8, <2>1, <2>2
  <2> QED
    BY <2>1, <2>3 DEF OneAfter
<1>11. ASSUME NEW k \in 1..(n + m)
       PROVE  Refs(u)[k] = s[k] /\ Acts(u)[k] = t[k]
  <2>1. CASE k <= n
    <3>1. k \in 1..n
      BY <2>1
    <3>2. u[k] = p[k] /\ s[k] = Refs(p)[k] /\ t[k] = Acts(p)[k]
      BY <1>3, <1>9, <1>10, <2>1
    <3>3. Refs(p)[k] = p[k].reference /\ Acts(p)[k] = p[k].actual
      BY <1>5, <3>1
    <3> QED
      BY <1>4, <3>2, <3>3
  <2>2. CASE ~(k <= n)
    <3>1. PICK l \in 1..m : l = k - n
      BY <2>2
    <3>2. u[k] = q[l] /\ s[k] = Refs(q)[l] /\ t[k] = Acts(q)[l]
      BY <1>3, <1>9, <1>10, <2>2, <3>1
    <3>3. Refs(q)[l] = q[l].reference /\ Acts(q)[l] = q[l].actual
      BY <1>6
    <3> QED
      BY <1>4, <3>2, <3>3
  <2> QED
    BY <2>1, <2>2
<1>12. PICK N \in Nat : N = n + m
  OBVIOUS
<1>13. PICK ru \in Seq(Nat), au \in Seq(Nat) : ru = Refs(u) /\ au = Acts(u)
  BY <1>4
<1>14. Len(ru) = N /\ Len(au) = N /\ s \in Seq(Nat) /\ Len(s) = N /\ t \in Seq(Nat) /\ Len(t) = N
  BY <1>4, <1>9, <1>10, <1>12, <1>13
<1>15. \A k \in 1..N : ru[k] = s[k] /\ au[k] = t[k]
  BY <1>11, <1>12, <1>13
<1>16. ru = s
  BY <1>14, <1>15, SeqEqual
<1>17. au = t
  BY <1>14, <1>15, SeqEqual
<1> QED
  BY <1>2, <1>7, <1>8, <1>13, <1>16, <1>17

\* The records that a sequence of rows matches.
Matches(path) ==
  {e \in Nat \X Nat : e[1] # 0 /\ e[2] # 0 /\ \E k \in 1..Len(path) : path[k] = Pair(e[1], e[2])}

LEMMA MatchesJoin ==
  ASSUME NEW p \in Seq(RowPairs), NEW q \in Seq(RowPairs)
  PROVE  Matches(p \o q) = Matches(p) \cup Matches(q)
<1>1. PICK n \in Nat, m \in Nat : n = Len(p) /\ m = Len(q)
  OBVIOUS
<1>2. PICK u : u = p \o q
  OBVIOUS
<1>3. /\ u \in Seq(RowPairs) /\ Len(u) = n + m
      /\ \A k \in 1..(n + m) : u[k] = IF k <= n THEN p[k] ELSE q[k - n]
  BY <1>1, <1>2, ConcatProperties
<1>4. ASSUME NEW x
      PROVE  (\E k \in 1..(n + m) : u[k] = x) <=> (\E k \in 1..n : p[k] = x) \/ (\E k \in 1..m : q[k] = x)
  <2>1. ASSUME NEW k \in 1..(n + m)
        PROVE  (\E l \in 1..n : p[l] = u[k]) \/ (\E l \in 1..m : q[l] = u[k])
    <3>1. CASE k <= n
      <4>1. k \in 1..n
        BY <3>1
      <4> QED
        BY <1>3, <3>1, <4>1
    <3>2. CASE ~(k <= n)
      <4>1. k - n \in 1..m
        BY <3>2
      <4> QED
        BY <1>3, <3>2, <4>1
    <3> QED
      BY <3>1, <3>2
  <2>2. ASSUME NEW k \in 1..n
        PROVE  k \in 1..(n + m) /\ u[k] = p[k]
    BY <1>3
  <2>3. ASSUME NEW k \in 1..m
        PROVE  k + n \in 1..(n + m) /\ u[k + n] = q[k]
    <3>1. k + n \in 1..(n + m) /\ ~(k + n <= n) /\ (k + n) - n = k
      OBVIOUS
    <3> QED
      BY <1>3, <3>1
  <2> QED
    BY <2>1, <2>2, <2>3
<1>5. ASSUME NEW e \in Nat \X Nat
      PROVE  e \in Matches(u) <=> e \in Matches(p) \cup Matches(q)
  <2>1. PICK x : x = Pair(e[1], e[2])
    OBVIOUS
  <2>2. /\ e \in Matches(u) <=> (e[1] # 0 /\ e[2] # 0 /\ \E k \in 1..(n + m) : u[k] = x)
        /\ e \in Matches(p) <=> (e[1] # 0 /\ e[2] # 0 /\ \E k \in 1..n : p[k] = x)
        /\ e \in Matches(q) <=> (e[1] # 0 /\ e[2] # 0 /\ \E k \in 1..m : q[k] = x)
    BY <1>1, <1>3, <2>1 DEF Matches
  <2> QED
    BY <1>4, <2>2
<1>6. Matches(u) \subseteq Nat \X Nat /\ Matches(p) \subseteq Nat \X Nat /\ Matches(q) \subseteq Nat \X Nat
  BY DEF Matches
<1> QED
  BY <1>2, <1>5, <1>6

\* Rows that count all records after i up to n against those after j up to m.
Walks(path, i, n, j, m) == path \in Seq(RowPairs) /\ Runs(Refs(path), i, n) /\ Runs(Acts(path), j, m)

LEMMA WalksJoin ==
  ASSUME NEW i \in Nat, NEW k \in Nat, NEW n \in Nat, i <= k, k <= n,
         NEW j \in Nat, NEW l \in Nat, NEW m \in Nat, j <= l, l <= m,
         NEW p, NEW q, Walks(p, i, k, j, l), Walks(q, k, n, l, m)
  PROVE  Walks(p \o q, i, n, j, m) /\ Matches(p \o q) = Matches(p) \cup Matches(q)
<1>1. p \in Seq(RowPairs) /\ q \in Seq(RowPairs)
  BY DEF Walks
<1>2. Refs(p \o q) = Refs(p) \o Refs(q) /\ Acts(p \o q) = Acts(p) \o Acts(q)
  BY <1>1, SidesJoin
<1>3. p \o q \in Seq(RowPairs)
  BY <1>1, ConcatProperties
<1>4. Runs(Refs(p) \o Refs(q), i, n)
  BY RunsJoin DEF Walks
<1>5. Runs(Acts(p) \o Acts(q), j, m)
  BY RunsJoin DEF Walks
<1>6. Matches(p \o q) = Matches(p) \cup Matches(q)
  BY <1>1, MatchesJoin
<1> QED
  BY <1>2, <1>3, <1>4, <1>5, <1>6 DEF Walks

\* The rows of a run of gaps.
GapsAt(path, n, r0, a0, side) ==
  \A k \in 1..n : path[k] = IF side THEN Pair(r0 + k, 0) ELSE Pair(0, a0 + k)

LEMMA MatchesNothing ==
  ASSUME NEW path \in Seq(RowPairs),
         \A k \in 1..Len(path) : path[k].reference = 0 \/ path[k].actual = 0
  PROVE  Matches(path) = {}
<1>1. ASSUME NEW e \in Matches(path)
      PROVE  FALSE
  <2>1. PICK k \in 1..Len(path) : path[k] = Pair(e[1], e[2])
    BY DEF Matches
  <2>2. e[1] # 0 /\ e[2] # 0 /\ e[1] \in Nat /\ e[2] \in Nat
    BY DEF Matches
  <2>3. Pair(e[1], e[2]).reference = e[1] /\ Pair(e[1], e[2]).actual = e[2]
    BY <2>2, PairIs
  <2> QED
    BY <2>1, <2>2, <2>3
<1> QED
  BY <1>1

LEMMA ReferenceGaps ==
  ASSUME NEW n \in Nat, NEW r0 \in Nat, NEW a0 \in Nat, NEW path \in Seq(RowPairs), Len(path) = n,
         \A k \in 1..n : path[k] = Pair(r0 + k, 0)
  PROVE  Walks(path, r0, r0 + n, a0, a0) /\ Matches(path) = {}
<1>1. \A k \in 1..n : path[k].reference = r0 + k /\ path[k].actual = 0
  BY PairIs
<1>2. /\ Refs(path) \in Seq(Nat) /\ Len(Refs(path)) = n
      /\ Acts(path) \in Seq(Nat) /\ Len(Acts(path)) = n
      /\ \A k \in 1..n : Refs(path)[k] = r0 + k /\ Acts(path)[k] = 0
  BY <1>1, SidesAre
<1>3. Runs(Refs(path), r0, r0 + n) /\ Runs(Acts(path), a0, a0)
  BY <1>2, RunsAll, RunsEmpty
<1>4. Matches(path) = {}
  BY <1>1, MatchesNothing
<1> QED
  BY <1>3, <1>4 DEF Walks

LEMMA ActualGaps ==
  ASSUME NEW n \in Nat, NEW r0 \in Nat, NEW a0 \in Nat, NEW path \in Seq(RowPairs), Len(path) = n,
         \A k \in 1..n : path[k] = Pair(0, a0 + k)
  PROVE  Walks(path, r0, r0, a0, a0 + n) /\ Matches(path) = {}
<1>1. \A k \in 1..n : path[k].reference = 0 /\ path[k].actual = a0 + k
  BY PairIs
<1>2. /\ Refs(path) \in Seq(Nat) /\ Len(Refs(path)) = n
      /\ Acts(path) \in Seq(Nat) /\ Len(Acts(path)) = n
      /\ \A k \in 1..n : Refs(path)[k] = 0 /\ Acts(path)[k] = a0 + k
  BY <1>1, SidesAre
<1>3. Runs(Refs(path), r0, r0) /\ Runs(Acts(path), a0, a0 + n)
  BY <1>2, RunsAll, RunsEmpty
<1>4. Matches(path) = {}
  BY <1>1, MatchesNothing
<1> QED
  BY <1>3, <1>4 DEF Walks

LEMMA MatchedRow ==
  ASSUME NEW r0 \in Nat, NEW a0 \in Nat, NEW path \in Seq(RowPairs), Len(path) = 1,
         path[1] = Pair(r0 + 1, a0 + 1)
  PROVE  Walks(path, r0, r0 + 1, a0, a0 + 1) /\ Matches(path) = {<<r0 + 1, a0 + 1>>}
<1>1. path[1].reference = r0 + 1 /\ path[1].actual = a0 + 1
  BY PairIs
<1>2. /\ Refs(path) \in Seq(Nat) /\ Len(Refs(path)) = 1
      /\ Acts(path) \in Seq(Nat) /\ Len(Acts(path)) = 1
      /\ \A k \in 1..1 : Refs(path)[k] = r0 + k /\ Acts(path)[k] = a0 + k
  BY SMTT(30), <1>1, SidesAre
<1>3. Runs(Refs(path), r0, r0 + 1) /\ Runs(Acts(path), a0, a0 + 1)
  BY <1>2, RunsAll
<1>4. Matches(path) = {<<r0 + 1, a0 + 1>>}
  <2>1. ASSUME NEW e \in Matches(path)
        PROVE  e = <<r0 + 1, a0 + 1>>
    <3>1. PICK k \in 1..1 : path[k] = Pair(e[1], e[2])
      BY DEF Matches
    <3>2. e \in Nat \X Nat /\ e[1] \in Nat /\ e[2] \in Nat /\ e = <<e[1], e[2]>>
      BY DEF Matches
    <3>3. path[1].reference = e[1] /\ path[1].actual = e[2]
      BY <3>1, <3>2, PairIs
    <3> QED
      BY <1>1, <3>2, <3>3
  <2>2. <<r0 + 1, a0 + 1>> \in Matches(path)
    <3>1. PICK e : e = <<r0 + 1, a0 + 1>>
      OBVIOUS
    <3>2. e \in Nat \X Nat /\ e[1] # 0 /\ e[2] # 0 /\ path[1] = Pair(e[1], e[2])
      BY <3>1
    <3>3. \E k \in 1..Len(path) : path[k] = Pair(e[1], e[2])
      BY <3>2
    <3> QED
      BY <3>1, <3>2, <3>3 DEF Matches
  <2> QED
    BY <2>1, <2>2
<1> QED
  BY <1>3, <1>4 DEF Walks

Alignments == [cost : Int, path : Seq(RowPairs)]
Scored(scores, r0, n, a0, m, options) ==
  /\ \A i \in 1..n, j \in 1..m : scores[<<r0 + i, a0 + j>>] \in Int
  /\ options.gap \in Int /\ options.threshold \in Int

SegmentStep(scores, r0, a0, options, f, p) ==
  LET i == p[1]  j == p[2]
  IN IF i = 0 \/ j = 0
     THEN [cost |-> (i + j) * options.gap,
           path |-> [k \in 1..(i + j) |-> IF j = 0 THEN Pair(r0 + k, 0) ELSE Pair(0, a0 + k)]]
     ELSE LET score == scores[<<r0 + i, a0 + j>>]
              both == f[<<i - 1, j - 1>>].cost + Percent(100) - score
              skip == f[<<i - 1, j>>].cost + options.gap
              extra == f[<<i, j - 1>>].cost + options.gap
          IN IF MayMatch(score, options) /\ both <= skip /\ both <= extra
             THEN [cost |-> both, path |-> Append(f[<<i - 1, j - 1>>].path, Pair(r0 + i, a0 + j))]
             ELSE IF skip <= extra
             THEN [cost |-> skip, path |-> Append(f[<<i - 1, j>>].path, Pair(r0 + i, 0))]
             ELSE [cost |-> extra, path |-> Append(f[<<i, j - 1>>].path, Pair(0, a0 + j))]

SegmentOf(scores, r0, n, a0, m, options) ==
  LET dp[p \in (0..n) \X (0..m)] ==
        LET i == p[1]  j == p[2]
        IN IF i = 0 \/ j = 0
           THEN [cost |-> (i + j) * options.gap,
                 path |-> [k \in 1..(i + j) |-> IF j = 0 THEN Pair(r0 + k, 0) ELSE Pair(0, a0 + k)]]
           ELSE LET score == scores[<<r0 + i, a0 + j>>]
                    both == dp[<<i - 1, j - 1>>].cost + Percent(100) - score
                    skip == dp[<<i - 1, j>>].cost + options.gap
                    extra == dp[<<i, j - 1>>].cost + options.gap
                IN IF MayMatch(score, options) /\ both <= skip /\ both <= extra
                   THEN [cost |-> both, path |-> Append(dp[<<i - 1, j - 1>>].path, Pair(r0 + i, a0 + j))]
                   ELSE IF skip <= extra
                   THEN [cost |-> skip, path |-> Append(dp[<<i - 1, j>>].path, Pair(r0 + i, 0))]
                   ELSE [cost |-> extra, path |-> Append(dp[<<i, j - 1>>].path, Pair(0, a0 + j))]
  IN dp

LEMMA PercentType == Percent(100) \in Nat
BY CompareAlgorithmsAssumption DEF Percent

\* A segment without records on one side.
GapRow(r0, a0, j, k) == IF j = 0 THEN Pair(r0 + k, 0) ELSE Pair(0, a0 + k)
GapPath(r0, a0, i, j) == [k \in 1..(i + j) |-> IF j = 0 THEN Pair(r0 + k, 0) ELSE Pair(0, a0 + k)]

LEMMA GapRows ==
  ASSUME NEW r0 \in Nat, NEW a0 \in Nat, NEW i \in Nat, NEW j \in Nat
  PROVE  /\ GapPath(r0, a0, i, j) \in Seq(RowPairs) /\ Len(GapPath(r0, a0, i, j)) = i + j
         /\ \A k \in 1..(i + j) : GapPath(r0, a0, i, j)[k] = GapRow(r0, a0, j, k)
<1>1. PICK n \in Nat : n = i + j
  OBVIOUS
<1>2. \A k \in 1..n : GapRow(r0, a0, j, k) \in RowPairs
  BY PairIs DEF GapRow
<1>3. GapPath(r0, a0, i, j) = [k \in 1..n |-> GapRow(r0, a0, j, k)]
  BY <1>1 DEF GapPath, GapRow
<1>4. PICK path : path = [k \in 1..n |-> GapRow(r0, a0, j, k)]
  OBVIOUS
<1>5. path \in Seq(RowPairs) /\ Len(path) = n /\ \A k \in 1..n : path[k] = GapRow(r0, a0, j, k)
  BY <1>2, <1>4
<1> QED
  BY <1>1, <1>3, <1>4, <1>5

LEMMA SegmentStepLooksBack ==
  ASSUME NEW n \in Nat, NEW m \in Nat, NEW r0 \in Nat, NEW a0 \in Nat, NEW scores, NEW options,
         Scored(scores, r0, n, a0, m, options), NEW D, D = Grid(n, m), NEW p \in D, NEW f, NEW h,
         \A q \in Under(D, Before(n, m), p) : f[q] = h[q] /\ f[q] \in Alignments
  PROVE  /\ SegmentStep(scores, r0, a0, options, f, p) = SegmentStep(scores, r0, a0, options, h, p)
         /\ SegmentStep(scores, r0, a0, options, f, p) \in Alignments
<1>1. PICK i \in 0..n, j \in 0..m : BackFrom(n, m, D, p, i, j)
  BY LooksBack
<1>2. /\ p = <<i, j>> /\ p[1] = i /\ p[2] = j
      /\ i # 0 => <<i - 1, j>> \in Under(D, Before(n, m), p)
      /\ j # 0 => <<i, j - 1>> \in Under(D, Before(n, m), p)
      /\ (i # 0 /\ j # 0) => <<i - 1, j - 1>> \in Under(D, Before(n, m), p)
  BY <1>1 DEF BackFrom
<1>3. CASE i = 0 \/ j = 0
  <2>1. PICK path : path = GapPath(r0, a0, i, j)
    OBVIOUS
  <2>2. path \in Seq(RowPairs)
    <3>1. i \in Nat /\ j \in Nat
      OBVIOUS
    <3> QED
      BY <2>1, <3>1, GapRows
  <2>3. PICK cost \in Int : cost = (i + j) * options.gap
    BY DEF Scored
  <2>4. /\ SegmentStep(scores, r0, a0, options, f, p) = [cost |-> cost, path |-> path]
        /\ SegmentStep(scores, r0, a0, options, h, p) = [cost |-> cost, path |-> path]
    BY <1>2, <1>3, <2>1, <2>3 DEF SegmentStep, GapPath
  <2> QED
    BY <2>2, <2>4 DEF Alignments
<1>4. CASE i # 0 /\ j # 0
  <2>1. PICK x \in Alignments : x = f[<<i - 1, j>>] /\ x = h[<<i - 1, j>>]
    BY <1>2, <1>4
  <2>2. PICK y \in Alignments : y = f[<<i, j - 1>>] /\ y = h[<<i, j - 1>>]
    BY <1>2, <1>4
  <2>3. PICK z \in Alignments : z = f[<<i - 1, j - 1>>] /\ z = h[<<i - 1, j - 1>>]
    BY <1>2, <1>4
  <2>4. PICK score \in Int : score = scores[<<r0 + i, a0 + j>>]
    <3>1. i \in 1..n /\ j \in 1..m
      BY <1>4
    <3> QED
      BY <3>1 DEF Scored
  <2>5. PICK both \in Int, skip \in Int, extra \in Int :
          both = z.cost + Percent(100) - score /\ skip = x.cost + options.gap /\ extra = y.cost + options.gap
    <3>1. PICK gap \in Int, full \in Int : gap = options.gap /\ full = Percent(100)
      BY PercentType DEF Scored
    <3>2. PICK cx \in Int, cy \in Int, cz \in Int : cx = x.cost /\ cy = y.cost /\ cz = z.cost
      BY DEF Alignments
    <3>3. cz + full - score \in Int /\ cx + gap \in Int /\ cy + gap \in Int
      OBVIOUS
    <3> QED
      BY <3>1, <3>2, <3>3
  <2> DEFINE R == IF MayMatch(score, options) /\ both <= skip /\ both <= extra
                  THEN [cost |-> both, path |-> Append(z.path, Pair(r0 + i, a0 + j))]
                  ELSE IF skip <= extra THEN [cost |-> skip, path |-> Append(x.path, Pair(r0 + i, 0))]
                  ELSE [cost |-> extra, path |-> Append(y.path, Pair(0, a0 + j))]
  <2>6. /\ SegmentStep(scores, r0, a0, options, f, p) = R
        /\ SegmentStep(scores, r0, a0, options, h, p) = R
    BY ZenonT(30), <1>2, <1>4, <2>1, <2>2, <2>3, <2>4, <2>5 DEF SegmentStep
  <2>7. x.path \in Seq(RowPairs) /\ y.path \in Seq(RowPairs) /\ z.path \in Seq(RowPairs)
    BY DEF Alignments
  <2>8. Pair(r0 + i, a0 + j) \in RowPairs /\ Pair(r0 + i, 0) \in RowPairs /\ Pair(0, a0 + j) \in RowPairs
    BY PairIs
  <2>9. /\ Append(z.path, Pair(r0 + i, a0 + j)) \in Seq(RowPairs)
        /\ Append(x.path, Pair(r0 + i, 0)) \in Seq(RowPairs)
        /\ Append(y.path, Pair(0, a0 + j)) \in Seq(RowPairs)
    BY <2>7, <2>8, AppendProperties
  <2>10. R \in Alignments
    BY <2>9 DEF Alignments
  <2> HIDE DEF R
  <2> QED
    BY <2>6, <2>10
<1> QED
  BY <1>3, <1>4

IsSegment(f, scores, r0, n, a0, m, options) ==
  /\ f \in [Grid(n, m) -> Alignments]
  /\ \A p \in Grid(n, m) : f[p] = SegmentStep(scores, r0, a0, options, f, p)

LEMMA SegmentExists ==
  ASSUME NEW n \in Nat, NEW m \in Nat, NEW r0 \in Nat, NEW a0 \in Nat, NEW scores, NEW options,
         Scored(scores, r0, n, a0, m, options)
  PROVE  \E f : IsSegment(f, scores, r0, n, a0, m, options)
<1>1. n \in Nat /\ m \in Nat
  OBVIOUS
<1>2. PICK D : D = Grid(n, m)
  OBVIOUS
<1>3. PICK rank : rank = Before(n, m)
  OBVIOUS
<1>4. PICK N \in Nat : N = n + m
  BY <1>1
<1>5. rank \in [D -> 0..N]
  BY <1>1, <1>2, <1>3, <1>4, RankOfGrid
<1>6. PICK V : V = Alignments
  OBVIOUS
<1>7. PICK Dom : Dom = (UNION {[Under(D, rank, p) -> V] : p \in D}) \X D
  OBVIOUS
<1> DEFINE step == [x \in Dom |-> SegmentStep(scores, r0, a0, options, x[1], x[2])]
<1>8. ASSUME NEW p \in D, NEW h \in [Under(D, rank, p) -> V]
      PROVE  step[<<h, p>>] = SegmentStep(scores, r0, a0, options, h, p) /\ step[<<h, p>>] \in V
  <2>1. PICK x : x = <<h, p>>
    OBVIOUS
  <2>2. x \in Dom /\ x[1] = h /\ x[2] = p
    BY <1>7, <2>1
  <2>3. step[x] = SegmentStep(scores, r0, a0, options, x[1], x[2])
    BY <2>2
  <2>4. SegmentStep(scores, r0, a0, options, h, p) \in Alignments
    <3>1. \A q \in Under(D, Before(n, m), p) : h[q] = h[q] /\ h[q] \in Alignments
      BY <1>3, <1>6
    <3> QED
      BY <1>2, <3>1, SegmentStepLooksBack
  <2> HIDE DEF step
  <2> QED
    BY <1>6, <2>1, <2>2, <2>3, <2>4
<1>9. Typed(D, V, rank, step)
  <2> HIDE DEF step
  <2> QED
    BY <1>8 DEF Typed
<1>10. PICK f : Solves(f, D, D, V, rank, step)
  <2> HIDE DEF step
  <2> QED
    BY <1>5, <1>9, RecursionExists
<1>11. ASSUME NEW p \in D
       PROVE  f[p] = SegmentStep(scores, r0, a0, options, f, p)
  <2>1. PICK h : h = Known(f, D, rank, p)
    OBVIOUS
  <2>2. Under(D, rank, p) \subseteq D /\ f \in [D -> V]
    BY <1>10 DEF Under, Solves
  <2>3. h \in [Under(D, rank, p) -> V] /\ \A q \in Under(D, rank, p) : h[q] = f[q] /\ h[q] \in V
    BY <2>1, <2>2 DEF Known
  <2>4. f[p] = step[<<h, p>>]
    BY <1>10, <2>1 DEF Solves
  <2>5. step[<<h, p>>] = SegmentStep(scores, r0, a0, options, h, p)
    BY <1>8, <2>3
  <2>6. SegmentStep(scores, r0, a0, options, h, p) = SegmentStep(scores, r0, a0, options, f, p)
    <3>1. \A q \in Under(D, Before(n, m), p) : h[q] = f[q] /\ h[q] \in Alignments
      BY <1>3, <1>6, <2>3
    <3> HIDE DEF step
    <3> QED
      BY <1>2, <3>1, SegmentStepLooksBack
  <2> HIDE DEF step
  <2> QED
    BY <2>4, <2>5, <2>6
<1>12. f \in [D -> Alignments]
  BY <1>6, <1>10 DEF Solves
<1> QED
  BY <1>2, <1>11, <1>12 DEF IsSegment

LEMMA SegmentIs ==
  ASSUME NEW n \in Nat, NEW m \in Nat, NEW r0 \in Nat, NEW a0 \in Nat, NEW scores, NEW options,
         Scored(scores, r0, n, a0, m, options)
  PROVE  IsSegment(SegmentOf(scores, r0, n, a0, m, options), scores, r0, n, a0, m, options)
<1>1. PICK D : D = Grid(n, m)
  OBVIOUS
<1> DEFINE Eq(f) == f = [p \in D |-> SegmentStep(scores, r0, a0, options, f, p)]
<1>2. SegmentOf(scores, r0, n, a0, m, options) = CHOOSE f : Eq(f)
  BY <1>1 DEF SegmentOf, SegmentStep, Grid
<1>3. PICK f : IsSegment(f, scores, r0, n, a0, m, options)
  BY SegmentExists
<1>4. Eq(f)
  BY <1>1, <1>3 DEF IsSegment
<1>5. PICK F : F = SegmentOf(scores, r0, n, a0, m, options)
  OBVIOUS
<1>6. Eq(F)
  <2> HIDE DEF Eq
  <2> QED
    BY <1>2, <1>4, <1>5
<1>7. PICK rank : rank = Before(n, m)
  OBVIOUS
<1>8. rank \in [D -> Nat]
  BY <1>1, <1>7, RankOfGrid
<1>9. ASSUME NEW p \in D, \A q \in Under(D, rank, p) : f[q] = F[q]
      PROVE  f[p] = F[p]
  <2>1. \A q \in Under(D, Before(n, m), p) : f[q] = F[q] /\ f[q] \in Alignments
    BY <1>1, <1>3, <1>7, <1>9 DEF IsSegment, Under
  <2>2. SegmentStep(scores, r0, a0, options, f, p) = SegmentStep(scores, r0, a0, options, F, p)
    BY <1>1, <2>1, SegmentStepLooksBack
  <2> QED
    BY <1>4, <1>6, <2>2
<1>10. f = F
  <2>1. IsFcn(f, D) /\ IsFcn(F, D)
    BY <1>4, <1>6 DEF IsFcn
  <2>2. Settled(f, F, D, rank)
    BY <1>9 DEF Settled
  <2> QED
    BY <1>8, <2>1, <2>2, OneSolution
<1> QED
  BY <1>3, <1>5, <1>10

\* The pairs that may be matched, and what a match costs more than two gaps.
Allowed(scores, n, m, options) == {p \in Pairs(n, m) : scores[p] >= options.threshold}
Extra(scores, n, m, options) == [p \in Pairs(n, m) |-> Percent(100) - scores[p] - 2 * options.gap]

\* What the aligner is given.
Table(scores, n, m, options) ==
  /\ \A p \in Pairs(n, m) : scores[p] \in Nat
  /\ options.gap \in Int /\ options.threshold \in Int

LEMMA ExtraPriced ==
  ASSUME NEW n \in Nat, NEW m \in Nat, NEW scores, NEW options, Table(scores, n, m, options)
  PROVE  /\ Priced(Extra(scores, n, m, options), Allowed(scores, n, m, options))
         /\ Allowed(scores, n, m, options) \in SUBSET (Nat \X Nat)
         /\ Allowed(scores, n, m, options) \in SUBSET Pairs(n, m)
<1>1. PICK E \in SUBSET Pairs(n, m) : E = Allowed(scores, n, m, options)
  BY DEF Allowed
<1>2. PICK g : g = Extra(scores, n, m, options)
  OBVIOUS
<1>3. IsFiniteSet(Pairs(n, m)) /\ Pairs(n, m) \in SUBSET (Nat \X Nat)
  BY PairsAre
<1>4. IsFiniteSet(E) /\ E \in SUBSET (Nat \X Nat)
  BY <1>3, FS_Subset
<1>5. ASSUME NEW p \in E
      PROVE  g[p] \in Int
  <2>1. p \in Pairs(n, m)
    OBVIOUS
  <2>2. PICK s \in Int, gap \in Int, full \in Int :
          s = scores[p] /\ gap = options.gap /\ full = Percent(100)
    BY <2>1, PercentType DEF Table
  <2>3. g[p] = full - s - 2 * gap
    BY <1>2, <2>1, <2>2 DEF Extra
  <2> QED
    BY <2>3
<1> QED
  BY <1>1, <1>2, <1>4, <1>5 DEF Priced

LEMMA GapMore ==
  ASSUME NEW gap \in Int, NEW k \in Int
  PROVE  gap * (k - 1) + gap = gap * k /\ gap * (k - 2) + 2 * gap = gap * k /\ gap * k \in Int
         /\ k * gap = gap * k
OBVIOUS

\* Of the records after i up to n against those after j up to m.
Aligned(d, g, gap, E, i, n, j, m) ==
  /\ Walks(d.path, i, n, j, m)
  /\ Matches(d.path) \in Ways(Within(E, i, n, j, m))
  /\ Cheapest(Total(g, Matches(d.path)), g, Within(E, i, n, j, m))
  /\ d.cost = gap * ((n - i) + (m - j)) + Total(g, Matches(d.path))

GapsOnly(path, r0, a0, i, j) ==
  /\ path \in Seq(RowPairs) /\ Len(path) = i + j
  /\ \A k \in 1..(i + j) : path[k] = GapRow(r0, a0, j, k)

LEMMA GapsOnlyIs ==
  ASSUME NEW r0 \in Nat, NEW a0 \in Nat, NEW i \in Nat, NEW j \in Nat
  PROVE  GapsOnly(GapPath(r0, a0, i, j), r0, a0, i, j)
BY ZenonT(30), GapRows DEF GapsOnly

LEMMA AlignedGaps ==
  ASSUME NEW g, NEW E, Priced(g, E), NEW gap \in Int,
         NEW r0 \in Nat, NEW a0 \in Nat, NEW i \in Nat, NEW j \in Nat, i = 0 \/ j = 0,
         NEW d, d = [cost |-> (i + j) * gap, path |-> GapPath(r0, a0, i, j)]
  PROVE  Aligned(d, g, gap, E, r0, r0 + i, a0, a0 + j)
<1>1. PICK path : path = GapPath(r0, a0, i, j)
  OBVIOUS
<1>11. GapsOnly(path, r0, a0, i, j)
  BY <1>1, GapsOnlyIs
<1>2. /\ path \in Seq(RowPairs) /\ Len(path) = i + j
      /\ \A k \in 1..(i + j) : path[k] = GapRow(r0, a0, j, k)
  BY <1>11 DEF GapsOnly
<1>3. Walks(path, r0, r0 + i, a0, a0 + j) /\ Matches(path) = {}
  <2>1. CASE j = 0
    <3>1. Len(path) = i /\ a0 + j = a0 /\ \A k \in 1..i : path[k] = Pair(r0 + k, 0)
      BY <1>2, <2>1 DEF GapRow
    <3> QED
      BY <1>2, <3>1, ReferenceGaps
  <2>2. CASE j # 0
    <3>1. Len(path) = j /\ r0 + i = r0 /\ \A k \in 1..j : path[k] = Pair(0, a0 + k)
      BY <1>2, <2>2 DEF GapRow
    <3> QED
      BY <1>2, <3>1, ActualGaps
  <2> QED
    BY <2>1, <2>2
<1>4. PICK n \in Nat, m \in Nat : n = r0 + i /\ m = a0 + j
  OBVIOUS
<1>5. Within(E, r0, n, a0, m) = {}
  <2>1. r0 >= n \/ a0 >= m
    BY <1>4
  <2>2. E \in SUBSET (Nat \X Nat)
    BY DEF Priced
  <2> QED
    BY <2>1, <2>2, WithinNothing
<1>6. {} \in Ways({})
  BY DEF Ways, InOrder
<1>7. PICK t \in Int : t = Total(g, {}) /\ t = 0
  BY TotalEmpty
<1>8. Cheapest(t, g, {})
  BY <1>7, NothingToMatch
<1>9. d.cost = (i + j) * gap /\ d.path = path
  BY <1>1
<1>10. (i + j) * gap = gap * ((n - r0) + (m - a0)) + t
  <2>1. (n - r0) + (m - a0) = i + j
    BY <1>4
  <2>2. PICK k \in Int : k = i + j
    OBVIOUS
  <2>3. k * gap = gap * k + 0
    BY GapMore
  <2> QED
    BY <1>7, <2>1, <2>2, <2>3
<1> QED
  BY <1>3, <1>4, <1>5, <1>6, <1>7, <1>8, <1>9, <1>10 DEF Aligned

\* One more row.
LEMMA WalksMore ==
  ASSUME NEW i \in Nat, NEW n \in Nat, NEW j \in Nat, NEW m \in Nat, i < n, j < m, NEW path
  PROVE  /\ Walks(path, i, n - 1, j, m - 1) =>
              /\ Walks(Append(path, Pair(n, m)), i, n, j, m)
              /\ Matches(Append(path, Pair(n, m))) = Matches(path) \cup {<<n, m>>}
         /\ Walks(path, i, n - 1, j, m) =>
              /\ Walks(Append(path, Pair(n, 0)), i, n, j, m)
              /\ Matches(Append(path, Pair(n, 0))) = Matches(path)
         /\ Walks(path, i, n, j, m - 1) =>
              /\ Walks(Append(path, Pair(0, m)), i, n, j, m)
              /\ Matches(Append(path, Pair(0, m))) = Matches(path)
<1>1. PICK x \in Nat, y \in Nat : x = n - 1 /\ y = m - 1 /\ x + 1 = n /\ y + 1 = m
  <2>1. n - 1 \in Nat /\ m - 1 \in Nat /\ (n - 1) + 1 = n /\ (m - 1) + 1 = m
    OBVIOUS
  <2> QED
    BY <2>1
<1>2. i <= x /\ x <= n /\ j <= y /\ y <= m /\ i <= n /\ j <= m /\ n <= n /\ m <= m
  BY <1>1
<1>3. ASSUME NEW p \in RowPairs, path \in Seq(RowPairs)
      PROVE  \E one \in Seq(RowPairs) : /\ Len(one) = 1 /\ one[1] = p
                                        /\ Append(path, p) = path \o one
  <2>1. PICK one : one = <<p>>
    OBVIOUS
  <2>2. one \in Seq(RowPairs) /\ Len(one) = 1 /\ one[1] = p
    BY <2>1
  <2>3. Append(path, p) = path \o one
    BY <1>3, <2>1, AppendIsConcat
  <2> QED
    BY <2>2, <2>3
<1>4. ASSUME Walks(path, i, x, j, y)
      PROVE  /\ Walks(Append(path, Pair(n, m)), i, n, j, m)
             /\ Matches(Append(path, Pair(n, m))) = Matches(path) \cup {<<n, m>>}
  <2>1. path \in Seq(RowPairs) /\ Pair(n, m) \in RowPairs
    BY <1>4, PairIs DEF Walks
  <2>2. PICK one \in Seq(RowPairs) : /\ Len(one) = 1 /\ one[1] = Pair(n, m)
                                     /\ Append(path, Pair(n, m)) = path \o one
    BY <1>3, <2>1
  <2>3. Walks(one, x, n, y, m) /\ Matches(one) = {<<n, m>>}
    <3>1. one[1] = Pair(x + 1, y + 1)
      BY <1>1, <2>2
    <3>2. Walks(one, x, x + 1, y, y + 1) /\ Matches(one) = {<<x + 1, y + 1>>}
      BY <2>2, <3>1, MatchedRow
    <3> QED
      BY <1>1, <3>2
  <2> QED
    BY SMTT(30), <1>2, <1>4, <2>2, <2>3, WalksJoin
<1>5. ASSUME Walks(path, i, x, j, m)
      PROVE  /\ Walks(Append(path, Pair(n, 0)), i, n, j, m)
             /\ Matches(Append(path, Pair(n, 0))) = Matches(path)
  <2>1. path \in Seq(RowPairs) /\ Pair(n, 0) \in RowPairs
    BY <1>5, PairIs DEF Walks
  <2>2. PICK one \in Seq(RowPairs) : /\ Len(one) = 1 /\ one[1] = Pair(n, 0)
                                     /\ Append(path, Pair(n, 0)) = path \o one
    BY <1>3, <2>1
  <2>3. Walks(one, x, n, m, m) /\ Matches(one) = {}
    <3>1. \A k \in 1..1 : one[k] = Pair(x + k, 0)
      BY <1>1, <2>2
    <3>2. Walks(one, x, x + 1, m, m) /\ Matches(one) = {}
      BY <2>2, <3>1, ReferenceGaps
    <3> QED
      BY <1>1, <3>2
  <2>4. Walks(path \o one, i, n, j, m) /\ Matches(path \o one) = Matches(path) \cup Matches(one)
    <3>1. PICK z \in Nat : z = m
      OBVIOUS
    <3>2. Walks(path, i, x, j, z) /\ Walks(one, x, n, z, m) /\ j <= z /\ z <= m
      BY <1>2, <1>5, <2>3, <3>1
    <3>3. i <= x /\ x <= n
      BY <1>2
    <3> QED
      BY <3>2, <3>3, WalksJoin
  <2> QED
    BY <2>2, <2>3, <2>4
<1>6. ASSUME Walks(path, i, n, j, y)
      PROVE  /\ Walks(Append(path, Pair(0, m)), i, n, j, m)
             /\ Matches(Append(path, Pair(0, m))) = Matches(path)
  <2>1. path \in Seq(RowPairs) /\ Pair(0, m) \in RowPairs
    BY <1>6, PairIs DEF Walks
  <2>2. PICK one \in Seq(RowPairs) : /\ Len(one) = 1 /\ one[1] = Pair(0, m)
                                     /\ Append(path, Pair(0, m)) = path \o one
    BY <1>3, <2>1
  <2>3. Walks(one, n, n, y, m) /\ Matches(one) = {}
    <3>1. \A k \in 1..1 : one[k] = Pair(0, y + k)
      BY <1>1, <2>2
    <3>2. Walks(one, n, n, y, y + 1) /\ Matches(one) = {}
      BY SMTT(30), <2>2, <3>1, ActualGaps
    <3> QED
      BY <1>1, <3>2
  <2>4. Walks(path \o one, i, n, j, m) /\ Matches(path \o one) = Matches(path) \cup Matches(one)
    <3>1. PICK z \in Nat : z = n
      OBVIOUS
    <3>2. Walks(path, i, z, j, y) /\ Walks(one, z, n, y, m) /\ i <= z /\ z <= n
      BY <1>2, <1>6, <2>3, <3>1
    <3>3. j <= y /\ y <= m
      BY <1>2
    <3> QED
      BY <3>2, <3>3, WalksJoin
  <2> QED
    BY <2>2, <2>3, <2>4
<1> QED
  BY <1>1, <1>4, <1>5, <1>6

\* The three ways to come to the end of both sides.
Both(z, g, gap, n, m) == [cost |-> z.cost + 2 * gap + g[<<n, m>>], path |-> Append(z.path, Pair(n, m))]
Skip(x, gap, n) == [cost |-> x.cost + gap, path |-> Append(x.path, Pair(n, 0))]
Insert(y, gap, m) == [cost |-> y.cost + gap, path |-> Append(y.path, Pair(0, m))]

\* What came before the end.
Around(x, y, z, g, gap, E, i, n, j, m) ==
  /\ Aligned(x, g, gap, E, i, n - 1, j, m)
  /\ Aligned(y, g, gap, E, i, n, j, m - 1)
  /\ Aligned(z, g, gap, E, i, n - 1, j, m - 1)

\* A way is as good as the total of its matches.
Reaches(d, t, g, gap, E, i, n, j, m) ==
  /\ Walks(d.path, i, n, j, m)
  /\ Matches(d.path) \in Ways(Within(E, i, n, j, m))
  /\ t = Total(g, Matches(d.path))
  /\ d.cost = gap * ((n - i) + (m - j)) + t

LEMMA MoreRows ==
  ASSUME NEW gap \in Int, NEW k \in Int, NEW l \in Int, NEW t \in Int
  PROVE  l = k - 1 => (gap * l + t) + gap = gap * k + t
<1>1. PICK b \in Int, c \in Int : b = gap * l /\ c = gap * k
  OBVIOUS
<1>2. ASSUME l = k - 1
      PROVE  b + gap = c
  BY <1>1, <1>2, GapMore
<1>3. l = k - 1 => (b + t) + gap = c + t
  BY <1>2
<1> QED
  BY <1>1, <1>3

LEMMA MoreMatched ==
  ASSUME NEW gap \in Int, NEW k \in Int, NEW l \in Int, NEW t \in Int, NEW v \in Int, l = k - 2
  PROVE  (gap * l + t) + 2 * gap + v = gap * k + (t + v)
<1>1. PICK b \in Int, c \in Int : b = gap * l /\ c = gap * k
  OBVIOUS
<1>2. b + 2 * gap = c
  BY <1>1, GapMore
<1>3. (b + t) + 2 * gap + v = c + (t + v)
  BY <1>2
<1> QED
  BY <1>1, <1>3

LEMMA SkipReaches ==
  ASSUME NEW g, NEW E, Priced(g, E), NEW gap \in Int,
         NEW i \in Nat, NEW n \in Nat, NEW j \in Nat, NEW m \in Nat, i < n, j < m,
         NEW x, Aligned(x, g, gap, E, i, n - 1, j, m), NEW t \in Int, t = Total(g, Matches(x.path))
  PROVE  Reaches(Skip(x, gap, n), t, g, gap, E, i, n, j, m)
<1>1. PICK d : d = Skip(x, gap, n)
  OBVIOUS
<1>2. d.cost = x.cost + gap /\ d.path = Append(x.path, Pair(n, 0))
  BY <1>1 DEF Skip
<1>3. Walks(x.path, i, n - 1, j, m)
  BY DEF Aligned
<1>4. Walks(d.path, i, n, j, m) /\ Matches(d.path) = Matches(x.path)
  BY <1>2, <1>3, WalksMore
<1>5. PICK W : W = Within(E, i, n, j, m)
  OBVIOUS
<1>6. Matches(x.path) \in Ways(W)
  <2>1. Matches(x.path) \in Ways(Within(E, i, n - 1, j, m))
    BY DEF Aligned
  <2>2. OffRow(W, <<n, m>>) = Within(E, i, n - 1, j, m)
    BY <1>5, LastCorner DEF Priced
  <2> QED
    BY <2>1, <2>2, WaysGrow
<1>7. PICK k \in Int : k = (n - i) + (m - j)
  OBVIOUS
<1>8. PICK l \in Int : l = ((n - 1) - i) + (m - j) /\ l = k - 1
  <2>1. ((n - 1) - i) + (m - j) = k - 1
    BY <1>7
  <2> QED
    BY <2>1
<1>9. x.cost = gap * l + t
  BY <1>8 DEF Aligned
<1>10. (gap * l + t) + gap = gap * k + t
  BY <1>8, MoreRows
<1>11. d.cost = gap * k + t
  BY <1>2, <1>9, <1>10
<1> QED
  BY <1>1, <1>4, <1>5, <1>6, <1>7, <1>11 DEF Reaches

LEMMA InsertReaches ==
  ASSUME NEW g, NEW E, Priced(g, E), NEW gap \in Int,
         NEW i \in Nat, NEW n \in Nat, NEW j \in Nat, NEW m \in Nat, i < n, j < m,
         NEW x, Aligned(x, g, gap, E, i, n, j, m - 1), NEW t \in Int, t = Total(g, Matches(x.path))
  PROVE  Reaches(Insert(x, gap, m), t, g, gap, E, i, n, j, m)
<1>1. PICK d : d = Insert(x, gap, m)
  OBVIOUS
<1>2. d.cost = x.cost + gap /\ d.path = Append(x.path, Pair(0, m))
  BY <1>1 DEF Insert
<1>3. Walks(x.path, i, n, j, m - 1)
  BY DEF Aligned
<1>4. Walks(d.path, i, n, j, m) /\ Matches(d.path) = Matches(x.path)
  BY <1>2, <1>3, WalksMore
<1>5. PICK W : W = Within(E, i, n, j, m)
  OBVIOUS
<1>6. Matches(x.path) \in Ways(W)
  <2>1. Matches(x.path) \in Ways(Within(E, i, n, j, m - 1))
    BY DEF Aligned
  <2>2. OffColumn(W, <<n, m>>) = Within(E, i, n, j, m - 1)
    BY <1>5, LastCorner DEF Priced
  <2> QED
    BY <2>1, <2>2, WaysGrow
<1>7. PICK k \in Int : k = (n - i) + (m - j)
  OBVIOUS
<1>8. PICK l \in Int : l = (n - i) + ((m - 1) - j) /\ l = k - 1
  <2>1. (n - i) + ((m - 1) - j) = k - 1
    BY <1>7
  <2> QED
    BY <2>1
<1>9. x.cost = gap * l + t
  BY <1>8 DEF Aligned
<1>10. (gap * l + t) + gap = gap * k + t
  BY <1>8, MoreRows
<1>11. d.cost = gap * k + t
  BY <1>2, <1>9, <1>10
<1> QED
  BY <1>1, <1>4, <1>5, <1>6, <1>7, <1>11 DEF Reaches

LEMMA BothReaches ==
  ASSUME NEW g, NEW E, Priced(g, E), NEW gap \in Int,
         NEW i \in Nat, NEW n \in Nat, NEW j \in Nat, NEW m \in Nat, i < n, j < m,
         NEW x, Aligned(x, g, gap, E, i, n - 1, j, m - 1), <<n, m>> \in E,
         NEW t \in Int, t = Total(g, Matches(x.path))
  PROVE  Reaches(Both(x, g, gap, n, m), t + g[<<n, m>>], g, gap, E, i, n, j, m)
<1>12. PICK c \in E : c = <<n, m>>
  OBVIOUS
<1>13. PICK v \in Int : v = g[c]
  BY DEF Priced
<1>1. PICK d : d = Both(x, g, gap, n, m)
  OBVIOUS
<1>2. d.cost = x.cost + 2 * gap + v /\ d.path = Append(x.path, Pair(n, m))
  BY <1>1, <1>12, <1>13 DEF Both
<1>3. Walks(x.path, i, n - 1, j, m - 1)
  BY DEF Aligned
<1>4. Walks(d.path, i, n, j, m) /\ Matches(d.path) = Matches(x.path) \cup {c}
  BY SMTT(30), <1>2, <1>3, <1>12, WalksMore
<1>5. PICK W : W = Within(E, i, n, j, m)
  OBVIOUS
<1>14. PICK T : T = Matches(x.path)
  OBVIOUS
<1>15. E \in SUBSET (Nat \X Nat) /\ W \in SUBSET (Nat \X Nat)
  BY <1>5 DEF Priced, Within
<1>16. Corner(c, W) /\ OffBoth(W, c) = Within(E, i, n - 1, j, m - 1) /\ c \in W
  BY <1>5, <1>12, <1>15, LastCorner
<1>6. T \cup {c} \in Ways(W) /\ c \notin T
  <2>1. T \in Ways(OffBoth(W, c))
    BY <1>14, <1>16 DEF Aligned
  <2> QED
    BY <1>15, <1>16, <2>1, CornerAdded
<1>17. Total(g, T \cup {c}) = t + v
  <2>1. T \cup {c} \in SUBSET E
    BY <1>5, <1>6 DEF Ways, Within
  <2>2. PICK U : U = T \cup {c}
    OBVIOUS
  <2>3. Priced(g, U)
    BY <2>1, <2>2, PricedPart
  <2>4. U \ {c} = T /\ c \in U
    BY <1>6, <2>2
  <2>5. Total(g, U) = g[c] + Total(g, U \ {c})
    BY <2>3, <2>4, TotalWith DEF Priced
  <2>6. Total(g, U) = v + t
    BY <1>13, <1>14, <2>4, <2>5
  <2>7. v + t = t + v
    OBVIOUS
  <2> QED
    BY <2>2, <2>6, <2>7
<1>7. PICK k \in Int : k = (n - i) + (m - j)
  OBVIOUS
<1>8. PICK l \in Int : l = ((n - 1) - i) + ((m - 1) - j) /\ l = k - 2
  <2>1. ((n - 1) - i) + ((m - 1) - j) = k - 2
    BY <1>7
  <2> QED
    BY <2>1
<1>9. x.cost = gap * l + t
  BY <1>8 DEF Aligned
<1>10. (gap * l + t) + 2 * gap + v = gap * k + (t + v)
  BY <1>7, <1>8, <1>13, MoreMatched
<1>11. d.cost = gap * k + (t + v)
  <2>1. PICK w \in Int : w = gap * l + t /\ w = x.cost
    <3>1. gap * l + t \in Int
      OBVIOUS
    <3> QED
      BY <1>9, <3>1
  <2>2. d.cost = w + 2 * gap + v
    BY <1>2, <2>1
  <2> QED
    BY <1>10, <2>1, <2>2
<1> QED
  BY <1>1, <1>4, <1>5, <1>6, <1>7, <1>11, <1>12, <1>13, <1>14, <1>17 DEF Reaches

LEMMA ReachesAligned ==
  ASSUME NEW g, NEW gap, NEW E, NEW i, NEW n, NEW j, NEW m, NEW d, NEW t,
         Reaches(d, t, g, gap, E, i, n, j, m), Cheapest(t, g, Within(E, i, n, j, m))
  PROVE  Aligned(d, g, gap, E, i, n, j, m)
BY DEF Reaches, Aligned

LEMMA AlignedTotal ==
  ASSUME NEW g, NEW gap, NEW E, Priced(g, E), NEW i, NEW n, NEW j, NEW m, NEW d,
         Aligned(d, g, gap, E, i, n, j, m)
  PROVE  Total(g, Matches(d.path)) \in Int
<1>1. Matches(d.path) \in SUBSET E
  BY DEF Aligned, Ways, Within
<1> QED
  BY <1>1, PricedPart

LEMMA AlignedOut ==
  ASSUME NEW g, NEW E, Priced(g, E), NEW gap \in Int,
         NEW i \in Nat, NEW n \in Nat, NEW j \in Nat, NEW m \in Nat, i < n, j < m,
         NEW x, NEW y, NEW z, Around(x, y, z, g, gap, E, i, n, j, m), <<n, m>> \notin E
  PROVE  Aligned(IF x.cost + gap <= y.cost + gap THEN Skip(x, gap, n) ELSE Insert(y, gap, m),
                 g, gap, E, i, n, j, m)
<1>1. PICK tx \in Int, ty \in Int : tx = Total(g, Matches(x.path)) /\ ty = Total(g, Matches(y.path))
  BY AlignedTotal DEF Around
<1>2. /\ Reaches(Skip(x, gap, n), tx, g, gap, E, i, n, j, m)
      /\ Reaches(Insert(y, gap, m), ty, g, gap, E, i, n, j, m)
  BY <1>1, SkipReaches, InsertReaches DEF Around
<1>3. PICK W : W = Within(E, i, n, j, m)
  OBVIOUS
<1>4. PICK c : c = <<n, m>>
  OBVIOUS
<1>5. /\ Corner(c, W) /\ c \notin W
      /\ OffRow(W, c) = Within(E, i, n - 1, j, m)
      /\ OffColumn(W, c) = Within(E, i, n, j, m - 1)
  BY <1>3, <1>4, LastCorner DEF Priced
<1>6. Cheapest(tx, g, OffRow(W, c)) /\ Cheapest(ty, g, OffColumn(W, c))
  BY <1>1, <1>5 DEF Around, Aligned
<1>7. Cheapest(Lesser(tx, ty), g, W)
  BY <1>3, <1>5, <1>6, CornerOut, WithinPriced
<1>8. PICK b \in Int : b = gap * ((n - i) + (m - j))
  OBVIOUS
<1>9. x.cost + gap = b + tx /\ y.cost + gap = b + ty
  BY <1>2, <1>8 DEF Reaches, Skip, Insert
<1>10. CASE x.cost + gap <= y.cost + gap
  <2>1. Lesser(tx, ty) = tx
    BY <1>9, <1>10 DEF Lesser
  <2> QED
    BY <1>2, <1>3, <1>7, <1>10, <2>1, ReachesAligned
<1>11. CASE ~(x.cost + gap <= y.cost + gap)
  <2>1. Lesser(tx, ty) = ty
    BY <1>9, <1>11 DEF Lesser
  <2> QED
    BY <1>2, <1>3, <1>7, <1>11, <2>1, ReachesAligned
<1> QED
  BY <1>10, <1>11

Chosen(x, y, z, g, gap, n, m) ==
  IF z.cost + 2 * gap + g[<<n, m>>] <= x.cost + gap /\ z.cost + 2 * gap + g[<<n, m>>] <= y.cost + gap
  THEN Both(z, g, gap, n, m)
  ELSE IF x.cost + gap <= y.cost + gap THEN Skip(x, gap, n) ELSE Insert(y, gap, m)

LEMMA AlignedIn ==
  ASSUME NEW g, NEW E, Priced(g, E), NEW gap \in Int,
         NEW i \in Nat, NEW n \in Nat, NEW j \in Nat, NEW m \in Nat, i < n, j < m,
         NEW x, NEW y, NEW z, Around(x, y, z, g, gap, E, i, n, j, m), <<n, m>> \in E
  PROVE  Aligned(Chosen(x, y, z, g, gap, n, m), g, gap, E, i, n, j, m)
<1>1. PICK tx \in Int, ty \in Int, tz \in Int :
        tx = Total(g, Matches(x.path)) /\ ty = Total(g, Matches(y.path)) /\ tz = Total(g, Matches(z.path))
  BY AlignedTotal DEF Around
<1>4. PICK c \in E : c = <<n, m>>
  OBVIOUS
<1>12. PICK v \in Int : v = g[c]
  BY DEF Priced
<1>2. /\ Reaches(Skip(x, gap, n), tx, g, gap, E, i, n, j, m)
      /\ Reaches(Insert(y, gap, m), ty, g, gap, E, i, n, j, m)
      /\ Reaches(Both(z, g, gap, n, m), tz + v, g, gap, E, i, n, j, m)
  BY <1>1, <1>4, <1>12, SkipReaches, InsertReaches, BothReaches DEF Around
<1>3. PICK W : W = Within(E, i, n, j, m)
  OBVIOUS
<1>5. /\ Corner(c, W) /\ c \in W
      /\ OffRow(W, c) = Within(E, i, n - 1, j, m)
      /\ OffColumn(W, c) = Within(E, i, n, j, m - 1)
      /\ OffBoth(W, c) = Within(E, i, n - 1, j, m - 1)
  BY <1>3, <1>4, LastCorner DEF Priced
<1>6. Cheapest(tx, g, OffRow(W, c)) /\ Cheapest(ty, g, OffColumn(W, c)) /\ Cheapest(tz, g, OffBoth(W, c))
  BY <1>1, <1>5 DEF Around, Aligned
<1>7. Cheapest(Lesser(Lesser(tx, ty), tz + v), g, W)
  <2>1. Priced(g, W)
    BY <1>3, WithinPriced
  <2> QED
    BY <1>5, <1>6, <1>12, <2>1, CornerIn
<1>8. PICK b \in Int : b = gap * ((n - i) + (m - j))
  OBVIOUS
<1>9. /\ x.cost + gap = b + tx /\ y.cost + gap = b + ty
      /\ z.cost + 2 * gap + g[<<n, m>>] = b + (tz + v)
  BY <1>2, <1>8 DEF Reaches, Skip, Insert, Both
<1>10. PICK d : d = Chosen(x, y, z, g, gap, n, m)
  OBVIOUS
<1>11. d = IF b + (tz + v) <= b + tx /\ b + (tz + v) <= b + ty THEN Both(z, g, gap, n, m)
           ELSE IF b + tx <= b + ty THEN Skip(x, gap, n) ELSE Insert(y, gap, m)
  BY <1>9, <1>10 DEF Chosen
<1>13. CASE b + (tz + v) <= b + tx /\ b + (tz + v) <= b + ty
  <2>1. Lesser(Lesser(tx, ty), tz + v) = tz + v
    BY <1>13 DEF Lesser
  <2>2. Reaches(d, tz + v, g, gap, E, i, n, j, m)
    BY <1>2, <1>11, <1>13
  <2> QED
    BY <1>3, <1>7, <1>10, <2>1, <2>2, ReachesAligned
<1>14. CASE ~(b + (tz + v) <= b + tx /\ b + (tz + v) <= b + ty) /\ b + tx <= b + ty
  <2>1. Lesser(Lesser(tx, ty), tz + v) = tx
    BY <1>14 DEF Lesser
  <2>2. Reaches(d, tx, g, gap, E, i, n, j, m)
    BY <1>2, <1>11, <1>14
  <2> QED
    BY <1>3, <1>7, <1>10, <2>1, <2>2, ReachesAligned
<1>15. CASE ~(b + (tz + v) <= b + tx /\ b + (tz + v) <= b + ty) /\ ~(b + tx <= b + ty)
  <2>1. Lesser(Lesser(tx, ty), tz + v) = ty
    BY <1>15 DEF Lesser
  <2>2. Reaches(d, ty, g, gap, E, i, n, j, m)
    BY <1>2, <1>11, <1>15
  <2> QED
    BY <1>3, <1>7, <1>10, <2>1, <2>2, ReachesAligned
<1> QED
  BY <1>13, <1>14, <1>15

\* What a cell of a segment is made of.
Cell(d, x, y, z, score, gap, threshold, r0, a0, i, j) ==
  d = IF score >= threshold /\ z.cost + Percent(100) - score <= x.cost + gap
         /\ z.cost + Percent(100) - score <= y.cost + gap
      THEN [cost |-> z.cost + Percent(100) - score, path |-> Append(z.path, Pair(r0 + i, a0 + j))]
      ELSE IF x.cost + gap <= y.cost + gap
      THEN [cost |-> x.cost + gap, path |-> Append(x.path, Pair(r0 + i, 0))]
      ELSE [cost |-> y.cost + gap, path |-> Append(y.path, Pair(0, a0 + j))]

\* Up to a cell that the scores hold.
AlignedTo(d, g, gap, E, r0, i, a0, j) == Aligned(d, g, gap, E, r0, r0 + i, a0, a0 + j)
AroundTo(x, y, z, g, gap, E, r0, i, a0, j) == Around(x, y, z, g, gap, E, r0, r0 + i, a0, a0 + j)
Holds(scores, score, r0, i, n, a0, j, m) ==
  r0 + i <= n /\ a0 + j <= m /\ score = scores[<<r0 + i, a0 + j>>]

LEMMA CellAligned ==
  ASSUME NEW n \in Nat, NEW m \in Nat, NEW scores, NEW options, Table(scores, n, m, options),
         NEW g, g = Extra(scores, n, m, options), NEW E, E = Allowed(scores, n, m, options),
         NEW gap \in Int, gap = options.gap, NEW threshold \in Int, threshold = options.threshold,
         NEW r0 \in Nat, NEW a0 \in Nat, NEW i \in Nat, NEW j \in Nat, i # 0, j # 0,
         NEW score \in Int, Holds(scores, score, r0, i, n, a0, j, m),
         NEW d, NEW x \in Alignments, NEW y \in Alignments, NEW z \in Alignments,
         Cell(d, x, y, z, score, gap, threshold, r0, a0, i, j),
         AroundTo(x, y, z, g, gap, E, r0, i, a0, j)
  PROVE  AlignedTo(d, g, gap, E, r0, i, a0, j)
<1>1. PICK u \in Nat, v \in Nat : u = r0 + i /\ v = a0 + j
  OBVIOUS
<1>2. r0 < u /\ a0 < v /\ u \in 1..n /\ v \in 1..m
  BY <1>1 DEF Holds
<1>3. Around(x, y, z, g, gap, E, r0, u, a0, v)
  BY <1>1 DEF AroundTo
<1>4. Priced(g, E)
  BY ExtraPriced
<1>5. PICK c : c = <<u, v>>
  OBVIOUS
<1>6. c \in Pairs(n, m) /\ scores[c] = score
  BY <1>1, <1>2, <1>5 DEF Pairs, Holds
<1>7. c \in E <=> score >= threshold
  BY <1>6 DEF Allowed
<1>8. PICK full \in Int : full = Percent(100)
  BY PercentType
<1>9. PICK e \in Int : e = full - score - 2 * gap
  OBVIOUS
<1>10. g[c] = e
  BY <1>6, <1>8, <1>9 DEF Extra
<1>11. PICK cx \in Int, cy \in Int, cz \in Int : cx = x.cost /\ cy = y.cost /\ cz = z.cost
  BY DEF Alignments
<1>12. PICK both \in Int : both = cz + full - score /\ both = cz + 2 * gap + e
  <2>1. cz + full - score = cz + 2 * gap + e /\ cz + full - score \in Int
    BY <1>9
  <2> QED
    BY <2>1
<1>13. d = IF score >= threshold /\ both <= cx + gap /\ both <= cy + gap
           THEN [cost |-> both, path |-> Append(z.path, Pair(u, v))]
           ELSE IF cx + gap <= cy + gap
           THEN [cost |-> cx + gap, path |-> Append(x.path, Pair(u, 0))]
           ELSE [cost |-> cy + gap, path |-> Append(y.path, Pair(0, v))]
  BY <1>1, <1>8, <1>11, <1>12 DEF Cell
<1>14. CASE c \in E
  <2>1. Aligned(Chosen(x, y, z, g, gap, u, v), g, gap, E, r0, u, a0, v)
    BY <1>2, <1>3, <1>4, <1>5, <1>14, AlignedIn
  <2>2. d = Chosen(x, y, z, g, gap, u, v)
    BY <1>5, <1>7, <1>10, <1>11, <1>12, <1>13, <1>14 DEF Chosen, Both, Skip, Insert
  <2> QED
    BY <1>1, <2>1, <2>2 DEF AlignedTo
<1>15. CASE c \notin E
  <2>1. PICK w : w = (IF x.cost + gap <= y.cost + gap THEN Skip(x, gap, u) ELSE Insert(y, gap, v))
    OBVIOUS
  <2>2. Aligned(w, g, gap, E, r0, u, a0, v)
    BY <1>2, <1>3, <1>4, <1>5, <1>15, <2>1, AlignedOut
  <2>3. d = w
    BY <1>7, <1>11, <1>13, <1>15, <2>1 DEF Skip, Insert
  <2> QED
    BY <1>1, <2>2, <2>3 DEF AlignedTo
<1> QED
  BY <1>14, <1>15

LEMMA SegmentAligned ==
  ASSUME NEW n \in Nat, NEW m \in Nat, NEW scores, NEW options, Table(scores, n, m, options),
         NEW r0 \in Nat, NEW a0 \in Nat, NEW k \in Nat, NEW l \in Nat, r0 + k <= n, a0 + l <= m,
         NEW f, IsSegment(f, scores, r0, k, a0, l, options)
  PROVE  Aligned(f[<<k, l>>], Extra(scores, n, m, options), options.gap, Allowed(scores, n, m, options),
                 r0, r0 + k, a0, a0 + l)
<1>1. PICK g, E : g = Extra(scores, n, m, options) /\ E = Allowed(scores, n, m, options)
  OBVIOUS
<1>2. PICK gap \in Int, threshold \in Int : gap = options.gap /\ threshold = options.threshold
  BY DEF Table
<1>3. Priced(g, E)
  BY <1>1, ExtraPriced
<1>4. PICK D : D = Grid(k, l)
  OBVIOUS
<1>5. PICK rank : rank = Before(k, l)
  OBVIOUS
<1>6. rank \in [D -> Nat]
  BY <1>4, <1>5, RankOfGrid
<1> DEFINE Good == {w \in D : Aligned(f[w], g, gap, E, r0, r0 + w[1], a0, a0 + w[2])}
<1>7. ASSUME NEW p \in D, \A q \in D : rank[q] < rank[p] => q \in Good
      PROVE  p \in Good
  <2>1. PICK i \in 0..k, j \in 0..l : BackFrom(k, l, D, p, i, j)
    BY <1>4, LooksBack
  <2>2. /\ p = <<i, j>> /\ p[1] = i /\ p[2] = j
        /\ i # 0 => <<i - 1, j>> \in Under(D, Before(k, l), p)
        /\ j # 0 => <<i, j - 1>> \in Under(D, Before(k, l), p)
        /\ (i # 0 /\ j # 0) => <<i - 1, j - 1>> \in Under(D, Before(k, l), p)
    BY <2>1 DEF BackFrom
  <2>3. PICK d : d = f[p]
    OBVIOUS
  <2>4. d = SegmentStep(scores, r0, a0, options, f, p)
    BY <1>4, <2>3 DEF IsSegment
  <2>5. Aligned(d, g, gap, E, r0, r0 + i, a0, a0 + j)
    <3>1. CASE i = 0 \/ j = 0
      <4>1. d = [cost |-> (i + j) * gap, path |-> GapPath(r0, a0, i, j)]
        BY <1>2, <2>2, <2>4, <3>1 DEF SegmentStep, GapPath
      <4>2. i \in Nat /\ j \in Nat
        OBVIOUS
      <4> QED
        BY <1>3, <3>1, <4>1, <4>2, AlignedGaps
    <3>2. CASE i # 0 /\ j # 0
      <4>1. \A q \in Under(D, Before(k, l), p) :
              f[q] \in Alignments /\ Aligned(f[q], g, gap, E, r0, r0 + q[1], a0, a0 + q[2])
        BY <1>4, <1>5, <1>7 DEF Under, IsSegment
      <4>2. PICK u \in Nat, v \in Nat : u = i - 1 /\ v = j - 1 /\ r0 + u = (r0 + i) - 1 /\ a0 + v = (a0 + j) - 1
        <5>1. i - 1 \in Nat /\ j - 1 \in Nat /\ r0 + (i - 1) = (r0 + i) - 1 /\ a0 + (j - 1) = (a0 + j) - 1
          BY <3>2
        <5> QED
          BY <5>1
      <4>3. PICK qx, qy, qz : qx = <<u, j>> /\ qy = <<i, v>> /\ qz = <<u, v>>
        OBVIOUS
      <4>4. qx[1] = u /\ qx[2] = j /\ qy[1] = i /\ qy[2] = v /\ qz[1] = u /\ qz[2] = v
        BY <4>3
      <4>5. qx \in Under(D, Before(k, l), p) /\ qy \in Under(D, Before(k, l), p) /\ qz \in Under(D, Before(k, l), p)
        BY <2>2, <3>2, <4>2, <4>3
      <4>6. PICK x \in Alignments, y \in Alignments, z \in Alignments : x = f[qx] /\ y = f[qy] /\ z = f[qz]
        BY <4>1, <4>5
      <4>7. /\ Aligned(x, g, gap, E, r0, r0 + u, a0, a0 + j)
            /\ Aligned(y, g, gap, E, r0, r0 + i, a0, a0 + v)
            /\ Aligned(z, g, gap, E, r0, r0 + u, a0, a0 + v)
        BY <4>1, <4>4, <4>5, <4>6
      <4>8. Around(x, y, z, g, gap, E, r0, r0 + i, a0, a0 + j)
        BY <4>2, <4>7 DEF Around
      <4>9. r0 + i <= n /\ a0 + j <= m /\ r0 + i \in 1..n /\ a0 + j \in 1..m /\ i \in Nat /\ j \in Nat
        BY <3>2
      <4>10. PICK score \in Int : score = scores[<<r0 + i, a0 + j>>]
        <5>1. PICK c : c = <<r0 + i, a0 + j>>
          OBVIOUS
        <5>2. c \in Pairs(n, m)
          BY <4>9, <5>1 DEF Pairs
        <5> QED
          BY <5>1, <5>2 DEF Table
      <4>11. Cell(d, x, y, z, score, gap, threshold, r0, a0, i, j)
        BY <1>2, <2>2, <2>4, <3>2, <4>2, <4>3, <4>6, <4>10 DEF SegmentStep, Cell, MayMatch
      <4>12. /\ AroundTo(x, y, z, g, gap, E, r0, i, a0, j)
             /\ Holds(scores, score, r0, i, n, a0, j, m)
        BY <4>8, <4>9, <4>10 DEF AroundTo, Holds
      <4> HIDE DEF Good
      <4>13. AlignedTo(d, g, gap, E, r0, i, a0, j)
        BY ZenonT(30), <1>1, <1>2, <3>2, <4>6, <4>9, <4>10, <4>11, <4>12, CellAligned
      <4> QED
        BY <4>13 DEF AlignedTo
    <3> QED
      BY <3>1, <3>2
  <2> QED
    BY <2>2, <2>3, <2>5
<1>8. \A p \in D : p \in Good
  <2> HIDE DEF Good
  <2> QED
    BY <1>6, <1>7, RankInduction
<1>9. PICK w : w = <<k, l>>
  OBVIOUS
<1>10. w \in D /\ w[1] = k /\ w[2] = l
  <2>1. k \in 0..k /\ l \in 0..l
    OBVIOUS
  <2> QED
    BY <1>4, <1>9, <2>1 DEF Grid
<1>11. Aligned(f[w], g, gap, E, r0, r0 + k, a0, a0 + l)
  BY <1>8, <1>10
<1> QED
  BY <1>1, <1>2, <1>9, <1>11

\* A segment is aligned as cheaply as its records allow.
Yields(d, path, g, gap, E, i, n, j, m) == Aligned(d, g, gap, E, i, n, j, m) /\ path = d.path

LEMMA AlignSegmentIs ==
  ASSUME NEW n \in Nat, NEW m \in Nat, NEW scores, NEW options, Table(scores, n, m, options),
         NEW r0 \in Nat, NEW r1 \in 0..n, NEW a0 \in Nat, NEW a1 \in 0..m, r0 <= r1, a0 <= a1
  PROVE  \E d : Yields(d, AlignSegment(scores, r0, r1, a0, a1, options), Extra(scores, n, m, options),
                       options.gap, Allowed(scores, n, m, options), r0, r1, a0, a1)
<1>1. PICK k \in Nat, l \in Nat : k = r1 - r0 /\ l = a1 - a0 /\ r0 + k = r1 /\ a0 + l = a1
  <2>1. r1 - r0 \in Nat /\ a1 - a0 \in Nat /\ r0 + (r1 - r0) = r1 /\ a0 + (a1 - a0) = a1
    OBVIOUS
  <2> QED
    BY <2>1
<1>2. r0 + k <= n /\ a0 + l <= m
  BY <1>1
<1>3. Scored(scores, r0, k, a0, l, options)
  <2>1. ASSUME NEW i \in 1..k, NEW j \in 1..l
        PROVE  scores[<<r0 + i, a0 + j>>] \in Int
    <3>1. <<r0 + i, a0 + j>> \in Pairs(n, m)
      BY <1>2 DEF Pairs
    <3> QED
      BY <3>1 DEF Table
  <2> QED
    BY <2>1 DEF Scored, Table
<1>4. PICK f : f = SegmentOf(scores, r0, k, a0, l, options)
  OBVIOUS
<1>5. IsSegment(f, scores, r0, k, a0, l, options)
  BY <1>3, <1>4, SegmentIs
<1>6. Aligned(f[<<k, l>>], Extra(scores, n, m, options), options.gap, Allowed(scores, n, m, options),
              r0, r0 + k, a0, a0 + l)
  BY <1>2, <1>5, SegmentAligned
<1>7. AlignSegment(scores, r0, r1, a0, a1, options) = f[<<k, l>>].path
  BY <1>1, <1>4 DEF AlignSegment, SegmentOf
<1> QED
  BY <1>1, <1>6, <1>7 DEF Yields

-----------------------------------------------------------------------------
(* The cheapest matchings that contain given pairs.                        *)

Best(T, g, E, C) ==
  /\ T \in Ways(E) /\ C \subseteq T
  /\ \A S \in Ways(E) : C \subseteq S => Total(g, T) <= Total(g, S)

\* The records of a segment can be matched by themselves.
LEMMA Splits ==
  ASSUME NEW E \in SUBSET (Nat \X Nat), NEW i \in Nat, NEW n \in Nat, NEW j \in Nat, NEW m \in Nat,
         i <= n, j <= m, NEW S \in Ways(Within(E, 0, n, 0, m)), (i = 0 /\ j = 0) \/ <<i, j>> \in S
  PROVE  /\ Within(S, 0, i, 0, j) \in Ways(Within(E, 0, i, 0, j))
         /\ Within(S, i, n, j, m) \in Ways(Within(E, i, n, j, m))
         /\ S = Within(S, 0, i, 0, j) \cup Within(S, i, n, j, m)
         /\ Within(S, 0, i, 0, j) \cap Within(S, i, n, j, m) = {}
<1>1. S \in SUBSET E /\ InOrder(S) /\ \A p \in S : 0 < p[1] /\ p[1] <= n /\ 0 < p[2] /\ p[2] <= m
  BY DEF Ways, Within
<1>2. \A p \in S : p[1] \in Nat /\ p[2] \in Nat
  BY <1>1
<1>3. Within(S, 0, i, 0, j) \in Ways(Within(E, 0, i, 0, j))
  BY <1>1 DEF Ways, Within, InOrder
<1>4. Within(S, i, n, j, m) \in Ways(Within(E, i, n, j, m))
  BY <1>1 DEF Ways, Within, InOrder
<1>5. ASSUME NEW p \in S
      PROVE  (p[1] <= i /\ p[2] <= j) \/ (i < p[1] /\ j < p[2])
  <2>1. CASE i = 0 /\ j = 0
    BY <1>1, <2>1
  <2>2. CASE <<i, j>> \in S
    <3>1. PICK c \in S : c = <<i, j>>
      BY <2>2
    <3>2. c[1] = i /\ c[2] = j
      BY <3>1
    <3>3. p = c \/ (p[1] < c[1] /\ p[2] < c[2]) \/ (c[1] < p[1] /\ c[2] < p[2])
      BY <1>1 DEF InOrder
    <3> QED
      BY <1>2, <3>2, <3>3
  <2> QED
    BY <2>1, <2>2
<1>6. S = Within(S, 0, i, 0, j) \cup Within(S, i, n, j, m)
  BY <1>1, <1>5 DEF Within
<1>7. Within(S, 0, i, 0, j) \cap Within(S, i, n, j, m) = {}
  BY <1>2 DEF Within
<1> QED
  BY <1>3, <1>4, <1>6, <1>7

LEMMA Joins ==
  ASSUME NEW E \in SUBSET (Nat \X Nat), NEW i \in Nat, NEW n \in Nat, NEW j \in Nat, NEW m \in Nat,
         i <= n, j <= m, NEW S \in Ways(Within(E, 0, i, 0, j)), NEW T \in Ways(Within(E, i, n, j, m))
  PROVE  S \cup T \in Ways(Within(E, 0, n, 0, m)) /\ S \cap T = {}
<1>1. \A p \in S : p \in E /\ p[1] \in Nat /\ p[2] \in Nat /\ 0 < p[1] /\ p[1] <= i /\ 0 < p[2] /\ p[2] <= j
  BY DEF Ways, Within
<1>2. \A p \in T : p \in E /\ p[1] \in Nat /\ p[2] \in Nat /\ i < p[1] /\ p[1] <= n /\ j < p[2] /\ p[2] <= m
  BY DEF Ways, Within
<1>3. S \cup T \in SUBSET Within(E, 0, n, 0, m)
  BY <1>1, <1>2 DEF Within
<1>4. \A p \in S, q \in T : p[1] < q[1] /\ p[2] < q[2]
  BY <1>1, <1>2
<1>5. InOrder(S) /\ InOrder(T)
  BY DEF Ways
<1>6. InOrder(S \cup T)
  BY <1>4, <1>5 DEF InOrder
<1>7. S \cap T = {}
  BY <1>1, <1>2
<1> QED
  BY <1>3, <1>6, <1>7 DEF Ways

LEMMA BestWithSegment ==
  ASSUME NEW g, NEW E, Priced(g, E), NEW i \in Nat, NEW n \in Nat, NEW j \in Nat, NEW m \in Nat,
         i <= n, j <= m, NEW C, (i = 0 /\ j = 0) \/ <<i, j>> \in C,
         NEW T, Best(T, g, Within(E, 0, i, 0, j), C),
         NEW U \in Ways(Within(E, i, n, j, m)), Cheapest(Total(g, U), g, Within(E, i, n, j, m))
  PROVE  Best(T \cup U, g, Within(E, 0, n, 0, m), C)
<1>1. E \in SUBSET (Nat \X Nat)
  BY DEF Priced
<1>2. T \in Ways(Within(E, 0, i, 0, j)) /\ C \subseteq T
  BY DEF Best
<1>3. T \cup U \in Ways(Within(E, 0, n, 0, m)) /\ T \cap U = {}
  BY <1>1, <1>2, Joins
<1>4. ASSUME NEW A \in SUBSET E, NEW B \in SUBSET E, A \cap B = {}
      PROVE  Total(g, A \cup B) = Total(g, A) + Total(g, B) /\ Total(g, A) \in Int /\ Total(g, B) \in Int
  <2>1. IsFiniteSet(A) /\ IsFiniteSet(B) /\ Total(g, A) \in Int /\ Total(g, B) \in Int
    BY PricedPart
  <2>2. \A z \in A \cup B : g[z] \in Int
    BY DEF Priced
  <2> QED
    BY <1>4, <2>1, <2>2, TotalOfUnion
<1>5. T \in SUBSET E /\ U \in SUBSET E
  BY <1>2 DEF Ways, Within
<1>6. ASSUME NEW S \in Ways(Within(E, 0, n, 0, m)), C \subseteq S
      PROVE  Total(g, T \cup U) <= Total(g, S)
  <2>1. PICK A, B : A = Within(S, 0, i, 0, j) /\ B = Within(S, i, n, j, m)
    OBVIOUS
  <2>2. (i = 0 /\ j = 0) \/ <<i, j>> \in S
    BY <1>6
  <2>3. /\ A \in Ways(Within(E, 0, i, 0, j)) /\ B \in Ways(Within(E, i, n, j, m))
        /\ S = A \cup B /\ A \cap B = {}
    BY <1>1, <2>1, <2>2, Splits
  <2>4. C \subseteq A
    BY <1>2, <1>6, <2>1 DEF Ways, Within
  <2>5. Total(g, T) <= Total(g, A)
    BY <2>3, <2>4 DEF Best
  <2>6. Total(g, U) <= Total(g, B)
    BY <2>3 DEF Cheapest
  <2>7. A \in SUBSET E /\ B \in SUBSET E
    BY <2>3 DEF Ways, Within
  <2>8. Total(g, S) = Total(g, A) + Total(g, B) /\ Total(g, A) \in Int /\ Total(g, B) \in Int
    BY <1>4, <2>3, <2>7
  <2>9. Total(g, T \cup U) = Total(g, T) + Total(g, U) /\ Total(g, T) \in Int /\ Total(g, U) \in Int
    BY <1>3, <1>4, <1>5
  <2> QED
    BY <2>5, <2>6, <2>8, <2>9
<1>7. C \subseteq T \cup U
  BY <1>2
<1> QED
  BY <1>3, <1>6, <1>7 DEF Best

LEMMA BestWithAnchor ==
  ASSUME NEW g, NEW E, Priced(g, E), NEW u \in Nat, NEW v \in Nat, 0 < u, 0 < v, NEW C,
         NEW T, Best(T, g, Within(E, 0, u - 1, 0, v - 1), C), NEW c \in E, c = <<u, v>>
  PROVE  Best(T \cup {c}, g, Within(E, 0, u, 0, v), C \cup {c})
<1>1. E \in SUBSET (Nat \X Nat)
  BY DEF Priced
<1>2. PICK W : W = Within(E, 0, u, 0, v)
  OBVIOUS
<1>3. W \in SUBSET E /\ W \in SUBSET (Nat \X Nat)
  BY <1>1, <1>2 DEF Within
<1>4. Corner(c, W) /\ OffBoth(W, c) = Within(E, 0, u - 1, 0, v - 1) /\ c \in W
  BY <1>1, <1>2, LastCorner
<1>5. T \in Ways(OffBoth(W, c)) /\ C \subseteq T
  BY <1>4 DEF Best
<1>6. T \cup {c} \in Ways(W) /\ c \notin T
  BY <1>3, <1>4, <1>5, CornerAdded
<1>7. ASSUME NEW S \in SUBSET E, c \in S
      PROVE  Total(g, S) = g[c] + Total(g, S \ {c}) /\ Total(g, S \ {c}) \in Int /\ g[c] \in Int
  <2>1. Priced(g, S)
    BY PricedPart
  <2>2. Total(g, S) = g[c] + Total(g, S \ {c})
    BY <1>7, <2>1, TotalWith DEF Priced
  <2>3. S \ {c} \in SUBSET E
    OBVIOUS
  <2> QED
    BY <2>2, <2>3, PricedPart DEF Priced
<1>8. ASSUME NEW S \in Ways(W), C \cup {c} \subseteq S
      PROVE  Total(g, T \cup {c}) <= Total(g, S)
  <2>1. c \in S /\ S \in SUBSET E
    BY <1>3, <1>8 DEF Ways
  <2>2. S \ {c} \in Ways(OffBoth(W, c))
    BY <1>3, <1>4, <2>1, CornerLeft
  <2>3. C \subseteq S \ {c}
    BY <1>5, <1>6, <1>8
  <2>4. Total(g, T) <= Total(g, S \ {c})
    BY <1>4, <2>2, <2>3 DEF Best
  <2>5. PICK U : U = T \cup {c}
    OBVIOUS
  <2>6. U \in SUBSET E /\ c \in U /\ U \ {c} = T
    BY <1>3, <1>6, <2>5 DEF Ways
  <2>7. Total(g, U) = g[c] + Total(g, T) /\ Total(g, T) \in Int
    BY <1>7, <2>6
  <2>8. Total(g, S) = g[c] + Total(g, S \ {c}) /\ Total(g, S \ {c}) \in Int /\ g[c] \in Int
    BY <1>7, <2>1
  <2> QED
    BY <2>4, <2>5, <2>7, <2>8
<1>9. C \cup {c} \subseteq T \cup {c}
  BY <1>5
<1> QED
  BY <1>2, <1>6, <1>8, <1>9 DEF Best

LEMMA BestOfNothing ==
  ASSUME NEW g, NEW E, Priced(g, E)
  PROVE  Best({}, g, Within(E, 0, 0, 0, 0), {})
<1>1. PICK z \in Nat : z = 0
  OBVIOUS
<1>2. E \in SUBSET (Nat \X Nat)
  BY DEF Priced
<1>3. Within(E, z, z, z, z) = {}
  BY <1>2, WithinNothing
<1>4. Ways({}) = {{}}
  BY DEF Ways, InOrder
<1>5. Total(g, {}) <= Total(g, {})
  BY TotalEmpty
<1>6. Best({}, g, {}, {})
  BY <1>4, <1>5 DEF Best
<1> QED
  BY <1>1, <1>3, <1>6

-----------------------------------------------------------------------------
(* One sequence after the other.                                           *)

FlatStep(seqs, f, i) == IF i = 1 THEN seqs[i] ELSE f[i - 1] \o seqs[i]
IsFlat(f, A, seqs) ==
  /\ f \in [1..Len(seqs) -> Seq(A)]
  /\ \A i \in 1..Len(seqs) : f[i] = FlatStep(seqs, f, i)

LEMMA FlatExists ==
  ASSUME NEW A, NEW seqs \in Seq(Seq(A))
  PROVE  \E f : IsFlat(f, A, seqs)
<1>1. PICK N \in Nat : N = Len(seqs)
  OBVIOUS
<1>2. PICK D, V : D = 1..N /\ V = Seq(A)
  OBVIOUS
<1>3. PICK rank : rank = [i \in D |-> i]
  OBVIOUS
<1>4. rank \in [D -> 0..N] /\ rank \in [D -> Nat]
  BY <1>2, <1>3
<1>5. PICK Dom : Dom = (UNION {[Under(D, rank, p) -> V] : p \in D}) \X D
  OBVIOUS
<1> DEFINE step == [x \in Dom |-> FlatStep(seqs, x[1], x[2])]
<1>6. ASSUME NEW p \in D, NEW h \in [Under(D, rank, p) -> V]
      PROVE  step[<<h, p>>] = FlatStep(seqs, h, p) /\ step[<<h, p>>] \in V
  <2>1. PICK x : x = <<h, p>>
    OBVIOUS
  <2>2. x \in Dom /\ x[1] = h /\ x[2] = p
    BY <1>5, <2>1
  <2>3. step[x] = FlatStep(seqs, x[1], x[2])
    BY <2>2
  <2>4. FlatStep(seqs, h, p) \in V
    <3>1. seqs[p] \in Seq(A)
      BY <1>1, <1>2
    <3>2. CASE p = 1
      BY <1>2, <3>1, <3>2 DEF FlatStep
    <3>3. CASE p # 1
      <4>1. p - 1 \in Under(D, rank, p)
        BY <1>2, <1>3, <3>3 DEF Under
      <4>2. PICK s \in Seq(A) : s = h[p - 1]
        BY <1>2, <4>1
      <4>3. s \o seqs[p] \in Seq(A)
        BY <3>1, ConcatProperties
      <4> QED
        BY <1>2, <3>3, <4>2, <4>3 DEF FlatStep
    <3> QED
      BY <3>2, <3>3
  <2> HIDE DEF step
  <2> QED
    BY <2>1, <2>2, <2>3, <2>4
<1>7. Typed(D, V, rank, step)
  <2> HIDE DEF step
  <2> QED
    BY <1>6 DEF Typed
<1>8. PICK f : Solves(f, D, D, V, rank, step)
  <2> HIDE DEF step
  <2> QED
    BY <1>4, <1>7, RecursionExists
<1>9. ASSUME NEW p \in D
      PROVE  f[p] = FlatStep(seqs, f, p)
  <2>1. PICK h : h = Known(f, D, rank, p)
    OBVIOUS
  <2>2. Under(D, rank, p) \subseteq D /\ f \in [D -> V]
    BY <1>8 DEF Under, Solves
  <2>3. h \in [Under(D, rank, p) -> V] /\ \A q \in Under(D, rank, p) : h[q] = f[q]
    BY <2>1, <2>2 DEF Known
  <2>4. f[p] = step[<<h, p>>]
    BY <1>8, <2>1 DEF Solves
  <2>5. step[<<h, p>>] = FlatStep(seqs, h, p)
    BY <1>6, <2>3
  <2>6. FlatStep(seqs, h, p) = FlatStep(seqs, f, p)
    <3>1. p # 1 => p - 1 \in Under(D, rank, p)
      BY <1>2, <1>3 DEF Under
    <3>2. p # 1 => h[p - 1] = f[p - 1]
      BY <2>3, <3>1
    <3> HIDE DEF step
    <3> QED
      BY <3>2 DEF FlatStep
  <2> HIDE DEF step
  <2> QED
    BY <2>4, <2>5, <2>6
<1> QED
  BY <1>1, <1>2, <1>8, <1>9 DEF IsFlat, Solves

LEMMA FlattenIs ==
  ASSUME NEW A, NEW seqs \in Seq(Seq(A)), seqs # <<>>
  PROVE  \E f : IsFlat(f, A, seqs) /\ FlattenSeq(seqs) = f[Len(seqs)]
<1>1. PICK D : D = 1..Len(seqs)
  OBVIOUS
<1> DEFINE Eq(f) == f = [i \in D |-> FlatStep(seqs, f, i)]
<1>2. Len(seqs) # 0
  BY EmptySeq
<1>3. PICK F : F = CHOOSE f : Eq(f)
  OBVIOUS
<1>4. FlattenSeq(seqs) = F[Len(seqs)]
  BY <1>1, <1>2, <1>3 DEF FlattenSeq, FlatStep
<1>5. PICK f : IsFlat(f, A, seqs)
  BY FlatExists
<1>6. Eq(f)
  BY <1>1, <1>5 DEF IsFlat
<1>7. Eq(F)
  <2> HIDE DEF Eq
  <2> QED
    BY <1>3, <1>6
<1>8. PICK rank : rank = [i \in D |-> i]
  OBVIOUS
<1>9. rank \in [D -> Nat]
  BY <1>1, <1>8
<1>10. ASSUME NEW p \in D, \A q \in Under(D, rank, p) : f[q] = F[q]
       PROVE  f[p] = F[p]
  <2>1. p # 1 => p - 1 \in Under(D, rank, p)
    BY <1>1, <1>8 DEF Under
  <2>2. p # 1 => f[p - 1] = F[p - 1]
    BY <1>10, <2>1
  <2>3. FlatStep(seqs, f, p) = FlatStep(seqs, F, p)
    BY <2>2 DEF FlatStep
  <2> QED
    BY <1>6, <1>7, <2>3
<1>11. f = F
  <2>1. IsFcn(f, D) /\ IsFcn(F, D)
    BY <1>6, <1>7 DEF IsFcn
  <2>2. Settled(f, F, D, rank)
    BY <1>10 DEF Settled
  <2> QED
    BY <1>9, <2>1, <2>2, OneSolution
<1> QED
  BY <1>4, <1>5, <1>11

-----------------------------------------------------------------------------
(* The segments around a chain of anchors.                                 *)

Chain(anchors, E) ==
  /\ anchors \in Seq(E)
  /\ \A k, l \in 1..Len(anchors) : k < l => anchors[k][1] < anchors[l][1] /\ anchors[k][2] < anchors[l][2]

Going(path, g, E, C, i, j) ==
  Walks(path, 0, i, 0, j) /\ Best(Matches(path), g, Within(E, 0, i, 0, j), C)

LEMMA GoNowhere ==
  ASSUME NEW g, NEW E, Priced(g, E)
  PROVE  Going(<<>>, g, E, {}, 0, 0)
<1>1. PICK path : path = <<>>
  OBVIOUS
<1>2. path \in Seq(RowPairs) /\ Len(path) = 0
  BY <1>1
<1>3. Refs(path) \in Seq(Nat) /\ Len(Refs(path)) = 0 /\ Acts(path) \in Seq(Nat) /\ Len(Acts(path)) = 0
  BY <1>2, SidesAre
<1>4. PICK z \in Nat : z = 0
  OBVIOUS
<1>5. Runs(Refs(path), z, z) /\ Runs(Acts(path), z, z)
  <2>1. PICK r \in Seq(Nat), a \in Seq(Nat) : r = Refs(path) /\ a = Acts(path)
    BY <1>3
  <2>2. Len(r) = 0 /\ Len(a) = 0
    BY <1>3, <2>1
  <2>3. (\A k \in 1..Len(r) : r[k] = 0) /\ (\A k \in 1..Len(a) : a[k] = 0)
    BY <2>2
  <2>4. Runs(r, z, z) /\ Runs(a, z, z)
    BY <2>3, RunsEmpty
  <2> QED
    BY <2>1, <2>4
<1>6. Matches(path) = {}
  <2>1. \A k \in 1..Len(path) : path[k].reference = 0 \/ path[k].actual = 0
    BY <1>2
  <2> QED
    BY <1>2, <2>1, MatchesNothing
<1>7. Best(Matches(path), g, Within(E, 0, 0, 0, 0), {})
  BY <1>6, BestOfNothing
<1> QED
  BY <1>1, <1>2, <1>4, <1>5, <1>7 DEF Going, Walks

LEMMA GoOnSegment ==
  ASSUME NEW g, NEW E, Priced(g, E), NEW gap, NEW C, NEW i \in Nat, NEW n \in Nat, NEW j \in Nat, NEW m \in Nat,
         i <= n, j <= m, (i = 0 /\ j = 0) \/ <<i, j>> \in C,
         NEW p, Going(p, g, E, C, i, j), NEW d, Aligned(d, g, gap, E, i, n, j, m)
  PROVE  Going(p \o d.path, g, E, C, n, m)
<1>1. PICK z \in Nat : z = 0
  OBVIOUS
<1>2. PICK q : q = d.path
  OBVIOUS
<1>3. Walks(p, z, i, z, j) /\ Walks(q, i, n, j, m) /\ z <= i /\ z <= j
  BY <1>1, <1>2 DEF Going, Aligned
<1>4. Walks(p \o q, z, n, z, m) /\ Matches(p \o q) = Matches(p) \cup Matches(q)
  BY <1>3, WalksJoin
<1>5. PICK T, U : T = Matches(p) /\ U = Matches(q)
  OBVIOUS
<1>6. /\ Best(T, g, Within(E, 0, i, 0, j), C)
      /\ U \in Ways(Within(E, i, n, j, m)) /\ Cheapest(Total(g, U), g, Within(E, i, n, j, m))
  BY <1>2, <1>5 DEF Going, Aligned
<1>7. Best(T \cup U, g, Within(E, 0, n, 0, m), C)
  BY <1>6, BestWithSegment
<1> QED
  BY <1>1, <1>2, <1>4, <1>5, <1>7 DEF Going

LEMMA GoOnAnchor ==
  ASSUME NEW g, NEW E, Priced(g, E), NEW C, NEW u \in Nat, NEW v \in Nat, 0 < u, 0 < v, <<u, v>> \in E,
         NEW p, Going(p, g, E, C, u - 1, v - 1)
  PROVE  Going(p \o <<Pair(u, v)>>, g, E, C \cup {<<u, v>>}, u, v)
<1>1. PICK c \in E : c = <<u, v>>
  OBVIOUS
<1>2. PICK z \in Nat, x \in Nat, y \in Nat : z = 0 /\ x = u - 1 /\ y = v - 1 /\ u = x + 1 /\ v = y + 1
  <2>1. u - 1 \in Nat /\ v - 1 \in Nat /\ u = (u - 1) + 1 /\ v = (v - 1) + 1
    OBVIOUS
  <2> QED
    BY <2>1
<1>3. PICK one : one = <<Pair(u, v)>>
  OBVIOUS
<1>4. one \in Seq(RowPairs) /\ Len(one) = 1 /\ one[1] = Pair(x + 1, y + 1)
  BY <1>2, <1>3, PairIs
<1>5. Walks(one, x, x + 1, y, y + 1) /\ Matches(one) = {<<x + 1, y + 1>>}
  BY <1>4, MatchedRow
<1>6. Walks(one, x, u, y, v) /\ Matches(one) = {c}
  BY <1>1, <1>2, <1>5
<1>7. Walks(p, z, x, z, y)
  BY <1>2 DEF Going
<1>8. z <= x /\ x <= u /\ z <= y /\ y <= v
  BY <1>2
<1>9. Walks(p \o one, z, u, z, v) /\ Matches(p \o one) = Matches(p) \cup Matches(one)
  BY <1>6, <1>7, <1>8, WalksJoin
<1>10. Best(Matches(p) \cup {c}, g, Within(E, 0, u, 0, v), C \cup {c})
  <2>1. PICK T : T = Matches(p)
    OBVIOUS
  <2>2. Best(T, g, Within(E, 0, u - 1, 0, v - 1), C)
    BY <2>1 DEF Going
  <2>3. Best(T \cup {c}, g, Within(E, 0, u, 0, v), C \cup {c})
    BY <1>1, <2>2, BestWithAnchor
  <2> QED
    BY <2>1, <2>3
<1> QED
  BY <1>1, <1>2, <1>3, <1>6, <1>9, <1>10 DEF Going

\* Where the segments begin and end.
From(anchors, k) == IF k = 1 THEN <<0, 0>> ELSE anchors[k - 1]
Upto(anchors, n, m, k) == IF k <= Len(anchors) THEN anchors[k] ELSE <<n + 1, m + 1>>
Segment(anchors, scores, n, m, options, k) ==
  AlignSegment(scores, From(anchors, k)[1], Upto(anchors, n, m, k)[1] - 1,
               From(anchors, k)[2], Upto(anchors, n, m, k)[2] - 1, options)
AnchorRow(anchors, k) == IF k <= Len(anchors) THEN <<Pair(anchors[k][1], anchors[k][2])>> ELSE <<>>
Stretch(anchors, scores, n, m, options, k) ==
  Segment(anchors, scores, n, m, options, k) \o AnchorRow(anchors, k)
Stretches(anchors, scores, n, m, options) ==
  [k \in 1..(Len(anchors) + 1) |-> Stretch(anchors, scores, n, m, options, k)]

LEMMA AlignBetweenIs ==
  ASSUME NEW anchors, NEW scores, NEW n, NEW m, NEW options
  PROVE  AlignBetween(anchors, scores, n, m, options) = FlattenSeq(Stretches(anchors, scores, n, m, options))
BY DEF AlignBetween, Stretches, Stretch, Segment, AnchorRow, From, Upto

Lies(anchors, n, m, k, i, j, u, v) ==
  /\ From(anchors, k) = <<i, j>> /\ Upto(anchors, n, m, k) = <<u, v>>
  /\ i < u /\ j < v /\ u <= n + 1 /\ v <= m + 1
  /\ k # Len(anchors) + 1 => u <= n /\ v <= m

LEMMA SegmentsLie ==
  ASSUME NEW n \in Nat, NEW m \in Nat, NEW E \in SUBSET Pairs(n, m), NEW anchors, Chain(anchors, E),
         NEW k \in 1..(Len(anchors) + 1)
  PROVE  \E i \in Nat, j \in Nat, u \in Nat, v \in Nat : Lies(anchors, n, m, k, i, j, u, v)
<1>1. PICK L \in Nat : L = Len(anchors)
  BY DEF Chain
<1>2. ASSUME NEW l \in 1..L
      PROVE  anchors[l][1] \in 1..n /\ anchors[l][2] \in 1..m /\ anchors[l] = <<anchors[l][1], anchors[l][2]>>
  <2>1. anchors[l] \in E
    BY <1>1, <1>2 DEF Chain
  <2>2. anchors[l] \in Pairs(n, m)
    BY <2>1
  <2> QED
    BY <2>2, PairsAre
<1>3. \E i \in Nat, j \in Nat : From(anchors, k) = <<i, j>> /\ i <= n /\ j <= m
  <2>1. CASE k = 1
    BY <2>1 DEF From
  <2>2. CASE k # 1
    <3>1. k - 1 \in 1..L
      BY <1>1, <2>2
    <3>2. From(anchors, k) = anchors[k - 1]
      BY <2>2 DEF From
    <3> QED
      BY <1>2, <3>1, <3>2
  <2> QED
    BY <2>1, <2>2
<1>4. PICK i \in Nat, j \in Nat : From(anchors, k) = <<i, j>> /\ i <= n /\ j <= m
  BY <1>3
<1>5. CASE k = L + 1
  <2>1. Upto(anchors, n, m, k) = <<n + 1, m + 1>>
    BY <1>1, <1>5 DEF Upto
  <2>2. PICK u \in Nat, v \in Nat : u = n + 1 /\ v = m + 1
    OBVIOUS
  <2>3. Lies(anchors, n, m, k, i, j, u, v)
    BY <1>1, <1>4, <1>5, <2>1, <2>2 DEF Lies
  <2> QED
    BY <2>3
<1>6. CASE k # L + 1
  <2>1. k \in 1..L
    BY <1>1, <1>6
  <2>2. Upto(anchors, n, m, k) = anchors[k]
    BY <1>1, <2>1 DEF Upto
  <2>3. PICK u \in Nat, v \in Nat : anchors[k] = <<u, v>> /\ u \in 1..n /\ v \in 1..m
    BY SMTT(30), <1>2, <2>1
  <2>4. i < u /\ j < v
    <3>1. CASE k = 1
      BY <1>4, <2>3, <3>1 DEF From
    <3>2. CASE k # 1
      <4>1. k - 1 \in 1..L /\ k - 1 < k
        BY <1>1, <3>2
      <4>2. anchors[k - 1] = <<i, j>>
        BY <1>4, <3>2 DEF From
      <4>3. anchors[k - 1][1] < anchors[k][1] /\ anchors[k - 1][2] < anchors[k][2]
        BY <1>1, <2>1, <4>1 DEF Chain
      <4> QED
        BY <2>3, <4>2, <4>3
    <3> QED
      BY <3>1, <3>2
  <2>5. Lies(anchors, n, m, k, i, j, u, v)
    BY <1>1, <1>4, <2>2, <2>3, <2>4 DEF Lies
  <2> QED
    BY <2>5
<1> QED
  BY <1>5, <1>6

Passed(anchors, k) == {anchors[l] : l \in 1..k}

\* Through the segment before an anchor, or the last segment.
LEMMA SegmentYields ==
  ASSUME NEW n \in Nat, NEW m \in Nat, NEW scores, NEW options, Table(scores, n, m, options),
         NEW g, g = Extra(scores, n, m, options), NEW E, E = Allowed(scores, n, m, options),
         NEW anchors, NEW k, NEW i \in Nat, NEW j \in Nat, NEW u \in Nat, NEW v \in Nat,
         Lies(anchors, n, m, k, i, j, u, v)
  PROVE  \E d : Yields(d, Segment(anchors, scores, n, m, options, k), g, options.gap, E, i, u - 1, j, v - 1)
<1>1. PICK x \in 0..n, y \in 0..m : x = u - 1 /\ y = v - 1 /\ i <= x /\ j <= y
  <2>1. u - 1 \in 0..n /\ v - 1 \in 0..m /\ i <= u - 1 /\ j <= v - 1
    BY DEF Lies
  <2> QED
    BY <2>1
<1>2. PICK s : s = Segment(anchors, scores, n, m, options, k)
  OBVIOUS
<1>3. s = AlignSegment(scores, i, x, j, y, options)
  BY <1>1, <1>2 DEF Segment, Lies
<1>4. \E d : Yields(d, s, g, options.gap, E, i, x, j, y)
  BY <1>1, <1>3, AlignSegmentIs
<1> QED
  BY <1>1, <1>2, <1>4

LEMMA GoOn ==
  ASSUME NEW n \in Nat, NEW m \in Nat, NEW scores, NEW options, Table(scores, n, m, options),
         NEW g, g = Extra(scores, n, m, options), NEW E, E = Allowed(scores, n, m, options),
         NEW anchors, Chain(anchors, E), NEW k \in 1..(Len(anchors) + 1),
         NEW i \in Nat, NEW j \in Nat, NEW u \in Nat, NEW v \in Nat, Lies(anchors, n, m, k, i, j, u, v),
         NEW C, (i = 0 /\ j = 0) \/ <<i, j>> \in C, NEW p, Going(p, g, E, C, i, j)
  PROVE  Going(p \o Segment(anchors, scores, n, m, options, k), g, E, C, u - 1, v - 1)
<1>1. Priced(g, E)
  BY ExtraPriced
<1>2. PICK x \in 0..n, y \in 0..m : x = u - 1 /\ y = v - 1 /\ i <= x /\ j <= y
  <2>1. u - 1 \in 0..n /\ v - 1 \in 0..m /\ i <= u - 1 /\ j <= v - 1
    BY DEF Lies
  <2> QED
    BY <2>1
<1>3. PICK s : s = Segment(anchors, scores, n, m, options, k)
  OBVIOUS
<1>5. PICK d : Aligned(d, g, options.gap, E, i, x, j, y) /\ s = d.path
  <2>1. PICK d : Yields(d, s, g, options.gap, E, i, u - 1, j, v - 1)
    BY <1>3, SegmentYields
  <2> QED
    BY <1>2, <2>1 DEF Yields
<1>7. Going(p \o d.path, g, E, C, x, y)
  <2>1. x \in Nat /\ y \in Nat
    OBVIOUS
  <2> QED
    BY <1>1, <1>2, <1>5, <2>1, GoOnSegment
<1> QED
  BY <1>2, <1>3, <1>5, <1>7

LEMMA StretchesAre ==
  ASSUME NEW n \in Nat, NEW m \in Nat, NEW scores, NEW options, Table(scores, n, m, options),
         NEW E, E = Allowed(scores, n, m, options), NEW anchors, Chain(anchors, E)
  PROVE  /\ Len(anchors) \in Nat
         /\ \A k \in 1..(Len(anchors) + 1) :
              /\ Segment(anchors, scores, n, m, options, k) \in Seq(RowPairs)
              /\ AnchorRow(anchors, k) \in Seq(RowPairs)
              /\ Stretch(anchors, scores, n, m, options, k) \in Seq(RowPairs)
         /\ Stretches(anchors, scores, n, m, options) \in Seq(Seq(RowPairs))
         /\ Len(Stretches(anchors, scores, n, m, options)) = Len(anchors) + 1
<1>1. PICK L \in Nat : L = Len(anchors)
  BY DEF Chain
<1>2. E \in SUBSET Pairs(n, m)
  BY ExtraPriced
<1>3. ASSUME NEW k \in 1..(L + 1)
      PROVE  /\ Segment(anchors, scores, n, m, options, k) \in Seq(RowPairs)
             /\ AnchorRow(anchors, k) \in Seq(RowPairs)
             /\ Stretch(anchors, scores, n, m, options, k) \in Seq(RowPairs)
  <2>1. PICK i \in Nat, j \in Nat, u \in Nat, v \in Nat : Lies(anchors, n, m, k, i, j, u, v)
    BY <1>1, <1>2, SegmentsLie
  <2>2. PICK s : s = Segment(anchors, scores, n, m, options, k)
    OBVIOUS
  <2>3. s \in Seq(RowPairs)
    <3>1. PICK g : g = Extra(scores, n, m, options)
      OBVIOUS
    <3>2. PICK d : Yields(d, s, g, options.gap, E, i, u - 1, j, v - 1)
      BY <2>1, <2>2, <3>1, SegmentYields
    <3> QED
      BY <3>2 DEF Yields, Aligned, Walks
  <2>4. AnchorRow(anchors, k) \in Seq(RowPairs)
    <3>1. CASE k <= L
      <4>1. AnchorRow(anchors, k) = <<Pair(u, v)>>
        BY <1>1, <2>1, <3>1 DEF AnchorRow, Lies, Upto
      <4>2. PICK r \in RowPairs : r = Pair(u, v)
        BY PairIs
      <4>3. <<r>> \in Seq(RowPairs)
        OBVIOUS
      <4> QED
        BY <4>1, <4>2, <4>3
    <3>2. CASE ~(k <= L)
      BY <1>1, <3>2 DEF AnchorRow
    <3> QED
      BY <3>1, <3>2
  <2>5. PICK r \in Seq(RowPairs) : r = AnchorRow(anchors, k)
    BY <2>4
  <2>6. s \o r \in Seq(RowPairs)
    BY <2>3, ConcatProperties
  <2> QED
    BY <2>2, <2>3, <2>4, <2>5, <2>6 DEF Stretch
<1>4. PICK N \in Nat : N = L + 1
  OBVIOUS
<1>5. Stretches(anchors, scores, n, m, options) = [k \in 1..N |-> Stretch(anchors, scores, n, m, options, k)]
  BY <1>1, <1>4 DEF Stretches
<1>6. PICK P : P = [k \in 1..N |-> Stretch(anchors, scores, n, m, options, k)]
  OBVIOUS
<1>7. P \in Seq(Seq(RowPairs)) /\ Len(P) = N
  BY <1>3, <1>4, <1>6
<1> QED
  BY <1>1, <1>3, <1>4, <1>5, <1>6, <1>7

Walked(f, k) == IF k = 0 THEN <<>> ELSE f[k]

\* Up to the k-th anchor.
Gone(f, g, E, anchors, k, i, j) == Going(Walked(f, k), g, E, Passed(anchors, k), i, j)

LEMMA PassedMore ==
  ASSUME NEW anchors, NEW k \in Nat, k # 0
  PROVE  Passed(anchors, k) = Passed(anchors, k - 1) \cup {anchors[k]} /\ Passed(anchors, 0) = {}
<1>1. 1..k = (1..(k - 1)) \cup {k} /\ 1..0 = {}
  OBVIOUS
<1> QED
  BY <1>1 DEF Passed

Associates(p, s, r) == p \o (s \o r) = (p \o s) \o r

LEMMA OnceMore ==
  ASSUME NEW R, NEW p \in Seq(R), NEW s \in Seq(R), NEW r \in Seq(R)
  PROVE  Associates(p, s, r)
<1>1. (p \o s) \o r = p \o (s \o r)
  BY SMTT(90), ConcatAssociative
<1> QED
  BY Zenon, <1>1 DEF Associates

LEMMA GoneMore ==
  ASSUME NEW n \in Nat, NEW m \in Nat, NEW scores, NEW options, Table(scores, n, m, options),
         NEW g, g = Extra(scores, n, m, options), NEW E, E = Allowed(scores, n, m, options),
         NEW anchors, Chain(anchors, E), NEW k \in 1..(Len(anchors) + 1),
         NEW f, IsFlat(f, RowPairs, Stretches(anchors, scores, n, m, options)),
         NEW i \in Nat, NEW j \in Nat, NEW u \in Nat, NEW v \in Nat, Lies(anchors, n, m, k, i, j, u, v),
         Gone(f, g, E, anchors, k - 1, i, j)
  PROVE  /\ k # Len(anchors) + 1 => Gone(f, g, E, anchors, k, u, v)
         /\ k = Len(anchors) + 1 => Going(f[k], g, E, Passed(anchors, Len(anchors)), n, m)
<1>1. PICK L \in Nat : L = Len(anchors)
  BY DEF Chain
<1>2. PICK p, C : p = Walked(f, k - 1) /\ C = Passed(anchors, k - 1)
  OBVIOUS
<1>3. Going(p, g, E, C, i, j) /\ p \in Seq(RowPairs)
  BY <1>2 DEF Gone, Going, Walks
<1>4. PICK s \in Seq(RowPairs), r \in Seq(RowPairs) :
        /\ s = Segment(anchors, scores, n, m, options, k) /\ r = AnchorRow(anchors, k)
  BY StretchesAre
<1>5. (i = 0 /\ j = 0) \/ <<i, j>> \in C
  <2>1. CASE k = 1
    BY <2>1 DEF Lies, From
  <2>2. CASE k # 1
    <3>1. k - 1 \in 1..(k - 1) /\ anchors[k - 1] = <<i, j>>
      BY <1>1, <2>2 DEF Lies, From
    <3> QED
      BY <1>2, <3>1 DEF Passed
  <2> QED
    BY <2>1, <2>2
<1>6. Going(p \o s, g, E, C, u - 1, v - 1)
  BY <1>3, <1>4, <1>5, GoOn
<1>7. f[k] = p \o (s \o r)
  <2>1. f[k] = FlatStep(Stretches(anchors, scores, n, m, options), f, k)
    BY StretchesAre DEF IsFlat
  <2>2. Stretches(anchors, scores, n, m, options)[k] = s \o r
    BY <1>4 DEF Stretches, Stretch
  <2>3. PICK t \in Seq(RowPairs) : t = s \o r
    BY ConcatProperties
  <2>4. CASE k = 1
    <3>1. p = <<>>
      BY <1>2, <2>4 DEF Walked
    <3>2. <<>> \o t = t
      BY ConcatEmptySeq
    <3> QED
      BY <2>1, <2>2, <2>3, <2>4, <3>1, <3>2 DEF FlatStep
  <2>5. CASE k # 1
    <3>1. k - 1 # 0
      BY <2>5
    <3>2. p = f[k - 1]
      BY <1>2, <3>1 DEF Walked
    <3> QED
      BY <2>1, <2>2, <2>5, <3>2 DEF FlatStep
  <2> QED
    BY <2>4, <2>5
<1>8. f[k] = (p \o s) \o r
  <2>1. PICK R : R = RowPairs
    OBVIOUS
  <2>2. p \in Seq(R) /\ s \in Seq(R) /\ r \in Seq(R)
    BY <1>3, <1>4, <2>1
  <2>3. Associates(p, s, r)
    BY <2>2, OnceMore
  <2> QED
    BY <1>7, <2>3 DEF Associates
<1>9. CASE k # L + 1
  <2>1. Upto(anchors, n, m, k) = anchors[k] /\ k \in 1..L
    BY SMTT(30), <1>1, <1>9 DEF Upto
  <2>2. anchors[k] = <<u, v>>
    BY <2>1 DEF Lies
  <2>3. r = <<Pair(u, v)>>
    BY <1>1, <1>4, <2>1, <2>2 DEF AnchorRow
  <2>4. <<u, v>> \in E
    <3>1. anchors \in Seq(E)
      BY DEF Chain
    <3>2. anchors[k] \in E
      BY <1>1, <2>1, <3>1
    <3> QED
      BY <2>2, <3>2
  <2>5. 0 < u /\ 0 < v
    BY DEF Lies
  <2>6. Priced(g, E)
    BY ExtraPriced
  <2>7. PICK q : q = p \o s
    OBVIOUS
  <2>8. Going(q \o <<Pair(u, v)>>, g, E, C \cup {<<u, v>>}, u, v)
    BY <1>6, <2>4, <2>5, <2>6, <2>7, GoOnAnchor
  <2>9. Passed(anchors, k) = C \cup {<<u, v>>}
    <3>1. k \in Nat /\ k # 0
      BY <2>1
    <3>2. Passed(anchors, k) = Passed(anchors, k - 1) \cup {anchors[k]}
      BY <3>1, PassedMore
    <3> QED
      BY <1>2, <2>2, <3>2
  <2>10. Walked(f, k) = f[k]
    BY DEF Walked
  <2> QED
    BY <1>1, <1>8, <1>9, <2>3, <2>7, <2>8, <2>9, <2>10 DEF Gone
<1>10. CASE k = L + 1
  <2>1. u - 1 = n /\ v - 1 = m
    <3>1. Upto(anchors, n, m, k) = <<n + 1, m + 1>>
      BY <1>1, <1>10 DEF Upto
    <3> QED
      BY <3>1 DEF Lies
  <2>2. r = <<>>
    BY <1>1, <1>4, <1>10 DEF AnchorRow
  <2>3. PICK q \in Seq(RowPairs) : q = p \o s
    BY <1>3, ConcatProperties
  <2>4. q \o <<>> = q
    BY ConcatEmptySeq
  <2>5. k - 1 = L
    BY <1>10
  <2> QED
    BY <1>1, <1>2, <1>6, <1>8, <1>10, <2>1, <2>2, <2>3, <2>4, <2>5
<1> QED
  BY <1>1, <1>9, <1>10

\* Around a chain of anchors, the alignment is the cheapest.
LEMMA AlignBetweenIsCheapest ==
  ASSUME NEW n \in Nat, NEW m \in Nat, NEW scores, NEW options, Table(scores, n, m, options),
         NEW E, E = Allowed(scores, n, m, options), NEW anchors, Chain(anchors, E)
  PROVE  Going(AlignBetween(anchors, scores, n, m, options), Extra(scores, n, m, options), E,
               Passed(anchors, Len(anchors)), n, m)
<1>1. PICK L \in Nat : L = Len(anchors)
  BY DEF Chain
<1>2. PICK P : P = Stretches(anchors, scores, n, m, options)
  OBVIOUS
<1>3. P \in Seq(Seq(RowPairs)) /\ Len(P) = L + 1 /\ P # <<>>
  BY <1>1, <1>2, StretchesAre
<1>4. PICK f : IsFlat(f, RowPairs, P) /\ FlattenSeq(P) = f[Len(P)]
  BY <1>3, FlattenIs
<1>5. PICK g : g = Extra(scores, n, m, options)
  OBVIOUS
<1>6. E \in SUBSET Pairs(n, m) /\ Priced(g, E)
  BY <1>5, ExtraPriced
<1> DEFINE S == {k \in 0..L : \A i, j \in Nat : From(anchors, k + 1) = <<i, j>> => Gone(f, g, E, anchors, k, i, j)}
<1>7. 0 \in S
  <2>1. Gone(f, g, E, anchors, 0, 0, 0)
    <3>1. Walked(f, 0) = <<>> /\ Passed(anchors, 0) = {}
      BY DEF Walked, Passed
    <3> QED
      BY <1>6, <3>1, GoNowhere DEF Gone
  <2>2. From(anchors, 0 + 1) = <<0, 0>>
    BY DEF From
  <2> QED
    BY <2>1, <2>2
<1>8. ASSUME NEW k \in 1..L, k - 1 \in S
      PROVE  k \in S
  <2>1. k \in 1..(Len(anchors) + 1)
    BY <1>1
  <2>2. PICK i \in Nat, j \in Nat, u \in Nat, v \in Nat : Lies(anchors, n, m, k, i, j, u, v)
    BY <1>6, <2>1, SegmentsLie
  <2>3. Gone(f, g, E, anchors, k - 1, i, j)
    BY <1>8, <2>2 DEF Lies
  <2>4. Gone(f, g, E, anchors, k, u, v)
    <3>1. k # Len(anchors) + 1
      BY <1>1
    <3> HIDE DEF S
    <3> QED
      BY <1>2, <1>4, <1>5, <2>1, <2>2, <2>3, <3>1, GoneMore
  <2>5. From(anchors, k + 1) = <<u, v>>
    BY <1>1, <2>2 DEF Lies, From, Upto
  <2> QED
    BY <2>4, <2>5
<1>9. L \in S
  <2> HIDE DEF S
  <2>1. \A k \in 0..L : k \in S
    BY <1>7, <1>8, CountingUp
  <2> QED
    BY <2>1
<1>10. PICK N \in 1..(L + 1) : N = L + 1 /\ N - 1 = L
  OBVIOUS
<1>11. PICK i \in Nat, j \in Nat, u \in Nat, v \in Nat : Lies(anchors, n, m, N, i, j, u, v)
  BY <1>1, <1>6, <1>10, SegmentsLie
<1>12. Gone(f, g, E, anchors, N - 1, i, j)
  BY <1>9, <1>10, <1>11 DEF Lies
<1>13. Going(f[N], g, E, Passed(anchors, L), n, m)
  <2> HIDE DEF S
  <2> QED
    BY <1>1, <1>2, <1>4, <1>5, <1>10, <1>11, <1>12, GoneMore
<1> QED
  BY <1>1, <1>2, <1>3, <1>4, <1>5, <1>10, <1>13, AlignBetweenIs

-----------------------------------------------------------------------------
(* The peaks of the scores and the chains of anchors.                      *)

LEMMA SomeGreatest ==
  ASSUME NEW n \in Nat, NEW U \in SUBSET (1..n), U # {}, NEW f, \A k \in U : f[k] \in Int
  PROVE  \E k \in U : \A l \in U : f[l] <= f[k]
<1> DEFINE S == {j \in 0..n : (\A l \in U : l > j) \/ \E k \in U : k <= j /\ \A l \in U : l <= j => f[l] <= f[k]}
<1>1. 0 \in S
  OBVIOUS
<1>2. ASSUME NEW j \in 1..n, j - 1 \in S
      PROVE  j \in S
  <2>1. CASE j \notin U
    <3>1. \A l \in U : l <= j => l <= j - 1
      BY <2>1
    <3> QED
      BY <1>2, <3>1
  <2>2. CASE j \in U /\ \A l \in U : l > j - 1
    <3>1. \A l \in U : l <= j => f[l] <= f[j]
      BY <2>2
    <3> QED
      BY <2>2, <3>1
  <2>3. ASSUME j \in U, NEW k \in U, k <= j - 1, \A l \in U : l <= j - 1 => f[l] <= f[k]
        PROVE  j \in S
    <3>1. \A l \in U : l <= j => l <= j - 1 \/ l = j
      OBVIOUS
    <3>2. CASE f[j] <= f[k]
      <4>1. \A l \in U : l <= j => f[l] <= f[k]
        BY <2>3, <3>1, <3>2
      <4> QED
        BY <2>3, <4>1
    <3>3. CASE f[k] < f[j]
      <4>1. \A l \in U : l <= j => f[l] <= f[j]
        BY <2>3, <3>1, <3>3
      <4> QED
        BY <2>3, <4>1
    <3>4. f[j] \in Int /\ f[k] \in Int
      BY <2>3
    <3> QED
      BY <3>2, <3>3, <3>4
  <2> QED
    BY <1>2, <2>1, <2>2, <2>3
<1>3. n \in S
  <2> HIDE DEF S
  <2>1. \A j \in 0..n : j \in S
    BY <1>1, <1>2, CountingUp
  <2> QED
    BY <2>1
<1>4. \A l \in U : l <= n /\ ~(l > n)
  OBVIOUS
<1>5. PICK u \in U : TRUE
  OBVIOUS
<1>6. PICK k \in U : k <= n /\ \A l \in U : l <= n => f[l] <= f[k]
  BY <1>3, <1>4, <1>5
<1> HIDE DEF S
<1> QED
  BY <1>4, <1>6

\* How far the next one is.
IsPeak(peak, line, m) ==
  /\ peak.at \in 1..m /\ peak.score = line[peak.at] /\ \A k \in 1..m : line[k] <= peak.score
  /\ peak.alone <=> \A k \in 1..m : k = peak.at
  /\ peak.margin \in Int
  /\ \A t \in Int : peak.margin >= t <=>
       /\ (\A k \in 1..m : k = peak.at) => peak.score >= t
       /\ \A k \in 1..m : k # peak.at => peak.score - line[k] >= t

LEMMA PeakIs ==
  ASSUME NEW m \in Nat, m # 0, NEW line \in [1..m -> Nat]
  PROVE  IsPeak(Peak(line), line, m)
<1>1. PICK k \in 1..m : \A l \in 1..m : line[l] <= line[k]
  <2>1. 1..m # {} /\ \A l \in 1..m : line[l] \in Int
    OBVIOUS
  <2> QED
    BY <2>1, SomeGreatest
<1>2. PICK best \in Nat : best = line[k]
  OBVIOUS
<1>3. Max({line[l] : l \in DOMAIN line}) = best
  <2>1. PICK S : S = {line[l] : l \in DOMAIN line}
    OBVIOUS
  <2>2. S \in SUBSET Int /\ best \in S /\ \A x \in S : x <= best
    BY <1>1, <1>2, <2>1
  <2> QED
    BY <2>1, <2>2, MaxIs
<1>4. PICK at \in 1..m : line[at] = best /\ \A l \in 1..m : line[l] = best => at <= l
  <2>1. PICK S : S = {l \in 1..m : line[l] = best}
    OBVIOUS
  <2>2. S \in SUBSET Nat /\ S # {}
    BY <1>2, <2>1
  <2>3. PICK l \in S : \A x \in S : l <= x
    BY <2>2, Least
  <2> QED
    BY <2>1, <2>3
<1>5. Min({l \in DOMAIN line : line[l] = best}) = at
  <2>1. PICK S : S = {l \in DOMAIN line : line[l] = best}
    OBVIOUS
  <2>2. S \in SUBSET Int /\ at \in S /\ \A x \in S : at <= x
    BY <1>4, <2>1
  <2> QED
    BY <2>1, <2>2, MinIs
<1>6. PICK others : others = {line[l] : l \in DOMAIN line \ {at}}
  OBVIOUS
<1>7. PICK peak : peak = [at |-> at, score |-> best, alone |-> others = {},
                          margin |-> IF others = {} THEN best ELSE best - Max(others)]
  OBVIOUS
<1>8. Peak(line) = peak
  BY <1>3, <1>5, <1>6, <1>7 DEF Peak
<1>9. peak.at = at /\ peak.score = best /\ (peak.alone <=> others = {})
      /\ peak.margin = IF others = {} THEN best ELSE best - Max(others)
  BY <1>7
<1>10. CASE others = {}
  <2>1. \A l \in 1..m : l = at
    BY <1>6, <1>10
  <2>2. peak.margin = best
    BY <1>9, <1>10
  <2>3. peak.at = at /\ peak.score = best /\ peak.alone
    BY <1>9, <1>10
  <2>4. PICK v : v = peak
    OBVIOUS
  <2>5. v.at = at /\ v.score = best /\ v.alone = TRUE /\ v.margin = best
    BY <2>2, <2>3, <2>4, <1>7, <1>10
  <2>6. best \in Int /\ line[at] = best /\ \A l \in 1..m : line[l] <= best
    BY <1>1, <1>2, <1>4
  <2>7. IsPeak(v, line, m)
    BY <2>1, <2>5, <2>6 DEF IsPeak
  <2> QED
    BY <1>8, <2>4, <2>7
<1>11. CASE others # {}
  <2>1. PICK U \in SUBSET (1..m) : U = DOMAIN line \ {at}
    OBVIOUS
  <2>2. U # {} /\ \A l \in U : line[l] \in Int
    BY <1>6, <1>11, <2>1
  <2>3. PICK z \in U : \A l \in U : line[l] <= line[z]
    BY <2>2, SomeGreatest
  <2>4. PICK next \in Nat : next = line[z]
    BY <2>1
  <2>5. Max(others) = next
    <3>1. others \in SUBSET Int /\ next \in others /\ \A x \in others : x <= next
      BY <1>6, <2>1, <2>2, <2>3, <2>4
    <3> QED
      BY <3>1, MaxIs
  <2>6. peak.margin = best - next
    BY <1>9, <1>11, <2>5
  <2>7. z \in 1..m /\ z # at
    BY <2>1
  <2>8. \A l \in 1..m : l # at => line[l] <= next
    BY <2>1, <2>3, <2>4
  <2>9. ASSUME NEW t \in Int
        PROVE  best - next >= t <=> \A l \in 1..m : l # at => best - line[l] >= t
    <3>1. ASSUME best - next >= t, NEW l \in 1..m, l # at
          PROVE  best - line[l] >= t
      <4>1. PICK x \in Nat : x = line[l]
        OBVIOUS
      <4>2. x <= next
        BY <2>8, <3>1, <4>1
      <4> QED
        BY <3>1, <4>1, <4>2
    <3>2. ASSUME \A l \in 1..m : l # at => best - line[l] >= t
          PROVE  best - next >= t
      BY <2>4, <2>7, <3>2
    <3> QED
      BY <3>1, <3>2
  <2>10. best - next \in Int
    OBVIOUS
  <2>11. ~(\A l \in 1..m : l = at)
    BY <2>7
  <2> QED
    BY <1>1, <1>2, <1>4, <1>8, <1>9, <1>11, <2>6, <2>9, <2>10, <2>11 DEF IsPeak
<1> QED
  BY <1>10, <1>11

\* A score that stands out in a line of scores by a margin, and above nothing.
StandsOut(line, m, k, margin) ==
  /\ \A l \in 1..m : l # k => line[k] - line[l] >= margin /\ line[k] > line[l]
  /\ line[k] >= margin

\* The peaks of rows and columns that the anchors come from.
RowOf(scores, m, i) == [j \in 1..m |-> scores[<<i, j>>]]
ColumnOf(scores, n, j) == [i \in 1..n |-> scores[<<i, j>>]]
RowPeak(scores, m, i) == Peak(RowOf(scores, m, i))
ColumnPeak(scores, n, j) == Peak(ColumnOf(scores, n, j))
IsCandidate(scores, n, m, options, i) ==
  IsAnchor(i, RowPeak(scores, m, i), ColumnPeak(scores, n, RowPeak(scores, m, i).at), options)

\* What an anchor needs.
Limits(options) ==
  /\ options.anchor \in Int /\ options.margin \in Int
  /\ options.gap \in Int /\ options.threshold \in Int

LEMMA PeakStandsOut ==
  ASSUME NEW m \in Nat, NEW line \in [1..m -> Nat], NEW peak, IsPeak(peak, line, m), NEW margin \in Int
  PROVE  /\ (peak.margin >= margin /\ ((\A k \in 1..m : k = peak.at) \/ peak.margin > 0)) =>
              StandsOut(line, m, peak.at, margin)
         /\ \A k \in 1..m : StandsOut(line, m, k, margin) =>
              /\ peak.at = k /\ peak.margin >= margin
              /\ (\A l \in 1..m : l = k) \/ peak.margin > 0
<1>1. PICK at \in 1..m, s \in Nat, d \in Int : at = peak.at /\ s = peak.score /\ s = line[at] /\ d = peak.margin
  BY DEF IsPeak
<1>2. \A k \in 1..m : line[k] \in Nat /\ line[k] <= s
  BY <1>1 DEF IsPeak
<1>3. ASSUME NEW t \in Int
      PROVE  d >= t <=> /\ (\A k \in 1..m : k = at) => s >= t
                        /\ \A k \in 1..m : k # at => s - line[k] >= t
  BY <1>1 DEF IsPeak
<1>4. d > 0 <=> d >= 1
  BY <1>1
<1>5. ASSUME d >= margin, (\A k \in 1..m : k = at) \/ d > 0
      PROVE  StandsOut(line, m, at, margin)
  <2>1. \A k \in 1..m : k # at => s - line[k] >= margin
    BY <1>3, <1>5
  <2>2. \A k \in 1..m : k # at => line[at] > line[k]
    <3>1. CASE \A k \in 1..m : k = at
      BY <3>1
    <3>2. CASE d > 0
      <4>1. \A k \in 1..m : k # at => s - line[k] >= 1
        BY <1>3, <1>4, <3>2
      <4> QED
        BY <1>1, <1>2, <4>1
    <3> QED
      BY <1>5, <3>1, <3>2
  <2>3. s >= margin
    <3>1. CASE \A k \in 1..m : k = at
      BY <1>3, <1>5, <3>1
    <3>2. CASE ~(\A k \in 1..m : k = at)
      <4>1. PICK k \in 1..m : k # at
        BY <3>2
      <4>2. s - line[k] >= margin /\ line[k] \in Nat
        BY <1>2, <2>1, <4>1
      <4> QED
        BY <4>2
    <3> QED
      BY <3>1, <3>2
  <2> QED
    BY <1>1, <2>1, <2>2, <2>3 DEF StandsOut
<1>6. ASSUME NEW k \in 1..m, StandsOut(line, m, k, margin)
      PROVE  at = k /\ d >= margin /\ ((\A l \in 1..m : l = k) \/ d > 0)
  <2>1. at = k
    <3>1. CASE at # k
      <4>1. line[k] > line[at]
        BY <1>6, <3>1 DEF StandsOut
      <4> QED
        BY <1>1, <1>2, <4>1
    <3> QED
      BY <3>1
  <2>2. \A l \in 1..m : l # at => s - line[l] >= margin
    BY <1>1, <1>6, <2>1 DEF StandsOut
  <2>3. s >= margin
    BY <1>1, <1>6, <2>1 DEF StandsOut
  <2>4. d >= margin
    BY <1>3, <2>2, <2>3
  <2>5. CASE ~(\A l \in 1..m : l = k)
    <3>1. \A l \in 1..m : l # at => s - line[l] >= 1
      <4>1. \A l \in 1..m : l # at => s > line[l]
        BY <1>1, <1>6, <2>1 DEF StandsOut
      <4> QED
        BY <1>2, <4>1
    <3>2. d >= 1
      BY <1>3, <2>1, <2>5, <3>1
    <3> QED
      BY <1>4, <2>1, <2>4, <3>2
  <2> QED
    BY <2>1, <2>4, <2>5
<1> QED
  BY <1>1, <1>5, <1>6

LEMMA LinesAre ==
  ASSUME NEW n \in Nat, NEW m \in Nat, n # 0, m # 0, NEW scores, \A p \in Pairs(n, m) : scores[p] \in Nat
  PROVE  /\ \A i \in 1..n : IsPeak(RowPeak(scores, m, i), RowOf(scores, m, i), m)
         /\ \A j \in 1..m : IsPeak(ColumnPeak(scores, n, j), ColumnOf(scores, n, j), n)
         /\ \A i \in 1..n : RowOf(scores, m, i) \in [1..m -> Nat]
         /\ \A j \in 1..m : ColumnOf(scores, n, j) \in [1..n -> Nat]
<1>1. \A i \in 1..n, j \in 1..m : scores[<<i, j>>] \in Nat
  <2>1. ASSUME NEW i \in 1..n, NEW j \in 1..m
        PROVE  scores[<<i, j>>] \in Nat
    <3>1. <<i, j>> \in Pairs(n, m)
      BY DEF Pairs
    <3> QED
      BY <3>1
  <2> QED
    BY <2>1
<1>2. \A i \in 1..n : RowOf(scores, m, i) \in [1..m -> Nat]
  BY <1>1 DEF RowOf
<1>3. \A j \in 1..m : ColumnOf(scores, n, j) \in [1..n -> Nat]
  BY <1>1 DEF ColumnOf
<1> QED
  BY <1>2, <1>3, PeakIs DEF RowPeak, ColumnPeak

LEMMA AnchorIs ==
  ASSUME NEW n \in Nat, NEW m \in Nat, NEW scores, DOMAIN scores = Pairs(n, m), NEW options, Limits(options),
         \A p \in Pairs(n, m) : scores[p] \in Nat, NEW i \in 1..n, NEW j \in 1..m
  PROVE  <<i, j>> \in Anchors(scores, options) <=>
           /\ scores[<<i, j>>] >= options.anchor /\ scores[<<i, j>>] >= options.threshold
           /\ scores[<<i, j>>] > 0
           /\ StandsOut(RowOf(scores, m, i), m, j, options.margin)
           /\ StandsOut(ColumnOf(scores, n, j), n, i, options.margin)
<1>1. PICK p : p = <<i, j>>
  OBVIOUS
<1>2. p \in Pairs(n, m) /\ p[1] = i /\ p[2] = j
  BY <1>1 DEF Pairs
<1>3. PICK s \in Nat : s = scores[p]
  BY <1>2
<1>4. PICK a \in Int, t \in Int, margin \in Int : a = options.anchor /\ t = options.threshold /\ margin = options.margin
  BY DEF Limits
<1>5. s >= Max2(a, t) <=> s >= a /\ s >= t
  BY DEF Max2
<1>6. p \in Anchors(scores, options) <=>
        /\ s >= a /\ s >= t /\ s >= margin /\ s > 0
        /\ \A q \in Pairs(n, m) : q # p /\ (q[1] = i \/ q[2] = j) => s > scores[q] /\ s - scores[q] >= margin
  BY <1>2, <1>3, <1>4, <1>5 DEF Anchors
<1>7. (\A q \in Pairs(n, m) : q # p /\ (q[1] = i \/ q[2] = j) => s > scores[q] /\ s - scores[q] >= margin) <=>
        /\ \A l \in 1..m : l # j => s > scores[<<i, l>>] /\ s - scores[<<i, l>>] >= margin
        /\ \A k \in 1..n : k # i => s > scores[<<k, j>>] /\ s - scores[<<k, j>>] >= margin
  <2>1. ASSUME \A q \in Pairs(n, m) : q # p /\ (q[1] = i \/ q[2] = j) => s > scores[q] /\ s - scores[q] >= margin
        PROVE  /\ \A l \in 1..m : l # j => s > scores[<<i, l>>] /\ s - scores[<<i, l>>] >= margin
               /\ \A k \in 1..n : k # i => s > scores[<<k, j>>] /\ s - scores[<<k, j>>] >= margin
    <3>1. ASSUME NEW l \in 1..m, l # j
          PROVE  s > scores[<<i, l>>] /\ s - scores[<<i, l>>] >= margin
      <4>1. PICK q : q = <<i, l>>
        OBVIOUS
      <4>2. q \in Pairs(n, m) /\ q[1] = i /\ q # p
        BY <1>1, <3>1, <4>1 DEF Pairs
      <4> QED
        BY <2>1, <4>1, <4>2
    <3>2. ASSUME NEW k \in 1..n, k # i
          PROVE  s > scores[<<k, j>>] /\ s - scores[<<k, j>>] >= margin
      <4>1. PICK q : q = <<k, j>>
        OBVIOUS
      <4>2. q \in Pairs(n, m) /\ q[2] = j /\ q # p
        BY <1>1, <3>2, <4>1 DEF Pairs
      <4> QED
        BY <2>1, <4>1, <4>2
    <3> QED
      BY <3>1, <3>2
  <2>2. ASSUME \A l \in 1..m : l # j => s > scores[<<i, l>>] /\ s - scores[<<i, l>>] >= margin,
               \A k \in 1..n : k # i => s > scores[<<k, j>>] /\ s - scores[<<k, j>>] >= margin,
               NEW q \in Pairs(n, m), q # p, q[1] = i \/ q[2] = j
        PROVE  s > scores[q] /\ s - scores[q] >= margin
    <3>1. PICK k \in 1..n, l \in 1..m : q = <<k, l>>
      BY DEF Pairs
    <3>2. q[1] = k /\ q[2] = l
      BY <3>1
    <3>3. CASE k = i
      <4>1. l # j
        BY <1>1, <2>2, <3>1, <3>3
      <4> QED
        BY <2>2, <3>1, <3>3, <4>1
    <3>4. CASE l = j
      <4>1. k # i
        BY <1>1, <2>2, <3>1, <3>4
      <4> QED
        BY <2>2, <3>1, <3>4, <4>1
    <3> QED
      BY <2>2, <3>2, <3>3, <3>4
  <2> QED
    BY <2>1, <2>2
<1>8. StandsOut(RowOf(scores, m, i), m, j, margin) <=>
        /\ \A l \in 1..m : l # j => s > scores[<<i, l>>] /\ s - scores[<<i, l>>] >= margin
        /\ s >= margin
  BY <1>1, <1>3 DEF StandsOut, RowOf
<1>9. StandsOut(ColumnOf(scores, n, j), n, i, margin) <=>
        /\ \A k \in 1..n : k # i => s > scores[<<k, j>>] /\ s - scores[<<k, j>>] >= margin
        /\ s >= margin
  BY <1>1, <1>3 DEF StandsOut, ColumnOf
<1> QED
  BY <1>1, <1>3, <1>4, <1>6, <1>7, <1>8, <1>9

LEMMA PeakPositive ==
  ASSUME NEW m \in Nat, NEW line \in [1..m -> Nat], NEW peak, IsPeak(peak, line, m)
  PROVE  /\ peak.margin > 0 => peak.score > 0
         /\ (peak.score > 0 /\ \A k \in 1..m : k = peak.at) => peak.margin > 0
         /\ peak.at \in 1..m /\ peak.score = line[peak.at] /\ peak.score \in Nat /\ peak.margin \in Int
         /\ (peak.alone <=> \A k \in 1..m : k = peak.at)
<1>1. PICK at \in 1..m, s \in Nat, d \in Int : at = peak.at /\ s = peak.score /\ s = line[at] /\ d = peak.margin
  BY DEF IsPeak
<1>2. d >= 1 <=> /\ (\A k \in 1..m : k = at) => s >= 1
                 /\ \A k \in 1..m : k # at => s - line[k] >= 1
  BY <1>1 DEF IsPeak
<1>3. ASSUME d > 0
      PROVE  s > 0
  <2>1. CASE \A k \in 1..m : k = at
    BY <1>2, <1>3, <2>1
  <2>2. CASE ~(\A k \in 1..m : k = at)
    <3>1. PICK k \in 1..m : k # at
      BY <2>2
    <3>2. PICK x \in Nat : x = line[k]
      OBVIOUS
    <3>3. s - x >= 1
      BY <1>2, <1>3, <3>1, <3>2
    <3> QED
      BY <3>3
  <2> QED
    BY <2>1, <2>2
<1>4. ASSUME s > 0, \A k \in 1..m : k = at
      PROVE  d > 0
  <2>1. s >= 1 /\ \A k \in 1..m : k # at => s - line[k] >= 1
    BY <1>1, <1>4
  <2>2. d >= 1
    BY <1>2, <2>1
  <2> QED
    BY <1>1, <2>2
<1>5. peak.alone <=> \A k \in 1..m : k = peak.at
  BY DEF IsPeak
<1> QED
  BY <1>1, <1>3, <1>4, <1>5

Candidates(scores, n, m, options) == {i \in 1..n : IsCandidate(scores, n, m, options, i)}
Partners(scores, n, m, options) == [i \in Candidates(scores, n, m, options) |-> RowPeak(scores, m, i).at]

LEMMA AnchorsAre ==
  ASSUME NEW n \in Nat, NEW m \in Nat, n # 0, m # 0, NEW scores, NEW options
  PROVE  (\A i \in 1..n : RowPeak(scores, m, i).at \in 1..m) =>
           FindMonotonicAnchors(scores, n, m, options) = LongestChain(Partners(scores, n, m, options))
<1> SUFFICES ASSUME \A i \in 1..n : RowPeak(scores, m, i).at \in 1..m
             PROVE  FindMonotonicAnchors(scores, n, m, options) = LongestChain(Partners(scores, n, m, options))
  OBVIOUS
<1>1. PICK rows : rows = [i \in 1..n |-> RowPeak(scores, m, i)]
  OBVIOUS
<1>2. PICK columns : columns = [j \in 1..m |-> ColumnPeak(scores, n, j)]
  OBVIOUS
<1>3. FindMonotonicAnchors(scores, n, m, options) = Anchored(rows, columns, options)
  BY <1>1, <1>2 DEF FindMonotonicAnchors, RowPeak, ColumnPeak, RowOf, ColumnOf
<1>4. \A i \in 1..n : rows[i] = RowPeak(scores, m, i)
                      /\ columns[rows[i].at] = ColumnPeak(scores, n, RowPeak(scores, m, i).at)
  BY <1>1, <1>2
<1>5. {i \in DOMAIN rows : IsAnchor(i, rows[i], columns[rows[i].at], options)} = Candidates(scores, n, m, options)
  BY <1>1, <1>4 DEF Candidates, IsCandidate
<1>6. Candidates(scores, n, m, options) \in SUBSET (1..n)
  BY DEF Candidates
<1>7. [i \in Candidates(scores, n, m, options) |-> rows[i].at] = Partners(scores, n, m, options)
  BY <1>4, <1>6 DEF Partners
<1> QED
  BY <1>3, <1>5, <1>7 DEF Anchored

LEMMA CandidateIs ==
  ASSUME NEW n \in Nat, NEW m \in Nat, n # 0, m # 0, NEW scores, DOMAIN scores = Pairs(n, m),
         NEW options, Limits(options), \A p \in Pairs(n, m) : scores[p] \in Nat, NEW i \in 1..n
  PROVE  /\ RowPeak(scores, m, i).at \in 1..m
         /\ IsCandidate(scores, n, m, options, i) => <<i, RowPeak(scores, m, i).at>> \in Anchors(scores, options)
         /\ \A j \in 1..m : <<i, j>> \in Anchors(scores, options) =>
              IsCandidate(scores, n, m, options, i) /\ RowPeak(scores, m, i).at = j
<1>1. PICK row : row = RowPeak(scores, m, i)
  OBVIOUS
<1>2. PICK line \in [1..m -> Nat] : line = RowOf(scores, m, i)
  BY LinesAre
<1>3. IsPeak(row, line, m)
  BY <1>1, <1>2, LinesAre
<1>4. PICK a \in Int, t \in Int, margin \in Int : a = options.anchor /\ t = options.threshold /\ margin = options.margin
  BY DEF Limits
<1>5. /\ row.at \in 1..m /\ row.score = line[row.at] /\ row.score \in Nat /\ row.margin \in Int
      /\ (row.alone <=> \A k \in 1..m : k = row.at)
  BY <1>3, PeakPositive
<1>6. ASSUME NEW x \in Int
      PROVE  x >= Max2(a, t) <=> x >= a /\ x >= t
  BY DEF Max2
<1>7. ASSUME NEW j \in 1..m, NEW column, column = ColumnPeak(scores, n, j)
      PROVE  \E up \in [1..n -> Nat] : up = ColumnOf(scores, n, j) /\ IsPeak(column, up, n)
  BY <1>7, LinesAre
<1>8. ASSUME IsCandidate(scores, n, m, options, i)
      PROVE  <<i, row.at>> \in Anchors(scores, options)
  <2>1. PICK j \in 1..m : j = row.at
    BY <1>5
  <2>2. PICK column : column = ColumnPeak(scores, n, j)
    OBVIOUS
  <2>3. PICK up \in [1..n -> Nat] : up = ColumnOf(scores, n, j) /\ IsPeak(column, up, n)
    BY <1>7, <2>2
  <2>4. IsAnchor(i, row, column, options)
    BY <1>1, <1>8, <2>1, <2>2 DEF IsCandidate
  <2>5. /\ row.score >= a /\ row.score >= t
        /\ row.margin >= margin /\ column.margin >= margin
        /\ row.alone \/ row.margin > 0
        /\ column.margin > 0 /\ column.at = i
    BY <1>4, <1>5, <1>6, <2>4 DEF IsAnchor
  <2>6. StandsOut(line, m, j, margin)
    BY <1>3, <1>5, <2>1, <2>5, PeakStandsOut
  <2>7. StandsOut(up, n, i, margin)
    BY <2>3, <2>5, PeakStandsOut
  <2>8. column.score > 0 /\ column.score = up[i]
    BY <2>3, <2>5, PeakPositive
  <2>9. line[j] = scores[<<i, j>>] /\ up[i] = scores[<<i, j>>]
    BY <1>2, <2>3 DEF RowOf, ColumnOf
  <2>10. PICK s \in Nat : s = scores[<<i, j>>] /\ s >= a /\ s >= t /\ s > 0
    BY <1>5, <2>1, <2>5, <2>8, <2>9
  <2>11. <<i, j>> \in Anchors(scores, options)
    BY <1>2, <1>4, <2>3, <2>6, <2>7, <2>10, AnchorIs
  <2> QED
    BY <2>1, <2>11
<1>9. ASSUME NEW j \in 1..m, <<i, j>> \in Anchors(scores, options)
      PROVE  IsCandidate(scores, n, m, options, i) /\ row.at = j
  <2>1. /\ scores[<<i, j>>] >= a /\ scores[<<i, j>>] >= t /\ scores[<<i, j>>] > 0
        /\ StandsOut(RowOf(scores, m, i), m, j, margin)
        /\ StandsOut(ColumnOf(scores, n, j), n, i, margin)
    BY <1>4, <1>9, AnchorIs
  <2>2. PICK column : column = ColumnPeak(scores, n, j)
    OBVIOUS
  <2>3. PICK up \in [1..n -> Nat] : up = ColumnOf(scores, n, j) /\ IsPeak(column, up, n)
    BY <1>7, <2>2
  <2>4. row.at = j /\ row.margin >= margin /\ ((\A l \in 1..m : l = j) \/ row.margin > 0)
    BY <1>2, <1>3, <2>1, PeakStandsOut
  <2>5. column.at = i /\ column.margin >= margin /\ ((\A l \in 1..n : l = i) \/ column.margin > 0)
    BY <2>1, <2>3, PeakStandsOut
  <2>6. column.score = up[i] /\ (column.score > 0 /\ (\A k \in 1..n : k = i) => column.margin > 0)
    BY <2>3, <2>5, PeakPositive
  <2>7. line[j] = scores[<<i, j>>] /\ up[i] = scores[<<i, j>>]
    BY <1>2, <2>3 DEF RowOf, ColumnOf
  <2>8. column.margin > 0
    BY <2>1, <2>5, <2>6, <2>7
  <2>9. row.alone \/ row.margin > 0
    BY <1>5, <2>4
  <2>10. row.score >= Max2(a, t)
    <3>1. PICK s \in Nat : s = row.score
      BY <1>5
    <3>2. s >= a /\ s >= t
      BY <1>5, <2>1, <2>4, <2>7, <3>1
    <3> QED
      BY <1>6, <3>1, <3>2
  <2>11. IsAnchor(i, row, column, options)
    BY <1>4, <2>4, <2>5, <2>8, <2>9, <2>10 DEF IsAnchor
  <2> QED
    BY <1>1, <2>2, <2>4, <2>11 DEF IsCandidate
<1> QED
  BY <1>1, <1>5, <1>8, <1>9

\* The candidates and their partners.
IsPartner(partner, n, m, G) ==
  /\ DOMAIN partner \in SUBSET (1..n) /\ partner \in [DOMAIN partner -> 1..m]
  /\ G = {<<i, partner[i]>> : i \in DOMAIN partner}

LEMMA PartnersAre ==
  ASSUME NEW n \in Nat, NEW m \in Nat, n # 0, m # 0, NEW scores, DOMAIN scores = Pairs(n, m),
         NEW options, Limits(options), \A p \in Pairs(n, m) : scores[p] \in Nat
  PROVE  /\ FindMonotonicAnchors(scores, n, m, options) = LongestChain(Partners(scores, n, m, options))
         /\ IsPartner(Partners(scores, n, m, options), n, m, Anchors(scores, options))
<1>1. \A i \in 1..n :
         /\ RowPeak(scores, m, i).at \in 1..m
         /\ IsCandidate(scores, n, m, options, i) => <<i, RowPeak(scores, m, i).at>> \in Anchors(scores, options)
         /\ \A j \in 1..m : <<i, j>> \in Anchors(scores, options) =>
              IsCandidate(scores, n, m, options, i) /\ RowPeak(scores, m, i).at = j
  BY CandidateIs
<1>2. PICK partner : partner = Partners(scores, n, m, options)
  OBVIOUS
<1>3. DOMAIN partner = Candidates(scores, n, m, options) /\ DOMAIN partner \in SUBSET (1..n)
  BY <1>2 DEF Partners, Candidates
<1>4. \A i \in DOMAIN partner : partner[i] = RowPeak(scores, m, i).at /\ i \in 1..n
  BY <1>2, <1>3 DEF Partners
<1>5. partner \in [DOMAIN partner -> 1..m]
  BY <1>1, <1>2, <1>3, <1>4 DEF Partners
<1>6. ASSUME NEW p \in Anchors(scores, options)
      PROVE  p \in {<<i, partner[i]>> : i \in DOMAIN partner}
  <2>1. p \in Pairs(n, m)
    BY DEF Anchors
  <2>2. PICK i \in 1..n, j \in 1..m : p = <<i, j>>
    BY <2>1 DEF Pairs
  <2>3. IsCandidate(scores, n, m, options, i) /\ RowPeak(scores, m, i).at = j
    BY <1>1, <2>2
  <2>4. i \in DOMAIN partner
    BY <1>3, <2>3 DEF Candidates
  <2> QED
    BY <1>4, <2>2, <2>3, <2>4
<1>7. ASSUME NEW i \in DOMAIN partner
      PROVE  <<i, partner[i]>> \in Anchors(scores, options)
  <2>1. i \in 1..n /\ IsCandidate(scores, n, m, options, i)
    BY <1>3 DEF Candidates
  <2> QED
    BY <1>1, <1>4, <2>1
<1>8. Anchors(scores, options) = {<<i, partner[i]>> : i \in DOMAIN partner}
  BY <1>6, <1>7
<1>9. FindMonotonicAnchors(scores, n, m, options) = LongestChain(partner)
  <2>1. \A i \in 1..n : RowPeak(scores, m, i).at \in 1..m
    BY <1>1
  <2> QED
    BY <1>2, <2>1, AnchorsAre
<1> QED
  BY <1>2, <1>3, <1>5, <1>8, <1>9 DEF IsPartner

-----------------------------------------------------------------------------
(* The longest chain.                                                      *)

Longer(chains, S) == chains[Min({k \in S : \A l \in S : Len(chains[k]) >= Len(chains[l])})]
Earlier(partner, i) == {k \in DOMAIN partner : k < i /\ partner[k] < partner[i]}
ChainStep(partner, f, i) ==
  Append(IF Earlier(partner, i) = {} THEN <<>>
         ELSE Longer([k \in Earlier(partner, i) |-> f[k]], Earlier(partner, i)),
         <<i, partner[i]>>)

LEMMA LongerIs ==
  ASSUME NEW n \in Nat, NEW S \in SUBSET (1..n), S # {}, NEW G, NEW chains, \A k \in S : chains[k] \in Seq(G)
  PROVE  \E k \in S : Longer(chains, S) = chains[k] /\ \A l \in S : Len(chains[l]) <= Len(chains[k])
<1>1. PICK line : line = [k \in S |-> Len(chains[k])]
  OBVIOUS
<1>2. \A k \in S : line[k] = Len(chains[k]) /\ line[k] \in Int
  BY <1>1
<1>3. PICK T : T = {k \in S : \A l \in S : Len(chains[k]) >= Len(chains[l])}
  OBVIOUS
<1>4. PICK z \in S : \A l \in S : line[l] <= line[z]
  BY <1>2, SomeGreatest
<1>5. T \in SUBSET Nat /\ T \in SUBSET Int /\ z \in T
  <2>1. T \in SUBSET Nat /\ T \in SUBSET Int
    <3>1. \A k \in T : k \in S
      BY <1>3
    <3>2. \A k \in S : k \in Nat /\ k \in Int
      OBVIOUS
    <3> QED
      BY <3>1, <3>2
  <2>2. \A l \in S : Len(chains[z]) >= Len(chains[l])
    BY <1>2, <1>4
  <2> QED
    BY <1>3, <2>1, <2>2
<1>6. PICK k \in T : \A x \in T : k <= x
  BY <1>5, Least
<1>7. Min(T) = k
  BY <1>5, <1>6, MinIs
<1>8. Longer(chains, S) = chains[k]
  BY <1>3, <1>7 DEF Longer
<1>9. \A l \in S : Len(chains[l]) <= Len(chains[k])
  BY <1>2, <1>3, <1>6
<1> QED
  BY <1>3, <1>6, <1>8, <1>9

LEMMA ChainStepLooksBack ==
  ASSUME NEW n \in Nat, NEW m \in Nat, NEW partner, NEW G, IsPartner(partner, n, m, G),
         NEW i \in DOMAIN partner, NEW f, NEW h,
         \A k \in Earlier(partner, i) : f[k] = h[k] /\ f[k] \in Seq(G)
  PROVE  ChainStep(partner, f, i) = ChainStep(partner, h, i) /\ ChainStep(partner, f, i) \in Seq(G)
<1>1. PICK before : before = Earlier(partner, i)
  OBVIOUS
<1>2. before \in SUBSET (1..n)
  BY <1>1 DEF Earlier, IsPartner
<1>3. PICK x : x = [k \in before |-> f[k]]
  OBVIOUS
<1>4. x = [k \in before |-> h[k]] /\ \A k \in before : x[k] \in Seq(G)
  BY <1>1, <1>3
<1>5. PICK e \in G : e = <<i, partner[i]>>
  BY DEF IsPartner
<1>6. PICK c : c = IF before = {} THEN <<>> ELSE Longer(x, before)
  OBVIOUS
<1>7. c \in Seq(G)
  <2>1. CASE before = {}
    BY <1>6, <2>1
  <2>2. CASE before # {}
    <3>1. PICK k \in before : Longer(x, before) = x[k]
      BY <1>2, <1>4, <2>2, LongerIs
    <3> QED
      BY <1>4, <1>6, <2>2, <3>1
  <2> QED
    BY <2>1, <2>2
<1>8. ChainStep(partner, f, i) = Append(c, e) /\ ChainStep(partner, h, i) = Append(c, e)
  BY <1>1, <1>3, <1>4, <1>5, <1>6 DEF ChainStep
<1> QED
  BY <1>7, <1>8, AppendProperties

IsChains(f, partner, G) ==
  /\ f \in [DOMAIN partner -> Seq(G)]
  /\ \A i \in DOMAIN partner : f[i] = ChainStep(partner, f, i)

LEMMA ChainsExist ==
  ASSUME NEW n \in Nat, NEW m \in Nat, NEW partner, NEW G, IsPartner(partner, n, m, G)
  PROVE  \E f : IsChains(f, partner, G)
<1>1. PICK D, V : D = DOMAIN partner /\ V = Seq(G)
  OBVIOUS
<1>2. PICK rank : rank = [i \in D |-> i]
  OBVIOUS
<1>3. D \in SUBSET (1..n)
  BY <1>1 DEF IsPartner
<1>4. rank \in [D -> 0..n] /\ rank \in [D -> Nat]
  BY <1>2, <1>3
<1>5. PICK Dom : Dom = (UNION {[Under(D, rank, p) -> V] : p \in D}) \X D
  OBVIOUS
<1> DEFINE step == [x \in Dom |-> ChainStep(partner, x[1], x[2])]
<1>6. ASSUME NEW p \in D
      PROVE  Earlier(partner, p) \in SUBSET Under(D, rank, p)
  BY <1>1, <1>2 DEF Earlier, Under
<1>7. ASSUME NEW p \in D, NEW h \in [Under(D, rank, p) -> V]
      PROVE  step[<<h, p>>] = ChainStep(partner, h, p) /\ step[<<h, p>>] \in V
  <2>1. PICK x : x = <<h, p>>
    OBVIOUS
  <2>2. x \in Dom /\ x[1] = h /\ x[2] = p
    BY <1>5, <2>1
  <2>3. step[x] = ChainStep(partner, x[1], x[2])
    BY <2>2
  <2>4. ChainStep(partner, h, p) \in V
    <3>1. \A k \in Earlier(partner, p) : h[k] = h[k] /\ h[k] \in Seq(G)
      BY <1>1, <1>6
    <3> QED
      BY <1>1, <3>1, ChainStepLooksBack
  <2> HIDE DEF step
  <2> QED
    BY <2>1, <2>2, <2>3, <2>4
<1>8. Typed(D, V, rank, step)
  <2> HIDE DEF step
  <2> QED
    BY <1>7 DEF Typed
<1>9. PICK f : Solves(f, D, D, V, rank, step)
  <2> HIDE DEF step
  <2> QED
    BY <1>4, <1>8, RecursionExists
<1>10. ASSUME NEW p \in D
       PROVE  f[p] = ChainStep(partner, f, p)
  <2>1. PICK h : h = Known(f, D, rank, p)
    OBVIOUS
  <2>2. Under(D, rank, p) \subseteq D /\ f \in [D -> V]
    BY <1>9 DEF Under, Solves
  <2>3. h \in [Under(D, rank, p) -> V] /\ \A q \in Under(D, rank, p) : h[q] = f[q] /\ h[q] \in V
    BY <2>1, <2>2 DEF Known
  <2>4. f[p] = step[<<h, p>>]
    BY <1>9, <2>1 DEF Solves
  <2>5. step[<<h, p>>] = ChainStep(partner, h, p)
    BY <1>7, <2>3
  <2>6. ChainStep(partner, h, p) = ChainStep(partner, f, p)
    <3>1. \A k \in Earlier(partner, p) : h[k] = f[k] /\ h[k] \in Seq(G)
      BY <1>1, <1>6, <2>3
    <3> HIDE DEF step
    <3> QED
      BY <1>1, <3>1, ChainStepLooksBack
  <2> HIDE DEF step
  <2> QED
    BY <2>4, <2>5, <2>6
<1> QED
  BY <1>1, <1>9, <1>10 DEF IsChains, Solves

LEMMA ChainIs ==
  ASSUME NEW n \in Nat, NEW m \in Nat, NEW partner, NEW G, IsPartner(partner, n, m, G)
  PROVE  \E f : /\ IsChains(f, partner, G)
                /\ LongestChain(partner) = IF DOMAIN partner = {} THEN <<>> ELSE Longer(f, DOMAIN partner)
<1>1. PICK D : D = DOMAIN partner
  OBVIOUS
<1> DEFINE Eq(f) == f = [i \in DOMAIN partner |-> ChainStep(partner, f, i)]
<1> DEFINE F == CHOOSE f : Eq(f)
<1>2. F = CHOOSE f : Eq(f)
  OBVIOUS
<1>3. LongestChain(partner) = IF DOMAIN partner = {} THEN <<>> ELSE Longer(F, DOMAIN partner)
  BY Zenon DEF LongestChain, ChainStep, Longer, Earlier
<1> HIDE DEF F
<1>4. PICK f : IsChains(f, partner, G)
  BY ChainsExist
<1>5. Eq(f)
  BY <1>1, <1>4 DEF IsChains
<1>6. Eq(F)
  <2> HIDE DEF Eq
  <2> QED
    BY <1>2, <1>5
<1>7. PICK rank : rank = [i \in D |-> i]
  OBVIOUS
<1>8. rank \in [D -> Nat]
  BY <1>1, <1>7 DEF IsPartner
<1>9. ASSUME NEW p \in D, \A q \in Under(D, rank, p) : f[q] = F[q]
      PROVE  f[p] = F[p]
  <2>1. \A k \in Earlier(partner, p) : k \in Under(D, rank, p) /\ k \in D
    BY <1>1, <1>7 DEF Earlier, Under
  <2>2. \A k \in Earlier(partner, p) : f[k] = F[k] /\ f[k] \in Seq(G)
    BY <1>1, <1>4, <1>9, <2>1 DEF IsChains
  <2>3. ChainStep(partner, f, p) = ChainStep(partner, F, p)
    BY <1>1, <2>2, ChainStepLooksBack
  <2> QED
    BY <1>1, <1>5, <1>6, <2>3
<1>10. f = F
  <2>1. IsFcn(f, D) /\ IsFcn(F, D)
    BY <1>1, <1>5, <1>6 DEF IsFcn
  <2>2. Settled(f, F, D, rank)
    BY <1>9 DEF Settled
  <2> QED
    BY <1>8, <2>1, <2>2, OneSolution
<1> QED
  BY <1>1, <1>3, <1>4, <1>10

\* A chain that ends with a pair, and as long as any matching that does.
EndsWith(c, G, p) ==
  /\ Chain(c, G) /\ Len(c) \in Nat \ {0} /\ c[Len(c)] = p
  /\ \A T \in Ways(G) : (p \in T /\ \A q \in T : q[1] <= p[1]) => Cardinality(T) <= Len(c)

Precedes(b, e) == Len(b) # 0 => b[Len(b)][1] < e[1] /\ b[Len(b)][2] < e[2]
LastOf(c, G, L, e) == Chain(c, G) /\ Len(c) = L + 1 /\ c[L + 1] = e

LEMMA ChainGrows ==
  ASSUME NEW G \in SUBSET (Nat \X Nat), NEW b, Chain(b, G), NEW e \in G, Precedes(b, e)
  PROVE  LastOf(Append(b, e), G, Len(b), e) /\ Len(b) \in Nat
<1>1. PICK L \in Nat : L = Len(b)
  BY DEF Chain
<1>2. b \in Seq(G)
  BY DEF Chain
<1>3. PICK c : c = Append(b, e)
  OBVIOUS
<1>4. c \in Seq(G) /\ Len(c) = L + 1 /\ c[L + 1] = e /\ \A k \in 1..L : c[k] = b[k]
  BY <1>1, <1>2, <1>3, AppendProperties
<1>5. \A k \in 1..L : b[k] \in G /\ b[k][1] \in Nat /\ b[k][2] \in Nat
  BY <1>1, <1>2
<1>6. ASSUME NEW k \in 1..L
      PROVE  b[k][1] < e[1] /\ b[k][2] < e[2]
  <2>1. b[L][1] < e[1] /\ b[L][2] < e[2]
    BY <1>1 DEF Precedes
  <2>2. L \in 1..L
    OBVIOUS
  <2>3. k = L \/ (b[k][1] < b[L][1] /\ b[k][2] < b[L][2])
    BY <1>1, <2>2 DEF Chain
  <2>4. e[1] \in Nat /\ e[2] \in Nat
    OBVIOUS
  <2> QED
    BY <1>5, <2>1, <2>2, <2>3, <2>4
<1>7. ASSUME NEW k \in 1..(L + 1), NEW l \in 1..(L + 1), k < l
      PROVE  c[k][1] < c[l][1] /\ c[k][2] < c[l][2]
  <2>1. k \in 1..L /\ c[k] = b[k]
    <3>1. k \in 1..L
      BY <1>1, <1>7
    <3> QED
      BY <1>4, <3>1
  <2>2. CASE l \in 1..L
    BY <1>1, <1>4, <1>7, <2>1, <2>2 DEF Chain
  <2>3. CASE l = L + 1
    BY <1>4, <1>6, <2>1, <2>3
  <2> QED
    BY <2>2, <2>3
<1> QED
  BY <1>1, <1>3, <1>4, <1>7 DEF Chain, LastOf

LEMMA PartnerFacts ==
  ASSUME NEW n \in Nat, NEW m \in Nat, NEW partner, NEW G, IsPartner(partner, n, m, G)
  PROVE  /\ G \in SUBSET Pairs(n, m) /\ G \in SUBSET (Nat \X Nat) /\ IsFiniteSet(G)
         /\ \A p \in G : p[1] \in DOMAIN partner /\ p[2] = partner[p[1]] /\ p = <<p[1], partner[p[1]]>>
                         /\ p[1] \in 1..n
         /\ \A i \in DOMAIN partner : <<i, partner[i]>> \in G /\ i \in 1..n /\ partner[i] \in 1..m
<1>1. \A i \in DOMAIN partner : i \in 1..n /\ partner[i] \in 1..m /\ <<i, partner[i]>> \in G
  BY DEF IsPartner
<1>2. ASSUME NEW p \in G
      PROVE  /\ p[1] \in DOMAIN partner /\ p[2] = partner[p[1]] /\ p = <<p[1], partner[p[1]]>>
             /\ p[1] \in 1..n /\ p \in Pairs(n, m)
  <2>1. PICK i \in DOMAIN partner : p = <<i, partner[i]>>
    BY DEF IsPartner
  <2>2. p[1] = i /\ p[2] = partner[i]
    BY <2>1
  <2> QED
    BY <1>1, <2>1, <2>2 DEF Pairs
<1>3. G \in SUBSET Pairs(n, m)
  BY <1>2
<1>4. IsFiniteSet(Pairs(n, m)) /\ Pairs(n, m) \in SUBSET (Nat \X Nat)
  BY PairsAre
<1>5. IsFiniteSet(G) /\ G \in SUBSET (Nat \X Nat)
  BY <1>3, <1>4, FS_Subset
<1> QED
  BY <1>1, <1>2, <1>3, <1>5

\* The last pair of a matching.
LEMMA LastPair ==
  ASSUME NEW n \in Nat, NEW m \in Nat, NEW partner, NEW G, IsPartner(partner, n, m, G),
         NEW T \in SUBSET G, T # {}
  PROVE  \E p \in T : \A q \in T : q[1] <= p[1]
<1>1. PICK U : U = {q[1] : q \in T}
  OBVIOUS
<1>2. \A q \in T : q[1] \in 1..n
  BY PartnerFacts
<1>3. U \in SUBSET (1..n) /\ U # {}
  BY <1>1, <1>2
<1>4. PICK f : f = [k \in U |-> k]
  OBVIOUS
<1>5. \A k \in U : f[k] = k /\ f[k] \in Int
  BY <1>3, <1>4
<1>6. PICK k \in U : \A l \in U : f[l] <= f[k]
  BY <1>3, <1>5, SomeGreatest
<1>7. PICK p \in T : k = p[1]
  BY <1>1
<1>8. ASSUME NEW q \in T
      PROVE  q[1] <= p[1]
  <2>1. q[1] \in U
    BY <1>1
  <2> QED
    BY <1>5, <1>6, <1>7, <2>1
<1> QED
  BY <1>8

LEMMA ChainsEnd ==
  ASSUME NEW n \in Nat, NEW m \in Nat, NEW partner, NEW G, IsPartner(partner, n, m, G),
         NEW f, IsChains(f, partner, G), NEW i \in DOMAIN partner,
         \A k \in Earlier(partner, i) : EndsWith(f[k], G, <<k, partner[k]>>)
  PROVE  EndsWith(f[i], G, <<i, partner[i]>>)
<1>1. /\ G \in SUBSET (Nat \X Nat) /\ IsFiniteSet(G)
      /\ \A p \in G : p[1] \in DOMAIN partner /\ p[2] = partner[p[1]] /\ p = <<p[1], partner[p[1]]>>
                      /\ p[1] \in 1..n
      /\ \A k \in DOMAIN partner : <<k, partner[k]>> \in G /\ k \in 1..n /\ partner[k] \in 1..m
  BY PartnerFacts
<1>2. PICK e \in G : e = <<i, partner[i]>>
  BY <1>1
<1>3. e[1] = i /\ e[2] = partner[i] /\ i \in Nat /\ partner[i] \in Nat
  BY <1>1, <1>2
<1>4. PICK before : before = Earlier(partner, i)
  OBVIOUS
<1>5. before \in SUBSET (1..n) /\ before \in SUBSET DOMAIN partner
  BY <1>1, <1>4 DEF Earlier
<1>6. PICK x : x = [k \in before |-> f[k]]
  OBVIOUS
<1>7. PICK b : b = IF before = {} THEN <<>> ELSE Longer(x, before)
  OBVIOUS
<1>8. f[i] = Append(b, e)
  BY <1>2, <1>4, <1>6, <1>7 DEF IsChains, ChainStep
<1>9. ASSUME before # {}
      PROVE  \E k \in before : b = f[k] /\ \A l \in before : Len(f[l]) <= Len(f[k])
  <2>1. \A k \in before : x[k] = f[k] /\ x[k] \in Seq(G)
    BY <1>5, <1>6 DEF IsChains
  <2>2. PICK k \in before : Longer(x, before) = x[k] /\ \A l \in before : Len(x[l]) <= Len(x[k])
    BY <1>5, <1>9, <2>1, LongerIs
  <2> QED
    BY <1>7, <1>9, <2>1, <2>2
<1>10. /\ Chain(b, G) /\ (Len(b) # 0 => b[Len(b)][1] < e[1] /\ b[Len(b)][2] < e[2])
       /\ \A l \in before : Len(f[l]) <= Len(b)
  <2>1. CASE before = {}
    <3>1. b = <<>>
      BY <1>7, <2>1
    <3> QED
      BY <2>1, <3>1 DEF Chain
  <2>2. CASE before # {}
    <3>1. PICK k \in before : b = f[k] /\ \A l \in before : Len(f[l]) <= Len(f[k])
      BY <1>9, <2>2
    <3>2. EndsWith(b, G, <<k, partner[k]>>)
      BY <1>4, <3>1
    <3>3. k < i /\ partner[k] < partner[i]
      BY <1>4 DEF Earlier
    <3> QED
      BY <1>3, <3>1, <3>2, <3>3 DEF EndsWith
  <2> QED
    BY <2>1, <2>2
<1>11. PICK c : c = f[i]
  OBVIOUS
<1>12. PICK L \in Nat : L = Len(b)
  BY <1>10 DEF Chain
<1>13. Chain(c, G) /\ Len(c) = L + 1 /\ c[L + 1] = e
  <2>1. Precedes(b, e)
    BY <1>10 DEF Precedes
  <2>2. LastOf(Append(b, e), G, Len(b), e)
    BY <1>1, <1>10, <2>1, ChainGrows
  <2> QED
    BY <1>8, <1>11, <1>12, <2>2 DEF LastOf
<1>14. ASSUME NEW T \in Ways(G), e \in T, \A q \in T : q[1] <= e[1]
       PROVE  Cardinality(T) <= L + 1
  <2>1. T \in SUBSET G /\ InOrder(T)
    BY DEF Ways
  <2>2. PICK R : R = T \ {e}
    OBVIOUS
  <2>3. IsFiniteSet(T) /\ IsFiniteSet(R) /\ Cardinality(R) = Cardinality(T) - 1
        /\ Cardinality(R) \in Nat /\ Cardinality(T) \in Nat
    BY <1>1, <1>14, <2>1, <2>2, FS_Subset, FS_RemoveElement, FS_CardinalityType
  <2>4. Cardinality(R) <= L
    <3>1. CASE R = {}
      <4>1. Cardinality(R) = 0
        BY <3>1, FS_EmptySet
      <4> QED
        BY <4>1
    <3>2. CASE R # {}
      <4>1. R \in SUBSET G
        BY <2>1, <2>2
      <4>2. PICK p \in R : \A q \in R : q[1] <= p[1]
        BY <3>2, <4>1, LastPair
      <4>3. p \in T /\ p # e /\ p \in G /\ p[1] \in Nat /\ p[2] \in Nat
        BY <1>1, <2>2, <4>1
      <4>4. p[1] < e[1] /\ p[2] < e[2]
        <5>1. (p[1] < e[1] /\ p[2] < e[2]) \/ (e[1] < p[1] /\ e[2] < p[2])
          BY <1>14, <2>1, <4>3 DEF InOrder
        <5>2. p[1] <= e[1]
          BY <1>14, <4>3
        <5> QED
          BY <1>3, <4>3, <5>1, <5>2
      <4>5. PICK k \in DOMAIN partner : k = p[1] /\ p = <<k, partner[k]>> /\ p[2] = partner[k]
        BY <1>1, <4>3
      <4>6. k \in before
        BY <1>3, <1>4, <4>4, <4>5 DEF Earlier
      <4>7. R \in Ways(G)
        BY <2>1, <2>2, <4>1 DEF Ways, InOrder
      <4>8. EndsWith(f[k], G, p)
        BY <1>4, <4>5, <4>6
      <4>9. Cardinality(R) <= Len(f[k])
        BY <4>2, <4>7, <4>8 DEF EndsWith
      <4>10. Len(f[k]) <= L /\ Len(f[k]) \in Nat
        BY <1>10, <1>12, <4>6, <4>8 DEF EndsWith
      <4> QED
        BY <2>3, <4>9, <4>10
    <3> QED
      BY <3>1, <3>2
  <2> QED
    BY <2>3, <2>4
<1>15. L + 1 \in Nat \ {0}
  OBVIOUS
<1>16. EndsWith(c, G, e)
  BY <1>13, <1>14, <1>15 DEF EndsWith
<1> QED
  BY <1>2, <1>11, <1>16

LongestOne(c, G) == Chain(c, G) /\ Len(c) \in Nat /\ \A T \in Ways(G) : Cardinality(T) <= Len(c)

LEMMA LongestChainIs ==
  ASSUME NEW n \in Nat, NEW m \in Nat, NEW partner, NEW G, IsPartner(partner, n, m, G)
  PROVE  LongestOne(LongestChain(partner), G)
<1>1. PICK D : D = DOMAIN partner
  OBVIOUS
<1>2. PICK f : /\ IsChains(f, partner, G)
               /\ LongestChain(partner) = IF D = {} THEN <<>> ELSE Longer(f, D)
  BY <1>1, ChainIs
<1>3. D \in SUBSET (1..n)
  BY <1>1 DEF IsPartner
<1>4. PICK c : c = LongestChain(partner)
  OBVIOUS
<1>5. /\ G \in SUBSET (Nat \X Nat) /\ IsFiniteSet(G)
      /\ \A p \in G : p[1] \in D /\ p = <<p[1], partner[p[1]]>>
  BY <1>1, PartnerFacts
<1>6. CASE D = {}
  <2>1. c = <<>>
    BY <1>2, <1>4, <1>6
  <2>2. G = {}
    BY <1>5, <1>6
  <2>3. Chain(c, G) /\ Len(c) = 0
    BY <2>1 DEF Chain
  <2>4. \A T \in Ways(G) : T = {}
    BY <2>2 DEF Ways
  <2>5. Cardinality({}) = 0
    BY FS_EmptySet
  <2>6. ASSUME NEW T \in Ways(G)
        PROVE  Cardinality(T) <= Len(c)
    <3>1. Cardinality(T) = 0
      BY <2>4, <2>5
    <3> QED
      BY <2>3, <3>1
  <2> QED
    BY <1>4, <2>3, <2>6 DEF LongestOne
<1>7. CASE D # {}
  <2>1. PICK rank : rank = [i \in D |-> i]
    OBVIOUS
  <2>2. rank \in [D -> Nat] /\ \A i \in D : rank[i] = i
    BY <1>3, <2>1
  <2> DEFINE S == {i \in D : EndsWith(f[i], G, <<i, partner[i]>>)}
  <2>3. ASSUME NEW i \in D, \A k \in D : rank[k] < rank[i] => k \in S
        PROVE  i \in S
    <3>1. \A k \in Earlier(partner, i) : k \in D /\ k < i
      BY <1>1 DEF Earlier
    <3>2. \A k \in Earlier(partner, i) : EndsWith(f[k], G, <<k, partner[k]>>)
      BY <2>2, <2>3, <3>1
    <3>3. EndsWith(f[i], G, <<i, partner[i]>>)
      BY <1>1, <1>2, <3>2, ChainsEnd
    <3> QED
      BY <3>3
  <2>4. \A i \in D : i \in S
    <3> HIDE DEF S
    <3> QED
      BY <2>2, <2>3, RankInduction
  <2>5. \A i \in D : f[i] \in Seq(G)
    BY <1>1, <1>2 DEF IsChains
  <2>6. PICK k \in D : Longer(f, D) = f[k] /\ \A l \in D : Len(f[l]) <= Len(f[k])
    BY <1>3, <1>7, <2>5, LongerIs
  <2>7. c = f[k]
    BY <1>2, <1>4, <1>7, <2>6
  <2>8. Chain(c, G) /\ Len(c) \in Nat
    BY <2>4, <2>7 DEF EndsWith
  <2>9. ASSUME NEW T \in Ways(G)
        PROVE  Cardinality(T) <= Len(c)
    <3>1. T \in SUBSET G
      BY DEF Ways
    <3>2. CASE T = {}
      <4>1. Cardinality(T) = 0
        BY <3>2, FS_EmptySet
      <4> QED
        BY <2>8, <4>1
    <3>3. CASE T # {}
      <4>1. PICK p \in T : \A q \in T : q[1] <= p[1]
        BY <3>1, <3>3, LastPair
      <4>2. PICK i \in D : i = p[1] /\ p = <<i, partner[i]>>
        BY <1>5, <3>1
      <4>3. EndsWith(f[i], G, p)
        BY <2>4, <4>2
      <4>4. Cardinality(T) <= Len(f[i]) /\ Len(f[i]) \in Nat
        BY <4>1, <4>3 DEF EndsWith
      <4>5. Len(f[i]) <= Len(c)
        BY <2>6, <2>7
      <4>6. Cardinality(T) \in Nat
        BY <1>5, <3>1, FS_Subset, FS_CardinalityType
      <4> QED
        BY <2>8, <4>4, <4>5, <4>6
    <3> QED
      BY <3>2, <3>3
  <2> QED
    BY <1>4, <2>8, <2>9 DEF LongestOne
<1> QED
  BY <1>6, <1>7

\* The pairs of a chain.
LEMMA ChainCounts ==
  ASSUME NEW G \in SUBSET (Nat \X Nat), NEW c, Chain(c, G)
  PROVE  Passed(c, Len(c)) \in Ways(G) /\ Cardinality(Passed(c, Len(c))) = Len(c)
<1>1. PICK L \in Nat : L = Len(c)
  BY DEF Chain
<1>2. \A k \in 1..L : c[k] \in G /\ c[k][1] \in Nat /\ c[k][2] \in Nat
  <2>1. c \in Seq(G)
    BY DEF Chain
  <2>2. \A k \in 1..L : c[k] \in G
    BY <1>1, <2>1
  <2> QED
    BY <2>2
<1>3. \A k, l \in 1..L : k < l => c[k][1] < c[l][1] /\ c[k][2] < c[l][2]
  BY <1>1 DEF Chain
<1>4. Passed(c, L) \in SUBSET G
  BY <1>2 DEF Passed
<1>5. ASSUME NEW p \in Passed(c, L), NEW q \in Passed(c, L), p # q
      PROVE  (p[1] < q[1] /\ p[2] < q[2]) \/ (q[1] < p[1] /\ q[2] < p[2])
  <2>1. PICK k \in 1..L, l \in 1..L : p = c[k] /\ q = c[l]
    BY DEF Passed
  <2>2. k < l \/ l < k
    BY <1>5, <2>1
  <2> QED
    BY <1>3, <2>1, <2>2
<1>6. InOrder(Passed(c, L))
  BY <1>5 DEF InOrder
<1> DEFINE S == {k \in 0..L : IsFiniteSet(Passed(c, k)) /\ Cardinality(Passed(c, k)) = k}
<1>7. 0 \in S
  <2>1. Passed(c, 0) = {}
    BY DEF Passed
  <2> QED
    BY <2>1, FS_EmptySet
<1>8. ASSUME NEW k \in 1..L, k - 1 \in S
      PROVE  k \in S
  <2>1. PICK P : P = Passed(c, k - 1)
    OBVIOUS
  <2>2. Passed(c, k) = P \cup {c[k]}
    <3>1. k \in Nat /\ k # 0
      OBVIOUS
    <3>2. Passed(c, k) = Passed(c, k - 1) \cup {c[k]}
      BY <3>1, PassedMore
    <3> QED
      BY <2>1, <3>2
  <2>3. c[k] \notin P
    <3>1. ASSUME c[k] \in P
          PROVE  FALSE
      <4>1. PICK l \in 1..(k - 1) : c[k] = c[l]
        BY <2>1, <3>1 DEF Passed
      <4>2. l \in 1..L /\ l < k
        OBVIOUS
      <4>3. c[l][1] < c[k][1] /\ c[k][1] \in Nat
        BY <1>2, <1>3, <4>2
      <4> QED
        BY <4>1, <4>3
    <3> QED
      BY <3>1
  <2>4. IsFiniteSet(P) /\ Cardinality(P) = k - 1
    BY <1>8, <2>1
  <2>5. IsFiniteSet(P \cup {c[k]}) /\ Cardinality(P \cup {c[k]}) = (k - 1) + 1
    BY <2>3, <2>4, FS_AddElement
  <2>6. (k - 1) + 1 = k
    OBVIOUS
  <2> QED
    BY <2>2, <2>5, <2>6
<1>9. L \in S
  <2> HIDE DEF S
  <2>1. \A k \in 0..L : k \in S
    BY <1>7, <1>8, CountingUp
  <2> QED
    BY <2>1
<1> QED
  BY <1>1, <1>4, <1>6, <1>9 DEF Ways

\* A longest chain, and the cheapest rows around it.
LongestWay(C, G) == C \in Ways(G) /\ \A T \in Ways(G) : Cardinality(T) <= Cardinality(C)

LEMMA AlignScoredIs ==
  ASSUME NEW n \in Nat, NEW m \in Nat, n # 0, m # 0, NEW scores, DOMAIN scores = Pairs(n, m),
         NEW options, Limits(options), \A p \in Pairs(n, m) : scores[p] \in Nat
  PROVE  \E C : /\ LongestWay(C, Anchors(scores, options))
                /\ Going(AlignScored(scores, n, m, options), Extra(scores, n, m, options),
                         Allowed(scores, n, m, options), C, n, m)
<1>1. PICK G : G = Anchors(scores, options)
  OBVIOUS
<1>2. PICK partner : partner = Partners(scores, n, m, options)
  OBVIOUS
<1>3. FindMonotonicAnchors(scores, n, m, options) = LongestChain(partner) /\ IsPartner(partner, n, m, G)
  BY <1>1, <1>2, PartnersAre
<1>4. PICK c : c = LongestChain(partner)
  OBVIOUS
<1>5. Chain(c, G) /\ Len(c) \in Nat /\ \A T \in Ways(G) : Cardinality(T) <= Len(c)
  BY <1>3, <1>4, LongestChainIs DEF LongestOne
<1>6. G \in SUBSET (Nat \X Nat)
  BY <1>3, PartnerFacts
<1>7. PICK C : C = Passed(c, Len(c))
  OBVIOUS
<1>8. C \in Ways(G) /\ Cardinality(C) = Len(c)
  BY <1>5, <1>6, <1>7, ChainCounts
<1>9. LongestWay(C, G)
  BY <1>5, <1>8 DEF LongestWay
<1>10. PICK E : E = Allowed(scores, n, m, options)
  OBVIOUS
<1>11. G \in SUBSET E
  <2>1. PICK a \in Int, t \in Int : a = options.anchor /\ t = options.threshold
    BY DEF Limits
  <2>2. ASSUME NEW p \in G
        PROVE  p \in E
    <3>1. p \in Pairs(n, m) /\ scores[p] >= Max2(a, t)
      BY <1>1, <2>1 DEF Anchors
    <3>2. PICK s \in Nat : s = scores[p]
      BY <3>1
    <3>3. s >= t
      BY <2>1, <3>1, <3>2 DEF Max2
    <3> QED
      BY <1>10, <2>1, <3>1, <3>2, <3>3 DEF Allowed
  <2> QED
    BY <2>2
<1>12. Chain(c, E)
  <2>1. c \in Seq(G)
    BY <1>5 DEF Chain
  <2>2. \A k \in 1..Len(c) : c[k] \in E
    BY <1>11, <2>1
  <2>3. c \in Seq(E)
    BY <2>1, <2>2
  <2> QED
    BY <1>5, <2>3 DEF Chain
<1>13. Table(scores, n, m, options)
  BY DEF Table, Limits
<1>14. Going(AlignBetween(c, scores, n, m, options), Extra(scores, n, m, options), E, C, n, m)
  BY <1>7, <1>10, <1>12, <1>13, AlignBetweenIsCheapest
<1>15. AlignScored(scores, n, m, options) = AlignBetween(c, scores, n, m, options)
  BY <1>3, <1>4 DEF AlignScored
<1> QED
  BY <1>1, <1>9, <1>10, <1>14, <1>15

-----------------------------------------------------------------------------
(* The automatic alignment is the cheapest one around its anchors.         *)

LEMMA TotalShifted ==
  ASSUME NEW U, IsFiniteSet(U), NEW g, NEW h, NEW c \in Int,
         \A x \in U : g[x] \in Int /\ h[x] \in Int /\ h[x] = g[x] + c
  PROVE  Total(h, U) = Total(g, U) + c * Cardinality(U)
<1> DEFINE S == {s \in SUBSET U : Total(h, s) = Total(g, s) + c * Cardinality(s)}
<1>1. ASSUME NEW s \in SUBSET U, \A t \in SUBSET s : t # s => t \in S
      PROVE  s \in S
  <2>1. CASE s = {}
    <3>1. Total(h, {}) = 0 /\ Total(g, {}) = 0 /\ Cardinality({}) = 0
      BY TotalEmpty, FS_EmptySet
    <3>2. c * 0 = 0 /\ 0 = 0 + 0
      OBVIOUS
    <3>3. Total(h, s) = Total(g, s) + c * Cardinality(s)
      BY <2>1, <3>1, <3>2
    <3> QED
      BY <3>3
  <2>2. CASE s # {}
    <3>1. PICK x \in s : TRUE
      BY <2>2
    <3>2. PICK t : t = s \ {x}
      OBVIOUS
    <3>3. t \in SUBSET s /\ t # s /\ t \in SUBSET U
      BY <3>1, <3>2
    <3>4. Total(h, t) = Total(g, t) + c * Cardinality(t)
      BY <1>1, <3>3
    <3>5. IsFiniteSet(s) /\ IsFiniteSet(t)
      BY <3>3, FS_Subset
    <3>6. PICK k \in Nat, l \in Nat : k = Cardinality(s) /\ l = Cardinality(t) /\ l = k - 1
      BY <3>1, <3>2, <3>5, FS_RemoveElement, FS_CardinalityType
    <3>7. PICK a \in Int, b \in Int : a = Total(g, t) /\ b = Total(h, t)
      <4>1. \A y \in t : g[y] \in Int /\ h[y] \in Int
        BY <3>3
      <4> QED
        BY <3>5, <4>1, TotalType
    <3>8. \A y \in s : g[y] \in Int /\ h[y] \in Int
      OBVIOUS
    <3>9. Total(g, s) = g[x] + a /\ Total(h, s) = h[x] + b
      BY <3>1, <3>2, <3>5, <3>7, <3>8, TotalWith
    <3>10. PICK u \in Int, v \in Int : u = g[x] /\ v = h[x] /\ v = u + c
      BY <3>1
    <3>11. b = a + c * l
      BY <3>4, <3>6, <3>7
    <3>12. c * k = c * l + c
      BY <3>6
    <3>13. v + b = (u + a) + c * k
      <4>1. PICK d \in Int, e \in Int : d = c * l /\ e = c * k
        OBVIOUS
      <4>2. b = a + d /\ e = d + c
        BY <3>11, <3>12, <4>1
      <4>3. a \in Int /\ b \in Int /\ u \in Int /\ v \in Int /\ d \in Int /\ e \in Int /\ c \in Int
        BY <3>7, <3>10, <4>1
      <4>4. v = u + c
        BY <3>10
      <4>5. v + b = (u + a) + e
        BY <4>2, <4>3, <4>4
      <4> QED
        BY <4>1, <4>5
    <3>14. Total(h, s) = Total(g, s) + c * Cardinality(s)
      BY <3>6, <3>9, <3>10, <3>13
    <3> QED
      BY <3>14
  <2> QED
    BY <2>1, <2>2
<1>2. \A s \in SUBSET U : s \in S
  <2> HIDE DEF S
  <2> QED
    BY <1>1, SetInduction
<1>3. U \in S
  <2> HIDE DEF S
  <2> QED
    BY <1>2
<1> QED
  BY <1>3

\* The texts of the records.
Records(refs, A) ==
  /\ refs \in Seq(Seq(A)) /\ Len(refs) \in 0..Longest
  /\ \A k \in 1..Len(refs) : Len(refs[k]) \in 0..Longest

LEMMA ScoresAre ==
  ASSUME NEW A, NEW refs, NEW acts, Records(refs, A), Records(acts, A)
  PROVE  /\ BuildScores(refs, acts)
              = [p \in (DOMAIN refs) \X (DOMAIN acts) |-> Similarity(refs[p[1]], acts[p[2]])]
         /\ DOMAIN BuildScores(refs, acts) = Pairs(Len(refs), Len(acts))
         /\ \A p \in Pairs(Len(refs), Len(acts)) : BuildScores(refs, acts)[p] \in Nat
<1>1. PICK P : P = (DOMAIN refs) \X (DOMAIN acts)
  OBVIOUS
<1>2. P = Pairs(Len(refs), Len(acts))
  BY <1>1 DEF Records, Pairs
<1>3. ASSUME NEW p \in P
      PROVE  Ratio(refs[p[1]], acts[p[2]]) = Similarity(refs[p[1]], acts[p[2]])
             /\ Ratio(refs[p[1]], acts[p[2]]) \in Nat
  <2>1. p[1] \in 1..Len(refs) /\ p[2] \in 1..Len(acts)
    BY <1>1 DEF Records
  <2>2. PICK r \in Seq(A), a \in Seq(A) : r = refs[p[1]] /\ a = acts[p[2]]
    BY SMTT(30), <2>1 DEF Records
  <2>3. Len(r) \in 0..Longest /\ Len(a) \in 0..Longest
    BY <2>1, <2>2 DEF Records
  <2> QED
    BY <2>2, <2>3, RatioIsSimilarity, RatioIsFull
<1>4. BuildScores(refs, acts) = [p \in P |-> Ratio(refs[p[1]], acts[p[2]])]
  BY <1>1 DEF BuildScores
<1> QED
  BY <1>1, <1>2, <1>3, <1>4

LEMMA OptimalUnfolds ==
  ASSUME NEW T, NEW refs, NEW acts, NEW options,
         NEW scores, scores = [p \in (DOMAIN refs) \X (DOMAIN acts) |-> Similarity(refs[p[1]], acts[p[2]])],
         NEW price, price = [p \in DOMAIN scores |-> Percent(100) - scores[p]],
         OptimalAmong(T, Matchings[<<Len(refs), Len(acts)>>], scores, price, refs, acts, options)
  PROVE  Optimal(T, refs, acts, options)
BY DEF Optimal

LEMMA OptimalIs ==
  ASSUME NEW A, NEW refs, NEW acts, Records(refs, A), Records(acts, A), NEW options, Limits(options),
         NEW n \in Nat, n = Len(refs), NEW m \in Nat, m = Len(acts),
         NEW scores, scores = BuildScores(refs, acts),
         NEW C, LongestWay(C, Anchors(scores, options)),
         NEW T, Best(T, Extra(scores, n, m, options), Allowed(scores, n, m, options), C)
  PROVE  Optimal(T, refs, acts, options)
<1>1. PICK P : P = Pairs(n, m)
  OBVIOUS
<1>2. /\ scores = [p \in (DOMAIN refs) \X (DOMAIN acts) |-> Similarity(refs[p[1]], acts[p[2]])]
      /\ DOMAIN scores = P /\ \A p \in P : scores[p] \in Nat
  <2>1. /\ BuildScores(refs, acts)
              = [p \in (DOMAIN refs) \X (DOMAIN acts) |-> Similarity(refs[p[1]], acts[p[2]])]
        /\ DOMAIN BuildScores(refs, acts) = Pairs(Len(refs), Len(acts))
        /\ \A p \in Pairs(Len(refs), Len(acts)) : BuildScores(refs, acts)[p] \in Nat
    BY ScoresAre
  <2>2. P = Pairs(Len(refs), Len(acts))
    BY <1>1
  <2> QED
    BY <2>1, <2>2
<1>3. Matchings[<<Len(refs), Len(acts)>>] = Ways(P)
  BY <1>1, MatchingsAre DEF Records
<1>4. PICK G, E : G = Anchors(scores, options) /\ E = Allowed(scores, n, m, options)
  OBVIOUS
<1>5. {S \in Ways(P) : S \subseteq Anchors(scores, options)} = Ways(G)
  <2>1. G \in SUBSET P
    BY <1>2, <1>4 DEF Anchors
  <2> QED
    BY <1>4, <2>1 DEF Ways
<1>6. {S \in Ways(P) : \A p \in S : scores[p] >= options.threshold} = Ways(E)
  BY <1>1, <1>4 DEF Ways, Allowed
<1>7. IsFiniteSet(P) /\ P \in SUBSET (Nat \X Nat)
  BY <1>1, PairsAre
<1>8. ASSUME NEW S \in Ways(P)
      PROVE  S \in SUBSET P /\ IsFiniteSet(S) /\ Cardinality(S) \in Nat
  BY <1>7, <1>8, FS_Subset, FS_CardinalityType DEF Ways
<1>9. C \in Ways(G) /\ C \in Ways(P) /\ \A S \in Ways(G) : S \in Ways(P) /\ Cardinality(S) <= Cardinality(C)
  <2>1. \A S \in Ways(G) : S \in Ways(P)
    BY <1>5, <1>4
  <2> QED
    BY <1>4, <2>1 DEF LongestWay
<1>10. Max({Cardinality(S) : S \in Ways(G)}) = Cardinality(C)
  <2>1. PICK N : N = {Cardinality(S) : S \in Ways(G)}
    OBVIOUS
  <2>2. N \in SUBSET Int /\ Cardinality(C) \in N /\ \A x \in N : x <= Cardinality(C)
    BY <1>8, <1>9, <2>1
  <2> QED
    BY <2>1, <2>2, MaxIs
<1>11. PICK price : price = [p \in DOMAIN scores |-> Percent(100) - scores[p]]
  OBVIOUS
<1>12. PICK g : g = Extra(scores, n, m, options)
  OBVIOUS
<1>13. PICK gap \in Int, full \in Int : gap = options.gap /\ full = Percent(100)
  BY PercentType DEF Limits
<1>14. PICK c \in Int : c = 2 * gap
  OBVIOUS
<1>15. ASSUME NEW p \in P
       PROVE  g[p] \in Int /\ price[p] \in Int /\ price[p] = g[p] + c
  <2>1. PICK s \in Nat : s = scores[p]
    BY <1>2
  <2>2. price[p] = full - s
    BY <1>2, <1>11, <1>13, <2>1
  <2>3. g[p] = full - s - 2 * gap
    BY <1>1, <1>12, <1>13, <2>1 DEF Extra
  <2> QED
    BY <1>14, <2>2, <2>3
<1> DEFINE Cost(S) == options.gap * (Len(refs) + Len(acts) - 2 * Cardinality(S)) + Total(price, S)
<1>16. ASSUME NEW S \in Ways(P)
       PROVE  Cost(S) = gap * (n + m) + Total(g, S) /\ Total(g, S) \in Int
  <2>1. S \in SUBSET P /\ IsFiniteSet(S)
    BY <1>8
  <2>2. PICK k \in Nat : k = Cardinality(S)
    BY <1>8
  <2>3. Total(price, S) = Total(g, S) + c * k
    BY <1>14, <1>15, <2>1, <2>2, TotalShifted
  <2>4. PICK t \in Int : t = Total(g, S)
    BY <1>15, <2>1, TotalType
  <2>5. gap * (n + m - 2 * k) + (t + c * k) = gap * (n + m) + t
    <3>1. gap * (n + m - 2 * k) = gap * (n + m) - c * k
      BY <1>14
    <3>2. PICK a \in Int, b \in Int : a = gap * (n + m) /\ b = c * k
      BY SMTT(30), <1>13, <1>14
    <3>3. (a - b) + (t + b) = a + t
      BY <2>4, <3>2
    <3> QED
      BY <3>1, <3>2, <3>3
  <2> QED
    BY <1>13, <2>2, <2>3, <2>4, <2>5
<1>17. T \in Ways(E) /\ C \subseteq T /\ \A S \in Ways(E) : C \subseteq S => Total(g, T) <= Total(g, S)
  BY <1>4, <1>12 DEF Best
<1>18. ASSUME NEW S \in Ways(E), C \subseteq S
       PROVE  Cost(T) <= Cost(S)
  <2>1. S \in Ways(P) /\ T \in Ways(P)
    BY <1>6, <1>17, <1>18
  <2>2. PICK a \in Int, t \in Int, s \in Int : a = gap * (n + m) /\ t = Total(g, T) /\ s = Total(g, S)
    BY <1>13, <1>16, <2>1
  <2>3. t <= s
    BY <1>17, <1>18, <2>2
  <2>4. Cost(T) = a + t /\ Cost(S) = a + s
    BY <1>16, <2>1, <2>2
  <2> HIDE DEF Cost
  <2> QED
    BY <2>2, <2>3, <2>4
<1>19. /\ T \in Ways(E)
       /\ \E chain \in Ways(G) :
            /\ Cardinality(chain) = Max({Cardinality(S) : S \in Ways(G)}) /\ chain \subseteq T
            /\ \A S \in Ways(E) : chain \subseteq S => Cost(T) <= Cost(S)
  <2> HIDE DEF Cost
  <2> QED
    BY <1>9, <1>10, <1>17, <1>18
<1>20. OptimalAmong(T, Matchings[<<Len(refs), Len(acts)>>], scores, price, refs, acts, options)
  BY <1>3, <1>4, <1>5, <1>6, <1>19 DEF OptimalAmong
<1> QED
  BY <1>2, <1>11, <1>20, OptimalUnfolds

\* Rows of every record of either side in order, whose pairs are the cheapest.
AlignsWell(path, refs, acts, options) ==
  Walks(path, 0, Len(refs), 0, Len(acts)) /\ Optimal(Matches(path), refs, acts, options)

Tabled(scores, n, m) == DOMAIN scores = Pairs(n, m) /\ \A p \in Pairs(n, m) : scores[p] \in Nat

LEMMA ScoresTabled ==
  ASSUME NEW A, NEW refs, NEW acts, Records(refs, A), Records(acts, A),
         NEW n, n = Len(refs), NEW m, m = Len(acts)
  PROVE  Tabled(BuildScores(refs, acts), n, m)
<1>1. /\ BuildScores(refs, acts)
            = [p \in (DOMAIN refs) \X (DOMAIN acts) |-> Similarity(refs[p[1]], acts[p[2]])]
      /\ DOMAIN BuildScores(refs, acts) = Pairs(Len(refs), Len(acts))
      /\ \A p \in Pairs(Len(refs), Len(acts)) : BuildScores(refs, acts)[p] \in Nat
  BY ScoresAre
<1> QED
  BY <1>1 DEF Tabled

LEMMA NothingIsOptimal ==
  ASSUME NEW A, NEW refs, NEW acts, Records(refs, A), Records(acts, A), NEW options, Limits(options),
         Len(refs) = 0 \/ Len(acts) = 0
  PROVE  Optimal({}, refs, acts, options)
<1>1. PICK n \in Nat, m \in Nat : n = Len(refs) /\ m = Len(acts)
  BY DEF Records
<1>2. PICK scores : scores = BuildScores(refs, acts)
  OBVIOUS
<1>3. n = 0 \/ m = 0
  BY <1>1
<1>4. Pairs(n, m) = {}
  BY <1>3, PairsAre DEF Pairs
<1>5. DOMAIN scores = {}
  <2>1. Tabled(scores, n, m)
    BY <1>1, <1>2, ScoresTabled
  <2> QED
    BY <1>4, <2>1 DEF Tabled
<1>6. Anchors(scores, options) = {}
  BY <1>5 DEF Anchors
<1>7. Allowed(scores, n, m, options) = {}
  BY <1>4 DEF Allowed
<1>8. Ways({}) = {{}}
  BY DEF Ways, InOrder
<1>9. LongestWay({}, Anchors(scores, options))
  <2>1. ASSUME NEW T \in Ways({})
        PROVE  Cardinality(T) <= Cardinality({})
    <3>1. T = {}
      BY <1>8
    <3>2. PICK z \in Nat : z = Cardinality({})
      BY FS_EmptySet
    <3> QED
      BY <3>1, <3>2
  <2> QED
    BY <1>6, <1>8, <2>1 DEF LongestWay
<1>10. Best({}, Extra(scores, n, m, options), Allowed(scores, n, m, options), {})
  <2>1. PICK g : g = Extra(scores, n, m, options)
    OBVIOUS
  <2>2. PICK t \in Int : t = Total(g, {})
    BY TotalEmpty
  <2>3. ASSUME NEW S \in Ways({})
        PROVE  Total(g, {}) <= Total(g, S)
    <3>1. S = {}
      BY <1>8
    <3> QED
      BY <2>2, <3>1
  <2> QED
    BY <1>7, <1>8, <2>1, <2>3 DEF Best
<1> QED
  BY <1>1, <1>2, <1>9, <1>10, OptimalIs

LEMMA AlignWithoutReference ==
  ASSUME NEW A, NEW refs, NEW acts, Records(refs, A), Records(acts, A), NEW options, Limits(options),
         refs = <<>>
  PROVE  AlignsWell(Align(refs, acts, options), refs, acts, options)
<1>1. PICK m \in Nat : m = Len(acts) /\ DOMAIN acts = 1..m
  BY DEF Records
<1>2. PICK path : path = [j \in 1..m |-> Pair(0, j)]
  OBVIOUS
<1>3. Align(refs, acts, options) = path
  BY <1>1, <1>2 DEF Align
<1>4. PICK z \in Nat : z = 0
  OBVIOUS
<1>5. \A k \in 1..m : path[k] = Pair(0, z + k)
  BY <1>2, <1>4
<1>6. \A k \in 1..m : Pair(0, k) \in RowPairs
  BY PairIs
<1>7. path \in Seq(RowPairs) /\ Len(path) = m
  BY <1>2, <1>6
<1>8. Walks(path, z, z, z, z + m) /\ Matches(path) = {}
  BY <1>5, <1>7, ActualGaps
<1>9. z + m = m /\ Len(refs) = 0
  BY <1>4
<1>10. Walks(path, 0, Len(refs), 0, Len(acts))
  BY <1>1, <1>4, <1>8, <1>9
<1>11. Optimal({}, refs, acts, options)
  BY <1>9, NothingIsOptimal
<1> QED
  BY <1>3, <1>8, <1>10, <1>11 DEF AlignsWell

LEMMA AlignWithoutActual ==
  ASSUME NEW A, NEW refs, NEW acts, Records(refs, A), Records(acts, A), NEW options, Limits(options),
         refs # <<>>, acts = <<>>
  PROVE  AlignsWell(Align(refs, acts, options), refs, acts, options)
<1>1. PICK n \in Nat : n = Len(refs) /\ DOMAIN refs = 1..n
  BY DEF Records
<1>2. PICK path : path = [i \in 1..n |-> Pair(i, 0)]
  OBVIOUS
<1>3. Align(refs, acts, options) = path
  BY <1>1, <1>2 DEF Align
<1>4. PICK z \in Nat : z = 0
  OBVIOUS
<1>5. \A k \in 1..n : path[k] = Pair(z + k, 0)
  BY <1>2, <1>4
<1>6. \A k \in 1..n : Pair(k, 0) \in RowPairs
  BY PairIs
<1>7. path \in Seq(RowPairs) /\ Len(path) = n
  BY <1>2, <1>6
<1>8. Walks(path, z, z + n, z, z) /\ Matches(path) = {}
  BY <1>5, <1>7, ReferenceGaps
<1>9. z + n = n /\ Len(acts) = 0
  BY <1>4
<1>10. Walks(path, 0, Len(refs), 0, Len(acts))
  BY <1>1, <1>4, <1>8, <1>9
<1>11. Optimal({}, refs, acts, options)
  BY <1>9, NothingIsOptimal
<1> QED
  BY <1>3, <1>8, <1>10, <1>11 DEF AlignsWell

LEMMA AlignIs ==
  ASSUME NEW A, NEW refs, NEW acts, Records(refs, A), Records(acts, A), NEW options, Limits(options)
  PROVE  AlignsWell(Align(refs, acts, options), refs, acts, options)
<1>1. CASE refs = <<>>
  BY <1>1, AlignWithoutReference
<1>2. CASE refs # <<>> /\ acts = <<>>
  BY <1>2, AlignWithoutActual
<1>3. CASE refs # <<>> /\ acts # <<>>
  <2>1. PICK n \in Nat, m \in Nat : n = Len(refs) /\ m = Len(acts)
    BY DEF Records
  <2>2. n # 0 /\ m # 0
    BY <1>3, <2>1, EmptySeq DEF Records
  <2>3. PICK scores : scores = BuildScores(refs, acts)
    OBVIOUS
  <2>4. DOMAIN scores = Pairs(n, m) /\ \A p \in Pairs(n, m) : scores[p] \in Nat
    <3>1. Tabled(scores, n, m)
      BY <2>1, <2>3, ScoresTabled
    <3> QED
      BY <3>1 DEF Tabled
  <2>5. PICK path : path = AlignScored(scores, n, m, options)
    OBVIOUS
  <2>6. Align(refs, acts, options) = path
    BY <1>3, <2>1, <2>3, <2>5 DEF Align
  <2>7. PICK g, E : g = Extra(scores, n, m, options) /\ E = Allowed(scores, n, m, options)
    OBVIOUS
  <2>8. \E C : /\ LongestWay(C, Anchors(scores, options))
               /\ Going(AlignScored(scores, n, m, options), Extra(scores, n, m, options),
                        Allowed(scores, n, m, options), C, n, m)
    BY <2>2, <2>4, AlignScoredIs
  <2>9. PICK C : LongestWay(C, Anchors(scores, options)) /\ Going(path, g, E, C, n, m)
    BY <2>5, <2>7, <2>8
  <2>10. E \in SUBSET Pairs(n, m)
    BY <2>7 DEF Allowed
  <2>11. Within(E, 0, n, 0, m) = E
    BY <2>10, WholeWithin
  <2>12. Walks(path, 0, n, 0, m) /\ Best(Matches(path), g, E, C)
    BY <2>9, <2>11 DEF Going
  <2>13. Optimal(Matches(path), refs, acts, options)
    BY <2>1, <2>3, <2>7, <2>9, <2>12, OptimalIs
  <2> QED
    BY <2>1, <2>6, <2>12, <2>13 DEF AlignsWell
<1> QED
  BY <1>1, <1>2, <1>3

-----------------------------------------------------------------------------
(* The rows of a report.                                                   *)

\* Rows for the pairs of a path.
RowsFor(rows, path) == DOMAIN rows = DOMAIN path /\ \A k \in DOMAIN path : rows[k].pair = path[k]

Numbered(rows, reference, actual) ==
  /\ EachOnce([k \in DOMAIN rows |-> rows[k].pair.reference], reference)
  /\ EachOnce([k \in DOMAIN rows |-> rows[k].pair.actual], actual)

LEMMA RunsEachOnce ==
  ASSUME NEW s, NEW n \in Nat, Runs(s, 0, n), NEW lines, DOMAIN lines = 1..n
  PROVE  EachOnce(s, lines)
<1>1. PICK there : there = {k \in DOMAIN s : s[k] # 0}
  OBVIOUS
<1>2. DOMAIN s = 1..Len(s) /\ Len(s) \in Nat
  BY DEF Runs
<1>3. \A k \in there : k \in 1..Len(s) /\ s[k] # 0
  BY <1>1, <1>2
<1>4. \A k \in there : s[k] \in 1..n
  BY <1>3 DEF Runs
<1>5. ASSUME NEW v \in 1..n
      PROVE  \E k \in there : s[k] = v
  <2>1. v \in (0 + 1)..n /\ v # 0
    OBVIOUS
  <2>2. PICK k \in 1..Len(s) : s[k] = v
    BY <2>1 DEF Runs
  <2> QED
    BY <1>1, <1>2, <2>1, <2>2
<1>6. {s[k] : k \in there} = 1..n
  BY <1>4, <1>5
<1>7. ASSUME NEW k \in there, NEW l \in there, k < l
      PROVE  s[k] < s[l]
  BY <1>3, <1>7 DEF Runs
<1> QED
  BY <1>1, <1>6, <1>7 DEF EachOnce

LEMMA RowsNumbered ==
  ASSUME NEW path, NEW n \in Nat, NEW m \in Nat, Walks(path, 0, n, 0, m), NEW rows, RowsFor(rows, path),
         NEW reference, DOMAIN reference = 1..n, NEW actual, DOMAIN actual = 1..m
  PROVE  Numbered(rows, reference, actual)
<1>1. [k \in DOMAIN rows |-> rows[k].pair.reference] = Refs(path)
  BY DEF RowsFor, Refs
<1>2. [k \in DOMAIN rows |-> rows[k].pair.actual] = Acts(path)
  BY DEF RowsFor, Acts
<1>3. EachOnce(Refs(path), reference) /\ EachOnce(Acts(path), actual)
  BY RunsEachOnce DEF Walks
<1> QED
  BY <1>1, <1>2, <1>3 DEF Numbered

\* The matched records.
Paired(rows) ==
  LET both == {row \in ToSet(rows) : row.pair.reference # 0 /\ row.pair.actual # 0}
  IN {<<row.pair.reference, row.pair.actual>> : row \in both}

LEMMA PairedAre ==
  ASSUME NEW path \in Seq(RowPairs), NEW rows, RowsFor(rows, path)
  PROVE  Paired(rows) = Matches(path)
<1>1. DOMAIN path = 1..Len(path) /\ Len(path) \in Nat
  OBVIOUS
<1>2. \A k \in 1..Len(path) : rows[k] \in ToSet(rows) /\ rows[k].pair = path[k]
  BY <1>1 DEF ToSet, RowsFor
<1>3. ASSUME NEW row \in ToSet(rows), row.pair.reference # 0, row.pair.actual # 0
      PROVE  <<row.pair.reference, row.pair.actual>> \in Matches(path)
  <2>1. PICK k \in DOMAIN rows : row = rows[k]
    BY DEF ToSet
  <2>2. k \in 1..Len(path)
    BY <1>1, <2>1 DEF RowsFor
  <2>3. row.pair = path[k] /\ path[k] \in RowPairs
    BY <1>2, <2>1, <2>2
  <2>4. PICK i \in Nat, j \in Nat : i = row.pair.reference /\ j = row.pair.actual
    BY <2>3 DEF RowPairs
  <2>5. path[k] = Pair(i, j)
    BY <2>3, <2>4 DEF RowPairs, Pair
  <2>6. PICK e : e = <<i, j>>
    OBVIOUS
  <2>7. e \in Nat \X Nat /\ e[1] = i /\ e[2] = j
    BY <2>6
  <2>8. e \in Matches(path)
    BY <1>3, <2>2, <2>4, <2>5, <2>7 DEF Matches
  <2> QED
    BY <2>4, <2>6, <2>8
<1>4. ASSUME NEW e \in Matches(path)
      PROVE  \E row \in ToSet(rows) : row.pair.reference # 0 /\ row.pair.actual # 0
                                      /\ e = <<row.pair.reference, row.pair.actual>>
  <2>1. e \in Nat \X Nat /\ e[1] # 0 /\ e[2] # 0
    BY DEF Matches
  <2>2. PICK k \in 1..Len(path) : path[k] = Pair(e[1], e[2])
    BY DEF Matches
  <2>3. PICK i \in Nat, j \in Nat : i = e[1] /\ j = e[2] /\ e = <<i, j>>
    BY <2>1
  <2>4. Pair(i, j).reference = i /\ Pair(i, j).actual = j
    BY PairIs
  <2>5. rows[k].pair = Pair(i, j) /\ rows[k] \in ToSet(rows)
    BY <1>2, <2>2, <2>3
  <2> QED
    BY <2>1, <2>3, <2>4, <2>5
<1> QED
  BY <1>3, <1>4 DEF Paired

LEMMA AlignRowsIs ==
  ASSUME NEW refs, NEW acts, NEW n \in Nat, n = Len(refs), NEW m \in Nat, m = Len(acts)
  PROVE  Walks(AlignRows(refs, acts), 0, n, 0, m)
<1>1. PICK l \in Nat : l = Max2(n, m)
  BY DEF Max2
<1>2. n <= l /\ m <= l
  BY <1>1 DEF Max2
<1>3. PICK path : path = AlignRows(refs, acts)
  OBVIOUS
<1>4. path = [k \in 1..l |-> Pair(IF k <= n THEN k ELSE 0, IF k <= m THEN k ELSE 0)]
  BY <1>1, <1>3 DEF AlignRows
<1>5. ASSUME NEW k \in 1..l
      PROVE  /\ path[k] \in RowPairs
             /\ path[k].reference = IF k <= n THEN k ELSE 0
             /\ path[k].actual = IF k <= m THEN k ELSE 0
  <2>1. PICK i \in Nat, j \in Nat : i = (IF k <= n THEN k ELSE 0) /\ j = IF k <= m THEN k ELSE 0
    OBVIOUS
  <2>2. path[k] = Pair(i, j)
    BY <1>4, <2>1
  <2> QED
    BY <2>1, <2>2, PairIs
<1>6. path \in Seq(RowPairs) /\ Len(path) = l
  BY <1>4, <1>5
<1>7. PICK s, t : s = Refs(path) /\ t = Acts(path)
  OBVIOUS
<1>8. s \in Seq(Nat) /\ Len(s) = l /\ t \in Seq(Nat) /\ Len(t) = l
  BY <1>6, <1>7, SidesAre
<1>9. \A k \in 1..l : s[k] = (IF k <= n THEN k ELSE 0) /\ t[k] = IF k <= m THEN k ELSE 0
  BY SMTT(30), <1>5, <1>6, <1>7, SidesAre
<1>10. Runs(s, 0, n)
  BY <1>2, <1>8, <1>9 DEF Runs
<1>11. Runs(t, 0, m)
  BY <1>2, <1>8, <1>9 DEF Runs
<1> QED
  BY <1>3, <1>6, <1>7, <1>10, <1>11 DEF Walks

-----------------------------------------------------------------------------
(* Normalizing shortens a text.                                            *)

Short(x, A, k) == x \in Seq(A) /\ Len(x) <= k

LEMMA SelectShortens ==
  ASSUME NEW A, NEW s \in Seq(A), NEW S
  PROVE  Select(s, S) \in Seq(A) /\ Len(Select(s, S)) <= Len(s)
<1>1. PICK n \in Nat : n = Len(s) /\ DOMAIN s = 1..n
  OBVIOUS
<1>2. PICK f : Taken(f, s, S) /\ Select(s, S) = f[n]
  BY <1>1, SelectRuns
<1>3. PICK T : T = {k \in 0..n : Short(f[k], A, k)}
  OBVIOUS
<1>4. 0 \in T
  <2>1. f[0] = <<>> /\ <<>> \in Seq(A) /\ Len(<<>>) = 0 /\ 0 \in 0..n
    BY <1>1, <1>2 DEF Taken
  <2>2. Short(f[0], A, 0)
    BY <2>1 DEF Short
  <2> QED
    BY <1>3, <2>1, <2>2
<1>5. ASSUME NEW k \in 1..n, k - 1 \in T
      PROVE  k \in T
  <2>1. f[k] = IF s[k] \in S THEN Append(f[k - 1], s[k]) ELSE f[k - 1]
    BY <1>1, <1>2 DEF Taken
  <2>2. PICK g \in Seq(A) : g = f[k - 1] /\ Len(g) <= k - 1
    BY <1>3, <1>5 DEF Short
  <2>3. s[k] \in A /\ k \in 0..n
    BY <1>1
  <2>4. Append(g, s[k]) \in Seq(A) /\ Len(Append(g, s[k])) = Len(g) + 1
    BY <2>3, AppendProperties
  <2>5. PICK l \in Nat : l = Len(g)
    OBVIOUS
  <2>6. Short(g, A, k) /\ Short(Append(g, s[k]), A, k)
    BY <2>2, <2>4, <2>5 DEF Short
  <2> QED
    BY <1>3, <2>1, <2>2, <2>3, <2>6
<1>6. n \in 0..n
  OBVIOUS
<1>7. n \in T
  BY <1>4, <1>5, <1>6, CountingUp
<1> QED
  BY <1>1, <1>2, <1>3, <1>7 DEF Short

Collapsing(f, s) ==
  /\ f[0] = <<>>
  /\ \A k \in 1..Len(s) :
       f[k] = IF s[k] = Space /\ f[k - 1] # <<>> /\ Last(f[k - 1]) = Space THEN f[k - 1]
              ELSE Append(f[k - 1], s[k])

LEMMA CollapseRuns ==
  ASSUME NEW A, NEW s \in Seq(A)
  PROVE  \E f : Collapsing(f, s) /\ Collapse(s) = f[Len(s)]
<1>1. PICK n \in Nat : n = Len(s) /\ DOMAIN s = 1..n
  OBVIOUS
<1>2. PICK V : V = Seq(A)
  OBVIOUS
<1> DEFINE Op(out, x) == IF s[x] = Space /\ out # <<>> /\ Last(out) = Space THEN out ELSE Append(out, s[x])
           Eq(f) == f = [t \in SUBSET (1..n) |-> IF t = {} THEN <<>> ELSE Op(f[t \ {Max(t)}], Max(t))]
           st == [p \in V \X (1..n) |-> Op(p[1], p[2])]
<1>3. Collapse(s) = (CHOOSE f : Eq(f))[1..n]
  BY <1>1 DEF Collapse, FoldLeft, MapThenFoldSet
<1>4. ASSUME NEW out \in V, NEW x \in 1..n
      PROVE  st[<<out, x>>] = Op(out, x) /\ Op(out, x) \in V
  <2>1. s[x] \in A
    BY <1>1
  <2>2. Op(out, x) \in V
    BY <1>2, <2>1
  <2>3. PICK p \in V \X (1..n) : p = <<out, x>>
    OBVIOUS
  <2>4. st[p] = Op(p[1], p[2]) /\ p[1] = out /\ p[2] = x
    BY <2>3
  <2> HIDE DEF Op, st
  <2> QED
    BY <2>2, <2>3, <2>4
<1>5. st \in [V \X (1..n) -> V]
  <2>1. \A p \in V \X (1..n) : Op(p[1], p[2]) \in V
    <3> HIDE DEF Op
    <3> QED
      BY <1>4
  <2> HIDE DEF Op
  <2> QED
    BY <2>1
<1>6. PICK f \in [SUBSET (1..n) -> V] : FoldsBy(f, n, <<>>, st)
  <2>1. <<>> \in V
    BY <1>2
  <2> HIDE DEF st
  <2> QED
    BY <1>5, <2>1, FoldExists
<1>7. Eq(f)
  <2>1. ASSUME NEW t \in SUBSET (1..n)
        PROVE  f[t] = IF t = {} THEN <<>> ELSE Op(f[t \ {Max(t)}], Max(t))
    <3>1. CASE t = {}
      BY <1>6, <3>1 DEF FoldsBy
    <3>2. CASE t # {}
      <4>1. PICK x \in 1..n : x = Max(t)
        BY <3>2, MaxOfPositions
      <4>2. PICK out \in V : out = f[t \ {x}]
        OBVIOUS
      <4>3. f[t] = st[<<out, x>>]
        BY <1>6, <3>2, <4>1, <4>2 DEF FoldsBy
      <4> HIDE DEF Op, st
      <4> QED
        BY <1>4, <3>2, <4>1, <4>2, <4>3
    <3> QED
      BY <3>1, <3>2
  <2> HIDE DEF Op
  <2> QED
    BY <2>1
<1>8. PICK h : h = CHOOSE e : Eq(e)
  OBVIOUS
<1>9. Eq(h)
  <2> HIDE DEF Eq
  <2> QED
    BY <1>7, <1>8
<1>10. PICK z : z = [k \in 0..n |-> h[1..k]]
  OBVIOUS
<1>11. z[0] = <<>>
  <2>1. 1..0 = {} /\ {} \in SUBSET (1..n)
    OBVIOUS
  <2>2. h[{}] = <<>>
    BY <1>9, <2>1
  <2> QED
    BY <1>10, <2>1, <2>2
<1>12. ASSUME NEW k \in 1..n
       PROVE  z[k] = Op(z[k - 1], k)
  <2>1. 1..k \in SUBSET (1..n) /\ k \in Nat /\ k > 0 /\ k - 1 \in 0..n /\ k \in 0..n
    OBVIOUS
  <2>2. h[1..k] = IF 1..k = {} THEN <<>> ELSE Op(h[(1..k) \ {Max(1..k)}], Max(1..k))
    <3> HIDE DEF Op
    <3> QED
      BY <1>9, <2>1
  <2>3. h[1..k] = Op(h[1..(k - 1)], k)
    <3> HIDE DEF Op
    <3> QED
      BY <2>1, <2>2, MaxInterval
  <2> HIDE DEF Op
  <2> QED
    BY <1>10, <2>1, <2>3
<1>13. Collapsing(z, s)
  BY <1>1, <1>11, <1>12 DEF Collapsing
<1>14. Collapse(s) = z[Len(s)]
  <2> HIDE DEF Eq
  <2> QED
    BY <1>1, <1>3, <1>8, <1>10
<1> QED
  BY <1>13, <1>14


LEMMA CollapseShortens ==
  ASSUME NEW A, NEW s \in Seq(A)
  PROVE  Collapse(s) \in Seq(A) /\ Len(Collapse(s)) <= Len(s)
<1>1. PICK n \in Nat : n = Len(s) /\ DOMAIN s = 1..n
  OBVIOUS
<1>2. PICK f : Collapsing(f, s) /\ Collapse(s) = f[n]
  BY <1>1, CollapseRuns
<1>3. PICK T : T = {k \in 0..n : Short(f[k], A, k)}
  OBVIOUS
<1>4. 0 \in T
  <2>1. f[0] = <<>> /\ <<>> \in Seq(A) /\ Len(<<>>) = 0 /\ 0 \in 0..n
    BY <1>1, <1>2 DEF Collapsing
  <2>2. Short(f[0], A, 0)
    BY <2>1 DEF Short
  <2> QED
    BY <1>3, <2>1, <2>2
<1>5. ASSUME NEW k \in 1..n, k - 1 \in T
      PROVE  k \in T
  <2>1. f[k] = f[k - 1] \/ f[k] = Append(f[k - 1], s[k])
    BY <1>1, <1>2 DEF Collapsing
  <2>2. PICK g \in Seq(A) : g = f[k - 1] /\ Len(g) <= k - 1
    BY <1>3, <1>5 DEF Short
  <2>3. s[k] \in A /\ k \in 0..n
    BY <1>1
  <2>4. Append(g, s[k]) \in Seq(A) /\ Len(Append(g, s[k])) = Len(g) + 1
    BY <2>3, AppendProperties
  <2>5. PICK l \in Nat : l = Len(g)
    OBVIOUS
  <2>6. Short(g, A, k) /\ Short(Append(g, s[k]), A, k)
    BY <2>2, <2>4, <2>5 DEF Short
  <2> QED
    BY <1>3, <2>1, <2>2, <2>3, <2>6
<1>6. n \in 0..n
  OBVIOUS
<1>7. n \in T
  BY <1>4, <1>5, <1>6, CountingUp
<1> QED
  BY <1>1, <1>2, <1>3, <1>7 DEF Short

\* The words found, and the one not ended yet.
NoWords == [done |-> <<>>, open |-> <<>>]
WordStates(A) == [done : Seq(Seq(A)), open : Seq(A)]
WordStep(acc, c) ==
  IF c # Space THEN [acc EXCEPT !.open = Append(@, c)]
  ELSE IF acc.open = <<>> THEN acc
  ELSE [done |-> Append(acc.done, acc.open), open |-> <<>>]
AllWords(acc) == IF acc.open = <<>> THEN acc.done ELSE Append(acc.done, acc.open)

\* A word takes a character, at least.
Fits(acc, k) == Len(acc.done) <= k /\ (acc.open # <<>> => Len(acc.done) + 1 <= k)

LEMMA WordStepType ==
  ASSUME NEW A, NEW acc \in WordStates(A), NEW c \in A
  PROVE  WordStep(acc, c) \in WordStates(A)
<1>1. PICK d \in Seq(Seq(A)), o \in Seq(A) : d = acc.done /\ o = acc.open /\ acc = [done |-> d, open |-> o]
  BY DEF WordStates
<1>2. Append(o, c) \in Seq(A) /\ Append(d, o) \in Seq(Seq(A)) /\ <<>> \in Seq(A)
  OBVIOUS
<1>3. CASE c # Space
  <2>1. WordStep(acc, c) = [done |-> d, open |-> Append(o, c)]
    BY <1>1, <1>3 DEF WordStep
  <2> QED
    BY <1>2, <2>1 DEF WordStates
<1>4. CASE c = Space /\ o = <<>>
  BY <1>1, <1>4 DEF WordStep
<1>5. CASE c = Space /\ o # <<>>
  <2>1. WordStep(acc, c) = [done |-> Append(d, o), open |-> <<>>]
    BY <1>1, <1>5 DEF WordStep
  <2> QED
    BY <1>2, <2>1 DEF WordStates
<1> QED
  BY <1>3, <1>4, <1>5

LEMMA WordStepFits ==
  ASSUME NEW A, NEW acc \in WordStates(A), NEW c \in A, NEW k \in Nat, Fits(acc, k)
  PROVE  Fits(WordStep(acc, c), k + 1)
<1>1. PICK d \in Seq(Seq(A)), o \in Seq(A) : d = acc.done /\ o = acc.open /\ acc = [done |-> d, open |-> o]
  BY DEF WordStates
<1>2. PICK l \in Nat : l = Len(d)
  OBVIOUS
<1>3. CASE c # Space
  <2>1. WordStep(acc, c) = [done |-> d, open |-> Append(o, c)]
    BY <1>1, <1>3 DEF WordStep
  <2>2. l <= k
    BY <1>1, <1>2 DEF Fits
  <2> QED
    BY <1>2, <2>1, <2>2 DEF Fits
<1>4. CASE c = Space /\ o = <<>>
  <2>1. WordStep(acc, c) = acc
    BY <1>1, <1>4 DEF WordStep
  <2>2. l <= k
    BY <1>1, <1>2, <1>4 DEF Fits
  <2> QED
    BY <1>1, <1>2, <1>4, <2>1, <2>2 DEF Fits
<1>5. CASE c = Space /\ o # <<>>
  <2>1. WordStep(acc, c) = [done |-> Append(d, o), open |-> <<>>]
    BY <1>1, <1>5 DEF WordStep
  <2>2. l + 1 <= k
    BY <1>1, <1>2, <1>5 DEF Fits
  <2>3. Len(Append(d, o)) = l + 1
    BY <1>2, AppendProperties
  <2> QED
    BY <2>1, <2>2, <2>3 DEF Fits
<1> QED
  BY <1>3, <1>4, <1>5

Wording(f, s) ==
  f[0] = NoWords /\ \A k \in 1..Len(s) : f[k] = WordStep(f[k - 1], s[k])

LEMMA WordsRun ==
  ASSUME NEW A, NEW s \in Seq(A)
  PROVE  \E f : Wording(f, s) /\ Words(s) = AllWords(f[Len(s)])
<1>1. PICK n \in Nat : n = Len(s) /\ DOMAIN s = 1..n
  OBVIOUS
<1>2. PICK V : V = WordStates(A)
  OBVIOUS
<1> DEFINE Op(out, x) == WordStep(out, s[x])
           Eq(f) == f = [t \in SUBSET (1..n) |-> IF t = {} THEN NoWords ELSE Op(f[t \ {Max(t)}], Max(t))]
           st == [p \in V \X (1..n) |-> Op(p[1], p[2])]
<1>3. Words(s) = AllWords((CHOOSE f : Eq(f))[1..n])
  BY <1>1 DEF Words, AllWords, WordStep, NoWords, FoldLeft, MapThenFoldSet
<1>4. ASSUME NEW out \in V, NEW x \in 1..n
      PROVE  st[<<out, x>>] = Op(out, x) /\ Op(out, x) \in V
  <2>1. s[x] \in A
    BY <1>1
  <2>2. Op(out, x) \in V
    BY <1>2, <2>1, WordStepType
  <2>3. PICK p \in V \X (1..n) : p = <<out, x>>
    OBVIOUS
  <2>4. st[p] = Op(p[1], p[2]) /\ p[1] = out /\ p[2] = x
    BY <2>3
  <2> HIDE DEF Op, st
  <2> QED
    BY <2>2, <2>3, <2>4
<1>5. st \in [V \X (1..n) -> V]
  <2>1. \A p \in V \X (1..n) : Op(p[1], p[2]) \in V
    <3> HIDE DEF Op
    <3> QED
      BY <1>4
  <2> HIDE DEF Op
  <2> QED
    BY <2>1
<1>6. PICK f \in [SUBSET (1..n) -> V] : FoldsBy(f, n, NoWords, st)
  <2>1. NoWords \in V
    BY <1>2 DEF WordStates, NoWords
  <2> HIDE DEF st
  <2> QED
    BY <1>5, <2>1, FoldExists
<1>7. Eq(f)
  <2>1. ASSUME NEW t \in SUBSET (1..n)
        PROVE  f[t] = IF t = {} THEN NoWords ELSE Op(f[t \ {Max(t)}], Max(t))
    <3>1. CASE t = {}
      BY <1>6, <3>1 DEF FoldsBy
    <3>2. CASE t # {}
      <4>1. PICK x \in 1..n : x = Max(t)
        BY <3>2, MaxOfPositions
      <4>2. PICK out \in V : out = f[t \ {x}]
        OBVIOUS
      <4>3. f[t] = st[<<out, x>>]
        BY <1>6, <3>2, <4>1, <4>2 DEF FoldsBy
      <4> HIDE DEF Op, st
      <4> QED
        BY <1>4, <3>2, <4>1, <4>2, <4>3
    <3> QED
      BY <3>1, <3>2
  <2> HIDE DEF Op
  <2> QED
    BY <2>1
<1>8. PICK h : h = CHOOSE e : Eq(e)
  OBVIOUS
<1>9. Eq(h)
  <2> HIDE DEF Eq
  <2> QED
    BY <1>7, <1>8
<1>10. PICK z : z = [k \in 0..n |-> h[1..k]]
  OBVIOUS
<1>11. z[0] = NoWords
  <2>1. 1..0 = {} /\ {} \in SUBSET (1..n)
    OBVIOUS
  <2>2. h[{}] = NoWords
    BY <1>9, <2>1
  <2> QED
    BY <1>10, <2>1, <2>2
<1>12. ASSUME NEW k \in 1..n
       PROVE  z[k] = Op(z[k - 1], k)
  <2>1. 1..k \in SUBSET (1..n) /\ k \in Nat /\ k > 0 /\ k - 1 \in 0..n /\ k \in 0..n
    OBVIOUS
  <2>2. h[1..k] = IF 1..k = {} THEN NoWords ELSE Op(h[(1..k) \ {Max(1..k)}], Max(1..k))
    <3> HIDE DEF Op
    <3> QED
      BY <1>9, <2>1
  <2>3. h[1..k] = Op(h[1..(k - 1)], k)
    <3> HIDE DEF Op
    <3> QED
      BY <2>1, <2>2, MaxInterval
  <2> HIDE DEF Op
  <2> QED
    BY <1>10, <2>1, <2>3
<1>13. Wording(z, s)
  BY <1>1, <1>11, <1>12 DEF Wording
<1>14. Words(s) = AllWords(z[Len(s)])
  <2> HIDE DEF Eq
  <2> QED
    BY <1>1, <1>3, <1>8, <1>10
<1> QED
  BY <1>13, <1>14


LEMMA WordsShorten ==
  ASSUME NEW A, NEW s \in Seq(A)
  PROVE  Words(s) \in Seq(Seq(A)) /\ Len(Words(s)) <= Len(s)
<1>1. PICK n \in Nat : n = Len(s) /\ DOMAIN s = 1..n
  OBVIOUS
<1>2. PICK f : Wording(f, s) /\ Words(s) = AllWords(f[n])
  BY <1>1, WordsRun
<1>3. PICK T : T = {k \in 0..n : f[k] \in WordStates(A) /\ Fits(f[k], k)}
  OBVIOUS
<1>4. 0 \in T
  <2>1. f[0] = NoWords /\ 0 \in 0..n
    BY <1>1, <1>2 DEF Wording
  <2>2. NoWords \in WordStates(A) /\ Fits(NoWords, 0)
    <3>1. <<>> \in Seq(Seq(A)) /\ <<>> \in Seq(A) /\ Len(<<>>) = 0
      OBVIOUS
    <3> QED
      BY <3>1 DEF NoWords, WordStates, Fits
  <2> QED
    BY <1>3, <2>1, <2>2
<1>5. ASSUME NEW k \in 1..n, k - 1 \in T
      PROVE  k \in T
  <2>1. f[k] = WordStep(f[k - 1], s[k])
    BY <1>1, <1>2 DEF Wording
  <2>2. PICK l \in Nat : l = k - 1 /\ k = l + 1
    OBVIOUS
  <2>3. PICK acc \in WordStates(A) : acc = f[l] /\ Fits(acc, l)
    BY <1>3, <1>5, <2>2
  <2>4. s[k] \in A /\ k \in 0..n
    BY <1>1
  <2>5. WordStep(acc, s[k]) \in WordStates(A)
    BY <2>4, WordStepType
  <2>6. Fits(WordStep(acc, s[k]), l + 1)
    BY <2>3, <2>4, WordStepFits
  <2> QED
    BY <1>3, <2>1, <2>2, <2>3, <2>4, <2>5, <2>6
<1>6. n \in 0..n
  OBVIOUS
<1>7. n \in T
  BY <1>4, <1>5, <1>6, CountingUp
<1>8. PICK acc \in WordStates(A) : acc = f[n] /\ Fits(acc, n)
  BY <1>3, <1>7
<1>9. PICK d \in Seq(Seq(A)), o \in Seq(A) : d = acc.done /\ o = acc.open
  BY DEF WordStates
<1>10. Append(d, o) \in Seq(Seq(A)) /\ Len(Append(d, o)) = Len(d) + 1 /\ Len(d) \in Nat
  BY AppendProperties
<1>11. AllWords(acc) \in Seq(Seq(A)) /\ Len(AllWords(acc)) <= n
  BY <1>8, <1>9, <1>10 DEF AllWords, Fits
<1> QED
  BY <1>1, <1>2, <1>8, <1>11

\* The characters of the files, and what they are folded to.
Letters == DOMAIN Fold \cup {Fold[c] : c \in DOMAIN Fold}

LEMMA MinOfPositions ==
  ASSUME NEW n \in Nat, NEW t \in SUBSET (1..n), t # {}
  PROVE  Min(t) \in t
<1>1. PICK f : f = [k \in 1..n |-> 0 - k]
  OBVIOUS
<1>2. \A k \in t : f[k] \in Int /\ f[k] = 0 - k
  BY <1>1
<1>3. PICK k \in t : \A l \in t : f[l] <= f[k]
  BY <1>2, SomeGreatest
<1>4. t \in SUBSET Int
  OBVIOUS
<1>5. \A l \in t : k <= l
  <2>1. ASSUME NEW l \in t
        PROVE  k <= l
    BY <1>2, <1>3
  <2> QED
    BY <2>1
<1>6. Min(t) = k
  BY <1>4, <1>5, MinIs
<1> QED
  BY <1>6

LEMMA TrimShortens ==
  ASSUME NEW A, NEW s \in Seq(A)
  PROVE  Short(Trim(s), A, Len(s))
<1>1. PICK n \in Nat : n = Len(s) /\ DOMAIN s = 1..n
  OBVIOUS
<1>2. PICK W : W = {i \in 1..n : s[i] # Space}
  OBVIOUS
<1>3. Trim(s) = IF W = {} THEN <<>> ELSE SubSeq(s, Min(W), Max(W))
  BY <1>1, <1>2 DEF Trim
<1>4. CASE W = {}
  <2>1. <<>> \in Seq(A) /\ Len(<<>>) = 0 /\ 0 <= n
    OBVIOUS
  <2> QED
    BY <1>1, <1>3, <1>4, <2>1 DEF Short
<1>5. CASE W # {}
  <2>1. PICK u : u = Max(W)
    OBVIOUS
  <2>2. u \in W
    BY <1>2, <1>5, <2>1, MaxOfPositions
  <2>3. PICK v : v \in W /\ v = Min(W)
    BY <1>2, <1>5, MinOfPositions
  <2>4. u \in 1..n /\ v \in 1..n
    BY <1>2, <2>2, <2>3
  <2>5. SubSeq(s, v, u) \in Seq(A) /\ Len(SubSeq(s, v, u)) = IF v <= u THEN u - v + 1 ELSE 0
    BY <1>1, <2>4, SubSeqProperties
  <2>6. Len(SubSeq(s, v, u)) <= n
    BY <2>4, <2>5
  <2> QED
    BY <1>1, <1>3, <1>5, <2>1, <2>3, <2>5, <2>6 DEF Short
<1> QED
  BY <1>4, <1>5

LEMMA ShortOfShort ==
  ASSUME NEW A, NEW k \in Nat, NEW s, Short(s, A, k), NEW t, Short(t, A, Len(s))
  PROVE  Short(t, A, k)
<1>1. Len(s) \in Nat /\ Len(t) \in Nat /\ Len(s) <= k /\ Len(t) <= Len(s)
  BY DEF Short
<1> QED
  BY <1>1 DEF Short

LEMMA NormalizeShortens ==
  ASSUME NEW k \in Nat, NEW raw, Short(raw, DOMAIN Fold, k), NEW options
  PROVE  Short(Normalize(raw, options), Letters, k)
<1>1. PICK n \in Nat : n = Len(raw) /\ DOMAIN raw = 1..n /\ n <= k
  BY DEF Short
<1>2. PICK A : A = Letters
  OBVIOUS
<1>3. \A i \in 1..n : raw[i] \in DOMAIN Fold
  BY <1>1 DEF Short
<1>4. PICK folded : folded = IF options.fold THEN [i \in DOMAIN raw |-> Fold[raw[i]]] ELSE raw
  OBVIOUS
<1>5. Short(folded, A, k)
  <2>1. PICK f : f = [i \in 1..n |-> Fold[raw[i]]]
    OBVIOUS
  <2>2. \A i \in 1..n : Fold[raw[i]] \in A /\ raw[i] \in A
    BY <1>2, <1>3 DEF Letters
  <2>3. f \in Seq(A) /\ Len(f) = n
    BY <2>1, <2>2
  <2>4. raw \in Seq(A)
    BY <1>1, <2>2 DEF Short
  <2>5. folded = f \/ folded = raw
    BY <1>1, <1>4, <2>1
  <2> QED
    BY <1>1, <2>3, <2>4, <2>5 DEF Short
<1>6. PICK words : words = IF options.dropPunctuation
                           THEN Select(folded, ToSet(folded) \ Punctuation) ELSE folded
  OBVIOUS
<1>7. Short(words, A, k)
  <2>1. PICK t : t = Select(folded, ToSet(folded) \ Punctuation)
    OBVIOUS
  <2>2. Short(t, A, Len(folded))
    BY <1>5, <2>1, SelectShortens DEF Short
  <2>3. Short(t, A, k)
    BY <1>5, <2>2, ShortOfShort
  <2> QED
    BY <1>5, <1>6, <2>1, <2>3
<1>8. PICK spaced : spaced = IF options.collapse THEN Collapse(words) ELSE words
  OBVIOUS
<1>9. Short(spaced, A, k)
  <2>1. PICK t : t = Collapse(words)
    OBVIOUS
  <2>2. Short(t, A, Len(words))
    BY <1>7, <2>1, CollapseShortens DEF Short
  <2>3. Short(t, A, k)
    BY <1>7, <2>2, ShortOfShort
  <2> QED
    BY <1>7, <1>8, <2>1, <2>3
<1>10. Short(Trim(spaced), A, k)
  <2>1. Short(Trim(spaced), A, Len(spaced))
    BY <1>9, TrimShortens DEF Short
  <2> QED
    BY <1>9, <2>1, ShortOfShort
<1>11. Normalize(raw, options) = IF options.trim THEN Trim(spaced) ELSE spaced
  BY <1>4, <1>6, <1>8 DEF Normalize
<1> QED
  BY <1>2, <1>9, <1>10, <1>11

LEMMA WordsAreShort ==
  ASSUME NEW A, NEW k \in Nat, NEW s, Short(s, A, k)
  PROVE  Short(Words(s), Seq(A), k)
<1>1. Words(s) \in Seq(Seq(A)) /\ Len(Words(s)) <= Len(s)
  BY WordsShorten DEF Short
<1>2. Len(s) \in Nat /\ Len(Words(s)) \in Nat /\ Len(s) <= k
  BY <1>1 DEF Short
<1> QED
  BY <1>1, <1>2 DEF Short

-----------------------------------------------------------------------------
(* One row.                                                                *)

Raw(text) == Short(text, DOMAIN Fold, Longest)
Fitting(s, A) == s \in Seq(A) /\ Len(s) \in 0..Longest

LEMMA ShortFits ==
  ASSUME NEW s, NEW A, Short(s, A, Longest)
  PROVE  Fitting(s, A)
<1>1. Len(s) \in Nat /\ Longest \in Nat
  BY ComparedAssumption DEF Short
<1> QED
  BY <1>1 DEF Short, Fitting

BothFit(u, v, D) == Fitting(u, D) /\ Fitting(v, D)

\* What a metric counts of two texts is over one alphabet.
LEMMA UnitsFit ==
  ASSUME NEW r, Raw(r), NEW a, Raw(a), NEW options
  PROVE  \E D : BothFit(Units(r, options), Units(a, options), D)
<1>1. Longest \in Nat
  BY ComparedAssumption
<1>2. Short(Normalize(r, options), Letters, Longest) /\ Short(Normalize(a, options), Letters, Longest)
  BY <1>1, NormalizeShortens DEF Raw
<1>3. /\ Short(Words(Normalize(r, options)), Seq(Letters), Longest)
      /\ Short(Words(Normalize(a, options)), Seq(Letters), Longest)
  BY <1>1, <1>2, WordsAreShort
<1>4. CASE options.metric = "exact"
  <2>1. Units(r, options) = r /\ Units(a, options) = a
    BY <1>4 DEF Units
  <2>2. BothFit(r, a, DOMAIN Fold)
    BY ShortFits DEF BothFit, Raw
  <2> QED
    BY <2>1, <2>2
<1>5. CASE options.metric = "wer"
  <2>1. Units(r, options) = Words(Normalize(r, options)) /\ Units(a, options) = Words(Normalize(a, options))
    BY <1>5 DEF Units
  <2>2. BothFit(Words(Normalize(r, options)), Words(Normalize(a, options)), Seq(Letters))
    BY <1>3, ShortFits DEF BothFit
  <2> QED
    BY <2>1, <2>2
<1>6. CASE options.metric # "exact" /\ options.metric # "wer"
  <2>1. Units(r, options) = Normalize(r, options) /\ Units(a, options) = Normalize(a, options)
    BY <1>6 DEF Units
  <2>2. BothFit(Normalize(r, options), Normalize(a, options), Letters)
    BY <1>2, ShortFits DEF BothFit
  <2> QED
    BY <2>1, <2>2
<1> QED
  BY <1>4, <1>5, <1>6

\* The parts of a row's soundness.
DiffGood(diff, r, a) ==
  /\ Characters(diff.reference) = r /\ Characters(diff.actual) = a
  /\ Kept(diff.reference) = Kept(diff.actual)
  /\ Len(Kept(diff.reference)) = CommonLength(r, a)
EditsGood(counts, u, v) ==
  /\ counts.s + counts.d + counts.i = EditDistance(u, v)
  /\ counts.i - counts.d = Len(v) - Len(u)

LEMMA DiffIsGood ==
  ASSUME NEW A, NEW r, NEW a, BothFit(r, a, A)
  PROVE  DiffGood(Diff(r, a), r, a)
<1>1. r \in Seq(A) /\ a \in Seq(A) /\ Len(r) \in 0..Longest /\ Len(a) \in 0..Longest
  BY DEF BothFit, Fitting
<1>2. PICK diff : diff = Diff(r, a)
  OBVIOUS
<1>3. /\ Characters(Diff(r, a).reference) = r
      /\ Characters(Diff(r, a).actual) = a
      /\ Kept(Diff(r, a).reference) = Kept(Diff(r, a).actual)
      /\ Len(Kept(Diff(r, a).reference)) = CommonCount(r, a)
  BY <1>1, DiffIsSound
<1>4. CommonLength(r, a) = CommonCount(r, a)
  BY <1>1, CommonLengthIs
<1> QED
  BY <1>3, <1>4 DEF DiffGood

LEMMA EditsAreGood ==
  ASSUME NEW A, NEW u, NEW v, BothFit(u, v, A), NEW e, e = UnitEdits(u, v)
  PROVE  EditsGood(e, u, v) /\ (RateAtMost(e, Len(u), 0) <=> u = v)
<1>1. u \in Seq(A) /\ v \in Seq(A) /\ Len(u) \in 0..Longest /\ Len(v) \in 0..Longest
  BY DEF BothFit, Fitting
<1>2. Fewest(e, u, v)
  BY <1>1, EditsAreFewest
<1>3. PICK n \in Nat : n = e.s + e.d + e.i /\ (n = 0 <=> u = v)
  BY <1>2 DEF Fewest, Edits
<1>4. PICK l \in Nat, full \in Nat : l = Len(u) /\ full = Percent(100) /\ full > 0
  <2>1. Scale \in Nat /\ Scale > 0
    BY CompareAlgorithmsAssumption
  <2>2. Percent(100) \in Nat /\ Percent(100) > 0
    BY <2>1 DEF Percent
  <2> QED
    BY <1>1, <2>2
<1>5. RateAtMost(e, l, 0) <=> IF l = 0 THEN n = 0 ELSE full * n <= 0 * l
  BY <1>3, <1>4 DEF RateAtMost
<1>6. 0 * l = 0 /\ (full * n <= 0 <=> n = 0)
  BY <1>4
<1>7. RateAtMost(e, Len(u), 0) <=> u = v
  BY <1>3, <1>4, <1>5, <1>6
<1> QED
  BY <1>2, <1>7 DEF Fewest, EditsGood

OkFor(r, a, u, v, counts, options) ==
  CASE options.metric = "indel" -> Ratio(u, v) >= options.pass
    [] options.metric = "exact" -> r = a
    [] OTHER -> RateAtMost(counts, Len(u), options.maxError)

\* What the exact metric compares, and the edits that the others count.
Counted(r, a, u, v, counts, options) ==
  /\ options.metric = "exact" => u = r /\ v = a
  /\ options.metric # "indel" => counts = UnitEdits(u, v)
NoTolerance(options) == options.maxError = 0 /\ options.pass = Percent(100)

LEMMA OkIsGood ==
  ASSUME NEW r, NEW a, NEW A, NEW u, NEW v, BothFit(u, v, A), NEW options, NoTolerance(options),
         NEW counts, Counted(r, a, u, v, counts, options)
  PROVE  OkFor(r, a, u, v, counts, options) <=> u = v
<1>1. CASE options.metric = "indel"
  <2>1. u \in Seq(A) /\ v \in Seq(A)
    BY DEF BothFit, Fitting
  <2>2. Ratio(u, v) >= Percent(100) <=> u = v
    BY <2>1, RatioIsFull
  <2>3. OkFor(r, a, u, v, counts, options) <=> Ratio(u, v) >= options.pass
    BY <1>1 DEF OkFor
  <2> QED
    BY <2>2, <2>3 DEF NoTolerance
<1>2. CASE options.metric = "exact"
  BY <1>2 DEF OkFor, Counted
<1>3. CASE options.metric # "indel" /\ options.metric # "exact"
  <2>1. OkFor(r, a, u, v, counts, options) <=> RateAtMost(counts, Len(u), options.maxError)
    BY <1>3 DEF OkFor
  <2>2. RateAtMost(counts, Len(u), 0) <=> u = v
    BY <1>3, EditsAreGood DEF Counted
  <2> QED
    BY <2>1, <2>2 DEF NoTolerance
<1> QED
  BY <1>1, <1>2, <1>3

RowGood(row, r, a, u, v, options) ==
  /\ DiffGood(row.diff, r, a)
  /\ options.metric # "indel" => EditsGood(row.edits, u, v)
  /\ row.status \in {"OK", "NG"} /\ options.maxError = 0 /\ options.pass = Percent(100) =>
       (row.status = "OK" <=> u = v)

LEMMA RowIsGood ==
  ASSUME NEW pair, NEW r, Raw(r), NEW a, Raw(a), NEW options, NEW u, u = Units(r, options),
         NEW v, v = Units(a, options), NEW row, row = CompareTexts(pair, r, a, u, v, options)
  PROVE  RowGood(row, r, a, u, v, options) /\ row.pair = pair
<1>1. PICK counts : counts = IF options.metric = "indel" THEN NoEdits ELSE UnitEdits(u, v)
  OBVIOUS
<1>2. PICK ok : ok = OkFor(r, a, u, v, counts, options)
  OBVIOUS
<1>3. row = [pair |-> pair, edits |-> counts, diff |-> Diff(r, a),
             status |-> IF pair.reference = 0 THEN "EXTRA"
                        ELSE IF pair.actual = 0 THEN "MISSING" ELSE IF ok THEN "OK" ELSE "NG"]
  BY <1>1, <1>2 DEF CompareTexts, Row, OkFor
<1>4. PICK D : BothFit(u, v, D)
  BY UnitsFit
<1>5. DiffGood(row.diff, r, a)
  <2>1. BothFit(r, a, DOMAIN Fold)
    BY ShortFits DEF BothFit, Raw
  <2>2. row.diff = Diff(r, a)
    BY <1>3
  <2> QED
    BY <2>1, <2>2, DiffIsGood
<1>6. ASSUME options.metric # "indel"
      PROVE  EditsGood(row.edits, u, v)
  <2>1. row.edits = counts /\ counts = UnitEdits(u, v)
    BY <1>1, <1>3, <1>6
  <2> QED
    BY <1>4, <2>1, EditsAreGood
<1>7. ASSUME row.status \in {"OK", "NG"}, options.maxError = 0, options.pass = Percent(100)
      PROVE  row.status = "OK" <=> u = v
  <2>1. row.status = "OK" <=> ok
    BY <1>3, <1>7
  <2>2. Counted(r, a, u, v, counts, options) /\ NoTolerance(options)
    BY <1>1, <1>7 DEF Units, Counted, NoTolerance
  <2>3. OkFor(r, a, u, v, counts, options) <=> u = v
    BY <1>4, <2>2, OkIsGood
  <2> QED
    BY <1>2, <2>1, <2>3
<1>8. row.pair = pair
  BY <1>3
<1> QED
  BY <1>5, <1>6, <1>7, <1>8 DEF RowGood

-----------------------------------------------------------------------------
(* A whole comparison.                                                     *)

TextAt(lines, i) == IF i = 0 THEN <<>> ELSE lines[i]
NormalizedTexts(lines, options) == [i \in DOMAIN lines |-> Normalize(lines[i], options)]

LEMMA ImportedRecords ==
  ASSUME NEW text \in Texts, NEW options
  PROVE  Records(Import(text, options), DOMAIN Fold)
<1>1. PICK A : A = {t \in Seq(DOMAIN Fold) : Len(t) \in 0..Longest}
  OBVIOUS
<1>2. /\ Longest \in Nat /\ text \in Seq(Seq(DOMAIN Fold)) /\ Len(text) <= Longest
      /\ \A k \in DOMAIN text : Len(text[k]) <= Longest
  BY ComparedAssumption
<1>3. PICK n \in Nat : n = Len(text) /\ DOMAIN text = 1..n /\ n <= Longest
  BY <1>2
<1>4. ASSUME NEW k \in 1..n
      PROVE  text[k] \in A
  <2>1. PICK t \in Seq(DOMAIN Fold) : t = text[k]
    BY <1>2, <1>3
  <2>2. Len(t) \in Nat /\ Len(t) <= Longest
    BY SMTT(30), <1>2, <1>3, <2>1
  <2> QED
    BY <1>1, <1>2, <2>1, <2>2
<1>5. Short(text, A, Longest)
  BY <1>2, <1>3, <1>4 DEF Short
<1>6. PICK kept : kept = Select(text, {t \in ToSet(text) : ~Blank(t)})
  OBVIOUS
<1>7. Short(kept, A, Longest)
  <2>1. Short(kept, A, Len(text))
    BY <1>5, <1>6, SelectShortens DEF Short
  <2> QED
    BY <1>2, <1>5, <2>1, ShortOfShort
<1>8. PICK s : s = Import(text, options)
  OBVIOUS
<1>9. s = kept \/ s = text
  BY <1>6, <1>8 DEF Import
<1>10. Short(s, A, Longest)
  BY <1>5, <1>7, <1>9
<1>11. PICK l \in Nat : l = Len(s) /\ DOMAIN s = 1..l /\ l <= Longest
  BY <1>10 DEF Short
<1>12. ASSUME NEW k \in 1..l
       PROVE  s[k] \in Seq(DOMAIN Fold) /\ Len(s[k]) \in 0..Longest
  <2>1. s[k] \in A
    BY <1>10, <1>11 DEF Short
  <2> QED
    BY <1>1, <2>1
<1>13. s \in Seq(Seq(DOMAIN Fold))
  <2>1. s = [k \in 1..l |-> s[k]]
    BY <1>10, <1>11 DEF Short
  <2> QED
    BY <1>12, <2>1
<1> QED
  BY <1>2, <1>8, <1>11, <1>12, <1>13 DEF Records

LEMMA NormalizedRecords ==
  ASSUME NEW lines, Records(lines, DOMAIN Fold), NEW options
  PROVE  Records(NormalizedTexts(lines, options), Letters) /\ Len(NormalizedTexts(lines, options)) = Len(lines)
<1>1. PICK n \in Nat : n = Len(lines) /\ DOMAIN lines = 1..n /\ n \in 0..Longest
  BY DEF Records
<1>2. Longest \in Nat
  BY ComparedAssumption
<1>3. PICK s : s = NormalizedTexts(lines, options)
  OBVIOUS
<1>4. s = [k \in 1..n |-> Normalize(lines[k], options)]
  BY <1>1, <1>3 DEF NormalizedTexts
<1>5. ASSUME NEW k \in 1..n
      PROVE  s[k] \in Seq(Letters) /\ Len(s[k]) \in 0..Longest
  <2>1. Short(lines[k], DOMAIN Fold, Longest)
    BY <1>1, <1>2 DEF Records, Short
  <2>2. Short(Normalize(lines[k], options), Letters, Longest)
    BY <1>2, <2>1, NormalizeShortens
  <2>3. s[k] = Normalize(lines[k], options)
    BY <1>4
  <2>4. Fitting(s[k], Letters)
    BY <2>2, <2>3, ShortFits
  <2> QED
    BY <2>4 DEF Fitting
<1>6. s \in Seq(Seq(Letters)) /\ Len(s) = n
  <2>1. s = [k \in 1..n |-> s[k]]
    BY <1>4
  <2> QED
    BY <1>5, <2>1
<1> QED
  BY <1>1, <1>3, <1>5, <1>6 DEF Records

\* The row of one pair.
ReportRow(pair, reference, actual, options) ==
  CompareTexts(pair, TextAt(reference, pair.reference), TextAt(actual, pair.actual),
               Units(TextAt(reference, pair.reference), options),
               Units(TextAt(actual, pair.actual), options), options)
RowsOf(path, reference, actual, options) == [k \in DOMAIN path |-> ReportRow(path[k], reference, actual, options)]

LEMMA CompareIs ==
  ASSUME NEW reference, NEW actual, NEW options
  PROVE  Compare(reference, actual, options)
           = IF options.pairing = "sequence"
             THEN RowsOf(Align(NormalizedTexts(reference, options), NormalizedTexts(actual, options), options),
                         reference, actual, options)
             ELSE RowsOf(AlignRows(reference, actual), reference, actual, options)
BY DEF Compare, RowsOf, ReportRow, TextAt, NormalizedTexts

LEMMA ReportRowIsSound ==
  ASSUME NEW n \in Nat, NEW m \in Nat, NEW reference, Records(reference, DOMAIN Fold), n = Len(reference),
         NEW actual, Records(actual, DOMAIN Fold), m = Len(actual), NEW options,
         NEW pair, pair.reference \in 0..n, pair.actual \in 0..m,
         NEW row, row = ReportRow(pair, reference, actual, options)
  PROVE  RowIsSound(row, reference, actual, options) /\ row.pair = pair
<1>1. PICK r, a : r = TextAt(reference, pair.reference) /\ a = TextAt(actual, pair.actual)
  OBVIOUS
<1>2. PICK u, v : u = Units(r, options) /\ v = Units(a, options)
  OBVIOUS
<1>3. Longest \in Nat
  BY ComparedAssumption
<1>4. Raw(<<>>)
  BY <1>3 DEF Raw, Short
<1>5. Raw(r)
  <2>1. CASE pair.reference = 0
    BY <1>1, <1>4, <2>1 DEF TextAt
  <2>2. CASE pair.reference # 0
    <3>1. pair.reference \in 1..n /\ r = reference[pair.reference]
      BY <1>1, <2>2 DEF TextAt
    <3> QED
      BY <1>3, <3>1 DEF Records, Raw, Short
  <2> QED
    BY <2>1, <2>2
<1>6. Raw(a)
  <2>1. CASE pair.actual = 0
    BY <1>1, <1>4, <2>1 DEF TextAt
  <2>2. CASE pair.actual # 0
    <3>1. pair.actual \in 1..m /\ a = actual[pair.actual]
      BY <1>1, <2>2 DEF TextAt
    <3> QED
      BY <1>3, <3>1 DEF Records, Raw, Short
  <2> QED
    BY <2>1, <2>2
<1>7. row = CompareTexts(pair, r, a, u, v, options)
  BY <1>1, <1>2 DEF ReportRow
<1>8. RowGood(row, r, a, u, v, options) /\ row.pair = pair
  BY <1>2, <1>5, <1>6, <1>7, RowIsGood
<1>9. /\ r = IF row.pair.reference = 0 THEN <<>> ELSE reference[row.pair.reference]
      /\ a = IF row.pair.actual = 0 THEN <<>> ELSE actual[row.pair.actual]
  BY <1>1, <1>8 DEF TextAt
<1> QED
  BY <1>2, <1>8, <1>9 DEF RowIsSound, RowGood, DiffGood, EditsGood

\* The rows of a path.
RowsGood(rows, path, reference, actual, options) ==
  /\ RowsFor(rows, path)
  /\ \A k \in DOMAIN rows : RowIsSound(rows[k], reference, actual, options)

LEMMA RowsOfAreGood ==
  ASSUME NEW n \in Nat, NEW m \in Nat, NEW reference, Records(reference, DOMAIN Fold), n = Len(reference),
         NEW actual, Records(actual, DOMAIN Fold), m = Len(actual), NEW options,
         NEW path, Walks(path, 0, n, 0, m)
  PROVE  RowsGood(RowsOf(path, reference, actual, options), path, reference, actual, options)
<1>1. path \in Seq(RowPairs) /\ Runs(Refs(path), 0, n) /\ Runs(Acts(path), 0, m)
  BY DEF Walks
<1>2. PICK l \in Nat : l = Len(path) /\ DOMAIN path = 1..l
  BY <1>1
<1>3. PICK rows : rows = RowsOf(path, reference, actual, options)
  OBVIOUS
<1>4. DOMAIN rows = 1..l /\ \A k \in 1..l : rows[k] = ReportRow(path[k], reference, actual, options)
  BY <1>2, <1>3 DEF RowsOf
<1>5. ASSUME NEW k \in 1..l
      PROVE  RowIsSound(rows[k], reference, actual, options) /\ rows[k].pair = path[k]
  <2>1. /\ Refs(path)[k] = path[k].reference /\ path[k].reference \in Nat /\ Len(Refs(path)) = l
        /\ Acts(path)[k] = path[k].actual /\ path[k].actual \in Nat /\ Len(Acts(path)) = l
    BY <1>1, <1>2, SidesAre
  <2>2. Refs(path)[k] # 0 => Refs(path)[k] \in (0 + 1)..n
    BY <1>1, <2>1 DEF Runs
  <2>3. Acts(path)[k] # 0 => Acts(path)[k] \in (0 + 1)..m
    BY <1>1, <2>1 DEF Runs
  <2>4. PICK i \in Nat, j \in Nat : i = path[k].reference /\ j = path[k].actual
    BY <2>1
  <2>5. i \in 0..n /\ j \in 0..m
    BY <2>1, <2>2, <2>3, <2>4
  <2>6. PICK pair : pair = path[k]
    OBVIOUS
  <2>7. pair.reference \in 0..n /\ pair.actual \in 0..m
    BY <2>4, <2>5, <2>6
  <2> QED
    BY <1>4, <2>6, <2>7, ReportRowIsSound
<1> QED
  BY <1>2, <1>3, <1>4, <1>5 DEF RowsGood, RowsFor

\* The rows of a sound path.
PairedWell(rows, reference, actual, options) ==
  options.pairing = "sequence" =>
    Optimal(Paired(rows), NormalizedTexts(reference, options), NormalizedTexts(actual, options), options)

LEMMA RowsAreSoundIs ==
  ASSUME NEW reference, NEW actual, NEW options, NEW rows, NEW path,
         RowsGood(rows, path, reference, actual, options),
         Numbered(rows, reference, actual), PairedWell(rows, reference, actual, options)
  PROVE  RowsAreSound(rows, reference, actual, options)
BY DEF RowsAreSound, RowsGood, Numbered, PairedWell, Paired, NormalizedTexts

LEMMA PathIsSound ==
  ASSUME NEW n \in Nat, NEW m \in Nat, NEW reference, Records(reference, DOMAIN Fold), n = Len(reference),
         NEW actual, Records(actual, DOMAIN Fold), m = Len(actual), NEW options,
         NEW path, Walks(path, 0, n, 0, m), NEW rows, rows = RowsOf(path, reference, actual, options)
  PROVE  /\ RowsGood(rows, path, reference, actual, options) /\ Numbered(rows, reference, actual)
         /\ Paired(rows) = Matches(path)
<1>1. RowsGood(rows, path, reference, actual, options)
  BY RowsOfAreGood
<1>2. RowsFor(rows, path) /\ path \in Seq(RowPairs)
  BY <1>1 DEF RowsGood, Walks
<1>3. DOMAIN reference = 1..n /\ DOMAIN actual = 1..m
  BY DEF Records
<1> QED
  BY <1>1, <1>2, <1>3, RowsNumbered, PairedAre

LEMMA ComparisonIsSound ==
  ASSUME NEW reference, Records(reference, DOMAIN Fold), NEW actual, Records(actual, DOMAIN Fold),
         NEW options \in OptionChoices
  PROVE  RowsAreSound(Compare(reference, actual, options), reference, actual, options)
<1>1. PICK n \in Nat, m \in Nat : n = Len(reference) /\ m = Len(actual)
  BY DEF Records
<1>2. PICK refs, acts : refs = NormalizedTexts(reference, options) /\ acts = NormalizedTexts(actual, options)
  OBVIOUS
<1>3. Records(refs, Letters) /\ Records(acts, Letters) /\ Len(refs) = n /\ Len(acts) = m
  BY <1>1, <1>2, NormalizedRecords
<1>4. Limits(options)
  BY ComparedAssumption DEF Limits
<1>5. CASE options.pairing = "sequence"
  <2>1. PICK path : path = Align(refs, acts, options)
    OBVIOUS
  <2>2. PICK rows : rows = RowsOf(path, reference, actual, options)
    OBVIOUS
  <2>3. Compare(reference, actual, options) = rows
    BY <1>2, <1>5, <2>1, <2>2, CompareIs
  <2>4. AlignsWell(path, refs, acts, options)
    BY <1>3, <1>4, <2>1, AlignIs
  <2>5. Walks(path, 0, n, 0, m) /\ Optimal(Matches(path), refs, acts, options)
    BY <1>3, <2>4 DEF AlignsWell
  <2>6. /\ RowsGood(rows, path, reference, actual, options) /\ Numbered(rows, reference, actual)
        /\ Paired(rows) = Matches(path)
    BY <1>1, <2>2, <2>5, PathIsSound
  <2>7. PairedWell(rows, reference, actual, options)
    BY <1>2, <2>5, <2>6 DEF PairedWell
  <2> QED
    BY <2>3, <2>6, <2>7, RowsAreSoundIs
<1>6. CASE options.pairing # "sequence"
  <2>1. PICK path : path = AlignRows(reference, actual)
    OBVIOUS
  <2>2. PICK rows : rows = RowsOf(path, reference, actual, options)
    OBVIOUS
  <2>3. Compare(reference, actual, options) = rows
    BY <1>6, <2>1, <2>2, CompareIs
  <2>4. Walks(path, 0, n, 0, m)
    BY <1>1, <2>1, AlignRowsIs
  <2>5. RowsGood(rows, path, reference, actual, options) /\ Numbered(rows, reference, actual)
    BY <1>1, <2>2, <2>4, PathIsSound
  <2>6. PairedWell(rows, reference, actual, options)
    BY <1>6 DEF PairedWell
  <2> QED
    BY <2>3, <2>5, <2>6, RowsAreSoundIs
<1> QED
  BY <1>5, <1>6

\* CompareService::Compare: what is read of two files with any of the options
\* is compared soundly.
THEOREM EveryComparisonIsSound == SoundComparisons = Inputs
<1>1. ASSUME NEW c \in Inputs
      PROVE  c \in SoundComparisons
  <2>1. PICK f \in Texts, g \in Texts, options \in OptionChoices : c = <<f, g, options>>
    BY DEF Inputs
  <2>2. c[1] = f /\ c[2] = g /\ c[3] = options
    BY <2>1
  <2>3. PICK reference, actual : reference = Import(f, options) /\ actual = Import(g, options)
    OBVIOUS
  <2>4. Records(reference, DOMAIN Fold) /\ Records(actual, DOMAIN Fold)
    BY <2>3, ImportedRecords
  <2>5. RowsAreSound(Compare(reference, actual, options), reference, actual, options)
    BY <2>4, ComparisonIsSound
  <2> QED
    BY <2>2, <2>3, <2>5 DEF SoundComparisons
<1> QED
  BY <1>1 DEF SoundComparisons

-----------------------------------------------------------------------------
(* The panel and its job.                                                  *)

Labels == {d.label : d \in Drafts} \cup Paths \cup {""}
GroupInputs == [label : Labels, reference : Paths, actual : Paths]
CompleteInputs == {d \in GroupInputs : Complete(d)}
Groups == [id : Nat, input : CompleteInputs]
Options == OptionChoices \cup {Invalid}
Held2 == Texts \X Texts
Reports == [group : CompleteInputs, options : Options, hash : Held2, read : Held2]
Stages == {"hash", "read", "rehash", "post"}

\* A task of OnCompare, at each of its stages.
ComparisonTasks ==
  [at : Stages, groups : Seq(CompleteInputs), options : Options, revision : Nat,
   hash : Held2 \cup {Nothing}, read : Held2 \cup {Nothing}, reports : Seq(Reports)]

Comparing == job # Nothing /\ job.at \in Stages /\ ~closing

TypeInv ==
  /\ files \in [Files -> Texts]
  /\ controls \in Options /\ valid \in BOOLEAN
  /\ groups \in Seq(Groups) /\ draft \in GroupInputs /\ editing \in Nat /\ nextId \in Nat
  /\ revision \in Nat
  /\ busy \in BOOLEAN /\ closing \in BOOLEAN
  /\ Comparing => job \in ComparisonTasks

\* The group in the draft is one of the groups.
EditingExists == editing = 0 \/ editing \in Ids(groups)

\* Nothing is under way behind a window that is not busy, and a job that has
\* posted is over.
IdleInv ==
  /\ job = Nothing \/ posted = Nothing
  /\ ~busy /\ ~closing => job = Nothing /\ posted = Nothing

\* Reports of the inputs the controls show, each read as it was hashed.
Current(reports) ==
  /\ valid
  /\ [k \in DOMAIN reports |-> reports[k].group] = CurrentInputGroups
  /\ \A k \in DOMAIN reports : reports[k].options = controls /\ reports[k].read = reports[k].hash

\* What was read at one time is what is there later, or older.
NotNewer(before, after) ==
  \A s \in {1, 2} : before[s] = after[s] \/ Age[before[s]] < Age[after[s]]

\* The inputs a comparison began with are still the ones shown, and of those
\* it is through with, it has the reports.
JobInv ==
  Comparing =>
    /\ valid /\ job.options = controls /\ job.revision = revision
    /\ job.groups = CurrentInputGroups
    /\ Len(job.reports) <= Len(job.groups)
    /\ \A k \in 1..Len(job.reports) :
         /\ job.reports[k].group = job.groups[k] /\ job.reports[k].options = controls
         /\ job.reports[k].read = job.reports[k].hash
    /\ job.at = "post" <=> Len(job.reports) = Len(job.groups)
    /\ job.at = "read" => job.hash \in Held2 /\ NotNewer(job.hash, Held)
    /\ job.at = "rehash" =>
         /\ job.hash \in Held2 /\ job.read \in Held2
         /\ NotNewer(job.hash, job.read) /\ NotNewer(job.read, Held)

PostedInv ==
  posted # Nothing /\ posted.kind = "report" /\ ~closing => Current(posted.reports)

ReportInv ==
  /\ report # <<>> => reportRevision = revision /\ Current(report)
  /\ valid => observed = controls

Inv ==
  /\ TypeInv /\ EditingExists /\ IdleInv /\ JobInv /\ PostedInv /\ ReportInv

-----------------------------------------------------------------------------
(* Groups and drafts                                                       *)

\* A label is filled in without touching the paths.
LEMMA LabelledInput ==
  ASSUME NEW d \in GroupInputs
  PROVE  /\ Labelled(d) \in GroupInputs
         /\ Complete(d) => Labelled(d) \in CompleteInputs
BY DEF Labelled, GroupInputs, CompleteInputs, Complete, Labels

LEMMA NoDraftInput == NoDraft \in GroupInputs
BY DEF NoDraft, GroupInputs, Labels, Paths

LEMMA DraftInputs == Drafts \subseteq GroupInputs
<1> SUFFICES ASSUME NEW d \in Drafts PROVE d \in GroupInputs
  OBVIOUS
<1>1. d \in [label : {e.label : e \in Drafts}, reference : Paths, actual : Paths]
  BY ComparePanelAssumption
<1> QED
  BY <1>1 DEF GroupInputs, Labels

\* What is loaded into the draft is what a group holds, or nothing.
LEMMA InputOfGroup ==
  ASSUME NEW gs \in Seq(Groups), NEW id
  PROVE  InputOf(gs, id) \in GroupInputs
<1>1. CASE id \in Ids(gs)
  <2>1. PICK k \in DOMAIN gs : gs[k].id = id
    BY <1>1 DEF Ids
  <2>2. Position(gs, id) \in DOMAIN gs
    BY <2>1 DEF Position
  <2>3. gs[Position(gs, id)] \in Groups
    BY <2>2
  <2> QED
    BY <1>1, <2>3 DEF InputOf, Groups, CompleteInputs
<1>2. CASE id \notin Ids(gs)
  BY <1>2, NoDraftInput DEF InputOf
<1> QED
  BY <1>1, <1>2

LEMMA LoadedDraft ==
  ASSUME NEW gs \in Seq(Groups), NEW id \in Nat, LoadGroupDraft(gs, id), groups' = gs
  PROVE  draft' \in GroupInputs /\ editing' \in Nat /\ EditingExists'
BY InputOfGroup DEF LoadGroupDraft, EditingExists

\* The groups in the order they had, with the draft in its place or at the end.
LEMMA AppliedGroups ==
  ASSUME TypeInv, EditingExists, CanApply
  PROVE  /\ Applied.groups \in Seq(Groups) /\ Applied.id \in Nat
         /\ Applied.groups = groups => groups # <<>>
<1> USE DEF TypeInv
<1> DEFINE group == [id |-> IF editing = 0 THEN nextId + 1 ELSE editing, input |-> Labelled(draft)]
<1>1. group \in Groups /\ Applied.id \in Nat
  BY LabelledInput DEF CanApply, Groups, Applied
<1> HIDE DEF group
<1>2. CASE editing = 0
  <2>1. Applied.groups = Append(groups, group)
    BY <1>2 DEF Applied, group
  <2>2. Append(groups, group) \in Seq(Groups) /\ Append(groups, group) # groups
    BY <1>1, AppendProperties
  <2> QED
    BY <1>1, <2>1, <2>2
<1>3. CASE editing # 0
  <2>1. Applied.groups = [k \in DOMAIN groups |-> IF groups[k].id = editing THEN group ELSE groups[k]]
    BY <1>3 DEF Applied, group
  <2>2. [k \in DOMAIN groups |-> IF groups[k].id = editing THEN group ELSE groups[k]] \in Seq(Groups)
    <3>1. /\ Len(groups) \in Nat /\ DOMAIN groups = 1..Len(groups)
          /\ \A k \in 1..Len(groups) : groups[k] \in Groups
      BY LenProperties, ElementOfSeq
    <3>2. [k \in 1..Len(groups) |-> IF groups[k].id = editing THEN group ELSE groups[k]]
            \in [1..Len(groups) -> Groups]
      BY <1>1, <3>1
    <3> QED
      BY <3>1, <3>2, SeqDef
  <2>3. groups # <<>>
    BY <1>3 DEF EditingExists, Ids
  <2> QED
    BY <1>1, <2>1, <2>2, <2>3
<1> QED
  BY <1>2, <1>3

LEMMA RemovedGroup ==
  ASSUME NEW gs \in Seq(Groups), NEW id \in Ids(gs)
  PROVE  RemoveAt(gs, Position(gs, id)) \in Seq(Groups)
<1>1. PICK k \in DOMAIN gs : gs[k].id = id
  BY DEF Ids
<1>2. Position(gs, id) \in DOMAIN gs
  BY <1>1 DEF Position
<1> DEFINE p == Position(gs, id)
<1>3. p \in 1..Len(gs) /\ Len(gs) \in Nat
  BY <1>2, LenProperties
<1> HIDE DEF p
<1>4. SubSeq(gs, 1, p - 1) \in Seq(Groups) /\ SubSeq(gs, p + 1, Len(gs)) \in Seq(Groups)
  BY <1>3, SubSeqProperties, ElementOfSeq
<1> QED
  BY <1>4, ConcatProperties DEF RemoveAt, p

\* The inputs of a comparison are complete.
LEMMA CurrentInputs ==
  ASSUME TypeInv
  PROVE  CurrentInputGroups \in Seq(CompleteInputs)
<1> USE DEF TypeInv
<1>1. CASE groups # <<>>
  <2>1. /\ Len(groups) \in Nat /\ DOMAIN groups = 1..Len(groups)
        /\ \A k \in 1..Len(groups) : groups[k].input \in CompleteInputs
    <3>1. \A k \in 1..Len(groups) : groups[k] \in Groups
      BY ElementOfSeq
    <3> QED
      BY <3>1, LenProperties DEF Groups
  <2>2. [k \in 1..Len(groups) |-> groups[k].input] \in [1..Len(groups) -> CompleteInputs]
    BY <2>1
  <2> QED
    BY <1>1, <2>1, <2>2, SeqDef DEF CurrentInputGroups
<1>2. CASE groups = <<>>
  BY <1>2, LabelledInput DEF CurrentInputGroups
<1> QED
  BY <1>1, <1>2

-----------------------------------------------------------------------------
(* The steps of the window                                                 *)

\* While the controls are enabled nothing is under way.
LEMMA NothingUnderWay ==
  ASSUME Inv, InputsEnabled, UNCHANGED <<stateVars, taskVars>>
  PROVE  IdleInv' /\ JobInv' /\ PostedInv' /\ ~Comparing'
BY DEF Inv, InputsEnabled, IdleInv, JobInv, PostedInv, Comparing, stateVars, taskVars

\* A step that changes no input leaves the report as current as it was.
LEMMA InputsKept ==
  ASSUME Inv, UNCHANGED <<optionVars, reportVars>>, CurrentInputGroups' = CurrentInputGroups
  PROVE  ReportInv'
BY DEF Inv, ReportInv, Current, optionVars, reportVars

\* A step that invalidates the report may change any of them.
LEMMA Invalidated ==
  ASSUME Inv, InvalidateReport, UNCHANGED optionVars
  PROVE  ReportInv'
BY DEF Inv, ReportInv, InvalidateReport, optionVars

\* Editing the groups or the draft, which marks the inputs when they change.
LEMMA GroupsChange ==
  ASSUME Inv, InputsEnabled, NEW changed, MarkInput(changed),
         groups' \in Seq(Groups), draft' \in GroupInputs, editing' \in Nat, nextId' \in Nat,
         EditingExists', UNCHANGED <<files, optionVars, stateVars, taskVars>>,
         ~changed => CurrentInputGroups' = CurrentInputGroups
  PROVE  Inv'
<1>1. IdleInv' /\ JobInv' /\ PostedInv' /\ ~Comparing'
  BY NothingUnderWay
<1>2. TypeInv'
  <2>1. revision' \in Nat
    BY DEF Inv, TypeInv, MarkInput, reportVars
  <2> QED
    BY <1>1, <2>1 DEF Inv, TypeInv, optionVars, stateVars
<1>3. ReportInv'
  BY InputsKept, Invalidated DEF MarkInput
<1> QED
  BY <1>1, <1>2, <1>3 DEF Inv

LEMMA ChangeOptionInv ==
  ASSUME Inv, NEW options \in Options, ChangeOption(options)
  PROVE  Inv'
<1> USE DEF ChangeOption
<1>1. InputsEnabled /\ options # controls /\ ObserveOptions(options)
  BY DEF Edit
<1>2. IdleInv' /\ JobInv' /\ PostedInv' /\ ~Comparing'
  BY <1>1, NothingUnderWay
<1>3. /\ controls' = options /\ valid' = (options # Invalid) /\ valid' \in BOOLEAN
      /\ valid' => observed' = options
  BY <1>1 DEF ObserveOptions
<1>4. TypeInv'
  <2>1. revision' \in Nat
    BY <1>1 DEF Inv, TypeInv, ObserveOptions, MarkInput, reportVars
  <2> QED
    BY <1>2, <1>3, <2>1 DEF Inv, TypeInv, groupVars, stateVars
<1>5. ReportInv'
  <2>1. CASE InvalidateReport
    BY <1>3, <2>1 DEF ReportInv, InvalidateReport
  <2>2. CASE ~InvalidateReport
    <3>1. report' = report /\ (IF valid' THEN valid /\ options = observed ELSE ~valid)
      BY <1>1, <2>2 DEF ObserveOptions, MarkInput, reportVars
    <3>2. ~valid
      BY <1>1, <3>1 DEF Inv, ReportInv
    <3> QED
      BY <1>3, <3>1, <3>2 DEF Inv, ReportInv, Current
  <2> QED
    BY <2>1, <2>2
<1>6. EditingExists'
  BY DEF Inv, EditingExists, groupVars
<1> QED
  BY <1>2, <1>4, <1>5, <1>6 DEF Inv

LEMMA EditDraftInv ==
  ASSUME Inv, NEW d \in Drafts, EditDraft(d)
  PROVE  Inv'
<1> USE DEF EditDraft
<1>1. InputsEnabled /\ MarkInput(groups = <<>>) /\ d \in GroupInputs
  BY DraftInputs DEF Edit
<1>2. groups # <<>> => CurrentInputGroups' = CurrentInputGroups
  BY DEF CurrentInputGroups
<1>3. EditingExists'
  BY DEF Inv, EditingExists
<1> QED
  BY <1>1, <1>2, <1>3, GroupsChange DEF Inv, TypeInv

LEMMA ApplyGroupInv == Inv /\ ApplyGroup => Inv'
<1> SUFFICES ASSUME Inv, ApplyGroup PROVE Inv'
  OBVIOUS
<1> USE DEF ApplyGroup
<1>1. Applied.groups \in Seq(Groups) /\ Applied.id \in Nat /\ (groups' = groups => groups # <<>>)
  BY AppliedGroups DEF Inv
<1>2. draft' \in GroupInputs /\ editing' \in Nat /\ EditingExists'
  BY <1>1, LoadedDraft
<1>3. groups' = groups => CurrentInputGroups' = CurrentInputGroups
  BY <1>1 DEF CurrentInputGroups
<1>4. nextId' \in Nat
  BY DEF Inv, TypeInv
<1> QED
  BY <1>1, <1>2, <1>3, <1>4, GroupsChange

LEMMA CancelGroupInv == Inv /\ CancelGroup => Inv'
<1> SUFFICES ASSUME Inv, CancelGroup PROVE Inv'
  OBVIOUS
<1> USE DEF CancelGroup
<1>1. groups \in Seq(Groups) /\ editing \in Nat /\ nextId \in Nat
  BY DEF Inv, TypeInv
<1>2. draft' \in GroupInputs /\ editing' \in Nat /\ EditingExists'
  BY <1>1, LoadedDraft
<1>3. groups # <<>> => CurrentInputGroups' = CurrentInputGroups
  BY DEF CurrentInputGroups
<1> QED
  BY <1>1, <1>2, <1>3, GroupsChange

LEMMA LoadAnotherInv ==
  ASSUME Inv, NEW id \in Nat, id = 0 \/ id \in Ids(groups), LoadAnother(id)
  PROVE  Inv'
<1> USE DEF LoadAnother
<1> DEFINE changed == groups' # groups \/ (groups' = <<>> /\ draft # NoDraft)
<1>1. groups' \in Seq(Groups) /\ nextId' \in Nat
  BY AppliedGroups DEF Inv, TypeInv
<1>2. draft' \in GroupInputs /\ editing' \in Nat /\ EditingExists'
  BY <1>1, LoadedDraft
<1>3. ~changed => CurrentInputGroups' = CurrentInputGroups
  <2> SUFFICES ASSUME groups' = groups, groups' = <<>> => draft = NoDraft
               PROVE  CurrentInputGroups' = CurrentInputGroups
    OBVIOUS
  <2>1. CASE groups # <<>>
    BY <2>1 DEF CurrentInputGroups
  <2>2. CASE groups = <<>>
    <3>1. draft' = NoDraft
      BY <2>2 DEF LoadGroupDraft, InputOf, Ids
    <3> QED
      BY <2>2, <3>1 DEF CurrentInputGroups
  <2> QED
    BY <2>1, <2>2
<1> QED
  BY <1>1, <1>2, <1>3, GroupsChange

LEMMA OnRemoveGroupInv == Inv /\ OnRemoveGroup => Inv'
<1> SUFFICES ASSUME Inv, OnRemoveGroup PROVE Inv'
  OBVIOUS
<1> USE DEF OnRemoveGroup
<1>1. groups' \in Seq(Groups) /\ nextId' \in Nat
  BY RemovedGroup DEF Inv, TypeInv, EditingExists
<1>2. draft' \in GroupInputs /\ editing' \in Nat /\ EditingExists'
  BY <1>1, LoadedDraft
<1> QED
  BY <1>1, <1>2, GroupsChange

-----------------------------------------------------------------------------
(* A comparison, from the button to the report                             *)

\* What the steps of the job and its callbacks leave alone.
LEMMA OnlyTheJob ==
  ASSUME Inv, UNCHANGED <<files, optionVars, groupVars, revision, closing>>,
         busy' \in BOOLEAN, Comparing' => job' \in ComparisonTasks
  PROVE  TypeInv' /\ EditingExists' /\ CurrentInputGroups' = CurrentInputGroups
BY DEF Inv, TypeInv, EditingExists, CurrentInputGroups, optionVars, groupVars

LEMMA OnCompareInv == Inv /\ OnCompare => Inv'
<1> SUFFICES ASSUME Inv, OnCompare PROVE Inv'
  OBVIOUS
<1> USE DEF OnCompare, Submit
<1>1. /\ UNCHANGED <<files, controls, observed, valid, groupVars, revision, closing, posted>>
      /\ InputsEnabled /\ valid /\ busy' = TRUE
  OBVIOUS
<1>2. CurrentInputGroups \in Seq(CompleteInputs) /\ Len(CurrentInputGroups) \in Nat \ {0}
  BY CurrentInputs, EmptySeq DEF Inv
<1>3. /\ job'.at = "hash" /\ job'.groups = CurrentInputGroups /\ job'.options = controls
      /\ job'.revision = revision /\ job'.reports = <<>> /\ job' \in ComparisonTasks
  BY <1>2 DEF ComparisonTasks, Stages, Inv, TypeInv
<1>4. CurrentInputGroups' = CurrentInputGroups
  BY <1>1 DEF CurrentInputGroups, groupVars
<1>5. TypeInv' /\ EditingExists'
  BY <1>1, <1>3 DEF Inv, TypeInv, EditingExists, groupVars
<1>6. posted' = Nothing
  BY <1>1 DEF Inv, IdleInv, InputsEnabled
<1>7. IdleInv' /\ PostedInv'
  BY <1>1, <1>6 DEF IdleInv, PostedInv
<1>8. JobInv'
  BY <1>1, <1>2, <1>3, <1>4 DEF JobInv
<1>9. ReportInv'
  BY <1>1 DEF Inv, ReportInv, InvalidateReport
<1> QED
  BY <1>5, <1>7, <1>8, <1>9 DEF Inv

LEMMA OnExportInv == Inv /\ OnExport => Inv'
<1> SUFFICES ASSUME Inv, OnExport PROVE Inv'
  OBVIOUS
<1> USE DEF OnExport, Submit
<1>1. job'.at = "export" /\ ~Comparing' /\ InputsEnabled /\ busy' = TRUE
  BY DEF Comparing, Stages
<1>2. TypeInv' /\ EditingExists' /\ CurrentInputGroups' = CurrentInputGroups
  BY <1>1 DEF Inv, TypeInv, EditingExists, CurrentInputGroups, groupVars, reportVars
<1>3. IdleInv' /\ PostedInv' /\ JobInv'
  BY <1>1 DEF Inv, IdleInv, PostedInv, JobInv, InputsEnabled
<1>4. ReportInv'
  BY <1>2 DEF Inv, ReportInv, Current, reportVars
<1> QED
  BY <1>2, <1>3, <1>4 DEF Inv

\* Canceling, saving the options and closing change no input.
LEMMA ControlInv ==
  ASSUME Inv, UNCHANGED <<files, controls, observed, valid, groupVars, reportVars, taskVars>>,
         UNCHANGED <<busy, closing>> \/ (closing' = TRUE /\ busy' = TRUE)
  PROVE  Inv'
<1>1. CurrentInputGroups' = CurrentInputGroups
  BY DEF CurrentInputGroups, groupVars
<1>2. TypeInv' /\ EditingExists'
  BY DEF Inv, TypeInv, EditingExists, Comparing, groupVars, reportVars, taskVars
<1>3. IdleInv' /\ PostedInv'
  BY <1>1 DEF Inv, IdleInv, PostedInv, Current, taskVars
<1>4. JobInv'
  BY <1>1 DEF Inv, JobInv, Comparing, Held, Group, NotNewer, taskVars, reportVars
<1>5. ReportInv'
  BY <1>1 DEF Inv, ReportInv, Current, reportVars
<1> QED
  BY <1>2, <1>3, <1>4, <1>5 DEF Inv

\* A job that is over, posting something or nothing.
LEMMA JobOver ==
  ASSUME Inv, job' = Nothing, JobUnchanged, PostedInv',
         job # Nothing \/ closing
  PROVE  Inv'
<1> USE DEF JobUnchanged
<1>1. ~Comparing'
  BY DEF Comparing
<1>2. UNCHANGED <<files, optionVars, groupVars, revision, closing, busy>>
  BY DEF reportVars, stateVars
<1>3. TypeInv' /\ EditingExists' /\ CurrentInputGroups' = CurrentInputGroups
  BY <1>1, <1>2, OnlyTheJob DEF Inv, TypeInv
<1>4. IdleInv' /\ JobInv'
  BY <1>1, <1>2 DEF Inv, IdleInv, JobInv
<1>5. ReportInv'
  BY <1>3, InputsKept
<1> QED
  BY <1>3, <1>4, <1>5 DEF Inv

\* A job that goes on.
LEMMA JobGoesOn ==
  ASSUME Inv, Comparing, JobUnchanged, UNCHANGED posted, job' \in ComparisonTasks, JobInv'
  PROVE  Inv'
<1> USE DEF JobUnchanged
<1>1. UNCHANGED <<files, optionVars, groupVars, revision, closing, busy>>
  BY DEF reportVars, stateVars
<1>2. TypeInv' /\ EditingExists' /\ CurrentInputGroups' = CurrentInputGroups
  BY <1>1, OnlyTheJob DEF Inv, TypeInv
<1>3. posted = Nothing /\ busy
  BY DEF Inv, IdleInv, Comparing
<1>4. IdleInv' /\ PostedInv'
  BY <1>1, <1>3 DEF IdleInv, PostedInv
<1>5. ReportInv'
  BY <1>2, InputsKept
<1> QED
  BY <1>2, <1>4, <1>5 DEF Inv

\* Before the last stage the job has a group whose files it reads.
LEMMA GroupInHand ==
  ASSUME Inv, Comparing, job.at # "post"
  PROVE  /\ Group \in CompleteInputs /\ Group.reference \in Files /\ Group.actual \in Files
         /\ Held \in Held2 /\ Len(job.reports) \in Nat
         /\ Len(job.reports) + 1 \in 1..Len(job.groups)
<1>1. job.groups \in Seq(CompleteInputs) /\ job.reports \in Seq(Reports)
  BY DEF Inv, TypeInv, ComparisonTasks
<1>2. Len(job.reports) \in Nat /\ Len(job.groups) \in Nat
  BY <1>1
<1>3. Len(job.reports) + 1 \in 1..Len(job.groups)
  BY <1>2 DEF Inv, JobInv
<1>4. Group \in CompleteInputs
  BY <1>1, <1>3, ElementOfSeq DEF Group
<1>5. Group.reference \in Files /\ Group.actual \in Files
  BY <1>4 DEF CompleteInputs, GroupInputs, Complete, Paths
<1> QED
  BY <1>2, <1>3, <1>4, <1>5 DEF Held, Held2, Inv, TypeInv

\* The two hashes of a file agree only if it was read in between unchanged.
LEMMA HashesAgree ==
  ASSUME NEW hash \in Held2, NEW read \in Held2, NEW now \in Held2,
         NotNewer(hash, read), NotNewer(read, now), now = hash
  PROVE  read = hash
<1>1. Age[hash[1]] \in Nat /\ Age[hash[2]] \in Nat /\ Age[read[1]] \in Nat /\ Age[read[2]] \in Nat
  BY ComparePanelAssumption DEF Held2
<1>2. read[1] = hash[1] /\ read[2] = hash[2]
  BY <1>1 DEF NotNewer
<1> QED
  BY <1>2 DEF Held2

LEMMA HashInputsInv == Inv /\ HashInputs => Inv'
<1> SUFFICES ASSUME Inv, HashInputs PROVE Inv'
  OBVIOUS
<1> USE DEF HashInputs, JobIs, Advance
<1>1. Comparing /\ job.at = "hash" /\ job \in ComparisonTasks
  BY DEF Comparing, Stages, Inv, TypeInv
<1>2. Held \in Held2 /\ Group' = Group /\ Held' = Held
  <2>1. Held \in Held2
    BY <1>1, GroupInHand
  <2>2. job'.groups = job.groups /\ job'.reports = job.reports /\ files' = files
    BY <1>1 DEF ComparisonTasks, JobUnchanged
  <2> QED
    BY <2>1, <2>2 DEF Group, Held
<1>3. job' \in ComparisonTasks
  BY <1>1, <1>2 DEF ComparisonTasks, Stages
<1>4. JobInv'
  <2>1. /\ job'.at = "read" /\ job'.hash = Held
        /\ job'.groups = job.groups /\ job'.options = job.options
        /\ job'.revision = job.revision /\ job'.reports = job.reports
    BY <1>1 DEF ComparisonTasks
  <2>2. UNCHANGED <<valid, controls, revision>> /\ CurrentInputGroups' = CurrentInputGroups
    BY DEF JobUnchanged, optionVars, groupVars, reportVars, CurrentInputGroups
  <2> QED
    BY <1>1, <1>2, <2>1, <2>2 DEF Inv, JobInv, NotNewer
<1> QED
  BY <1>1, <1>3, <1>4, JobGoesOn

LEMMA ReadInputsInv == Inv /\ ReadInputs => Inv'
<1> SUFFICES ASSUME Inv, ReadInputs PROVE Inv'
  OBVIOUS
<1> USE DEF ReadInputs, JobIs, Advance
<1>1. Comparing /\ job.at = "read" /\ job \in ComparisonTasks
  BY DEF Comparing, Stages, Inv, TypeInv
<1>2. Held \in Held2 /\ Group' = Group /\ Held' = Held
  <2>1. Held \in Held2
    BY <1>1, GroupInHand
  <2>2. job'.groups = job.groups /\ job'.reports = job.reports /\ files' = files
    BY <1>1 DEF ComparisonTasks, JobUnchanged
  <2> QED
    BY <2>1, <2>2 DEF Group, Held
<1>3. job' \in ComparisonTasks
  BY <1>1, <1>2 DEF ComparisonTasks, Stages
<1>4. JobInv'
  <2>1. /\ job'.at = "rehash" /\ job'.hash = job.hash /\ job'.read = Held
        /\ job'.groups = job.groups /\ job'.options = job.options
        /\ job'.revision = job.revision /\ job'.reports = job.reports
    BY <1>1 DEF ComparisonTasks
  <2>2. UNCHANGED <<valid, controls, revision>> /\ CurrentInputGroups' = CurrentInputGroups
    BY DEF JobUnchanged, optionVars, groupVars, reportVars, CurrentInputGroups
  <2>3. NotNewer(job'.hash, job'.read) /\ NotNewer(job'.read, Held') /\ job'.hash \in Held2
    BY <1>1, <1>2, <2>1 DEF Inv, JobInv, NotNewer
  <2> QED
    BY <1>1, <1>2, <2>1, <2>2, <2>3 DEF Inv, JobInv
<1> QED
  BY <1>1, <1>3, <1>4, JobGoesOn

LEMMA CompareGroupInv == Inv /\ CompareGroup => Inv'
<1> SUFFICES ASSUME Inv, CompareGroup PROVE Inv'
  OBVIOUS
<1> USE DEF CompareGroup, JobIs, Advance
<1>1. Comparing /\ job.at = "rehash" /\ job \in ComparisonTasks
  BY DEF Comparing, Stages, Inv, TypeInv
<1>2. /\ Group \in CompleteInputs /\ Held \in Held2 /\ Group = job.groups[Len(job.reports) + 1]
      /\ Len(job.reports) \in Nat /\ Len(job.reports) + 1 \in 1..Len(job.groups)
  BY <1>1, GroupInHand DEF Group
<1>3. /\ job.hash \in Held2 /\ job.read \in Held2 /\ job.read = job.hash
      /\ job.options = controls /\ controls \in Options
  BY <1>1, <1>2, HashesAgree DEF Inv, TypeInv, JobInv, StillAsHashed
<1> DEFINE part == [group |-> Group, options |-> job.options, hash |-> job.hash, read |-> job.read]
           reports == Append(job.reports, part)
<1>4. part \in Reports /\ part.group = Group /\ part.options = controls /\ part.read = part.hash
  BY <1>2, <1>3 DEF Reports
<1>5. /\ job'.at = IF Len(reports) = Len(job.groups) THEN "post" ELSE "hash"
      /\ job'.reports = reports /\ job'.groups = job.groups /\ job'.options = job.options
      /\ job'.revision = job.revision /\ job'.hash = job.hash /\ job'.read = job.read
      /\ job' = [job EXCEPT !.reports = reports,
                            !.at = IF Len(reports) = Len(job.groups) THEN "post" ELSE "hash"]
  BY <1>1 DEF ComparisonTasks
<1> HIDE DEF part
<1>6. /\ reports \in Seq(Reports) /\ Len(reports) = Len(job.reports) + 1
      /\ \A k \in 1..Len(job.reports) : reports[k] = job.reports[k]
      /\ reports[Len(job.reports) + 1] = part
  BY <1>1, <1>4, AppendProperties DEF ComparisonTasks
<1> HIDE DEF reports
<1>7. job' \in ComparisonTasks
  BY <1>1, <1>5, <1>6 DEF ComparisonTasks, Stages
<1>8. JobInv'
  <2>1. UNCHANGED <<valid, controls, revision>> /\ CurrentInputGroups' = CurrentInputGroups
    BY DEF JobUnchanged, optionVars, groupVars, reportVars, CurrentInputGroups
  <2>2. ASSUME NEW k \in 1..Len(reports)
        PROVE  reports[k].group = job.groups[k] /\ reports[k].options = controls
               /\ reports[k].read = reports[k].hash
    <3>1. CASE k \in 1..Len(job.reports)
      BY <1>1, <1>6, <3>1 DEF Inv, JobInv
    <3>2. CASE k = Len(job.reports) + 1
      BY <1>2, <1>4, <1>6, <3>2
    <3> QED
      BY <1>2, <1>6, <3>1, <3>2
  <2>3. /\ Len(reports) <= Len(job.groups)
        /\ job'.at = "post" <=> Len(reports) = Len(job.groups)
        /\ job'.at \notin {"read", "rehash"}
    BY <1>1, <1>2, <1>5, <1>6
  <2> QED
    BY <1>1, <1>5, <2>1, <2>2, <2>3 DEF Inv, JobInv
<1> QED
  BY <1>1, <1>7, <1>8, JobGoesOn

\* What is posted is of every input.
LEMMA PostReportInv == Inv /\ PostReport => Inv'
<1> SUFFICES ASSUME Inv, PostReport PROVE Inv'
  OBVIOUS
<1> USE DEF PostReport, JobIs, Post
<1>1. Comparing /\ job.at = "post" /\ job \in ComparisonTasks
  BY DEF Comparing, Stages, Inv, TypeInv
<1>2. /\ valid /\ job.groups = CurrentInputGroups /\ Len(job.reports) = Len(job.groups)
      /\ \A k \in 1..Len(job.reports) :
           /\ job.reports[k].group = job.groups[k] /\ job.reports[k].options = controls
           /\ job.reports[k].read = job.reports[k].hash
  BY <1>1 DEF Inv, JobInv
<1>3. DOMAIN job.reports = 1..Len(job.reports) /\ job.groups \in [1..Len(job.groups) -> CompleteInputs]
  BY <1>1, LenProperties DEF ComparisonTasks
<1>4. [k \in DOMAIN job.reports |-> job.reports[k].group] = job.groups
  BY <1>2, <1>3
<1>5. Current(job.reports)
  BY <1>2, <1>3, <1>4 DEF Current
<1>6. PostedInv'
  BY <1>5 DEF PostedInv, Current, JobUnchanged, optionVars, groupVars, CurrentInputGroups
<1> QED
  BY <1>6, JobOver

\* A job that fails, that exports, or that the window has stopped.
LEMMA JobEndsInv == Inv /\ (JobFails \/ ExportEnds \/ JobIsStopped) => Inv'
<1> SUFFICES ASSUME Inv, JobFails \/ ExportEnds \/ JobIsStopped PROVE Inv'
  OBVIOUS
<1>1. job' = Nothing /\ JobUnchanged /\ (job # Nothing \/ closing)
  BY DEF JobFails, ExportEnds, JobIsStopped, JobIs, Post
<1>2. closing' = closing /\ (closing \/ posted'.kind \in {"error", "exported"})
  BY DEF JobFails, ExportEnds, JobIsStopped, JobIs, Post, JobUnchanged, stateVars
<1>3. PostedInv'
  BY <1>2 DEF PostedInv
<1> QED
  BY <1>1, <1>3, JobOver

\* A callback finds the inputs as they were when its job was submitted.
LEMMA CallbackInv == Inv /\ Callback => Inv'
<1> SUFFICES ASSUME Inv, Callback PROVE Inv'
  OBVIOUS
<1> USE DEF CallbackUnchanged, Delivered, InvalidateReport
<1>1. /\ UNCHANGED <<files, optionVars, groupVars, revision, closing, job>>
      /\ posted # Nothing /\ posted' = Nothing /\ busy' \in BOOLEAN
  BY DEF Callback, ReportCanceled, ReportArrives, ComparisonFailed, ExportReported, Inv, TypeInv
<1>2. job = Nothing /\ ~Comparing'
  BY <1>1 DEF Inv, IdleInv, Comparing
<1>3. TypeInv' /\ EditingExists' /\ CurrentInputGroups' = CurrentInputGroups
  BY <1>1, <1>2, OnlyTheJob
<1>4. IdleInv' /\ JobInv' /\ PostedInv'
  BY <1>1, <1>2 DEF IdleInv, JobInv, PostedInv
<1>5. ReportInv'
  <2>1. CASE report' = <<>>
    BY <1>1, <2>1 DEF Inv, ReportInv, optionVars
  <2>2. CASE UNCHANGED <<report, reportRevision>>
    BY <1>1, <1>3, <2>2, InputsKept DEF reportVars
  <2>3. CASE ReportArrives /\ posted.revision = revision
    <3>1. Current(posted.reports) /\ report' = posted.reports /\ reportRevision' = revision
      BY <2>3 DEF ReportArrives, Inv, PostedInv
    <3>2. UNCHANGED <<valid, controls, observed, revision>>
      BY <1>1 DEF optionVars
    <3> QED
      BY <1>3, <3>1, <3>2 DEF Inv, ReportInv, Current
  <2> QED
    BY <2>1, <2>2, <2>3 DEF Callback, ReportCanceled, ReportArrives, ComparisonFailed, ExportReported
<1> QED
  BY <1>3, <1>4, <1>5 DEF Inv

\* A file that changes is newer than whatever was hashed or read of it.
LEMMA FileChangesInv ==
  ASSUME Inv, NEW f \in Files, NEW content \in Later, FileChanges(f, content)
  PROVE  Inv'
<1> USE DEF FileChanges
<1>1. UNCHANGED <<controls, observed, valid, groupVars, reportVars, busy, closing, taskVars>>
  BY DEF optionVars, stateVars
<1>2. CurrentInputGroups' = CurrentInputGroups /\ (Comparing' <=> Comparing)
  BY <1>1 DEF CurrentInputGroups, Comparing, groupVars, taskVars
<1>3. /\ files' \in [Files -> Texts]
      /\ \A p \in Files : /\ files[p] \in Texts /\ files'[p] \in Texts
                          /\ files'[p] = files[p] \/ Age[files[p]] < Age[files'[p]]
  <2>1. content \in Texts /\ files \in [Files -> Texts] /\ Age[content] > Age[files[f]]
    BY DEF Texts, Inv, TypeInv
  <2>2. Age[content] \in Nat /\ Age[files[f]] \in Nat
    BY <2>1, ComparePanelAssumption
  <2> QED
    BY <2>1, <2>2
<1>4. TypeInv' /\ EditingExists'
  BY <1>1, <1>2, <1>3 DEF Inv, TypeInv, EditingExists, groupVars, reportVars, taskVars
<1>5. IdleInv' /\ PostedInv' /\ ReportInv'
  BY <1>1, <1>2 DEF Inv, IdleInv, PostedInv, ReportInv, Current, reportVars, taskVars
<1>6. JobInv'
  <2>1. UNCHANGED <<valid, controls, revision, job>>
    BY <1>1 DEF reportVars, taskVars
  <2>2. ASSUME Comparing, job.at # "post", NEW then \in Held2, NotNewer(then, Held)
        PROVE  NotNewer(then, Held')
    <3>1. Group.reference \in Files /\ Group.actual \in Files /\ Group' = Group
      BY <2>1, <2>2, GroupInHand DEF Group
    <3>2. /\ Held[1] = files[Group.reference] /\ Held[2] = files[Group.actual]
          /\ Held'[1] = files'[Group.reference] /\ Held'[2] = files'[Group.actual]
      BY <3>1 DEF Held
    <3>3. \A s \in {1, 2} : /\ then[s] \in Texts /\ Held[s] \in Texts /\ Held'[s] \in Texts
                            /\ Held'[s] = Held[s] \/ Age[Held[s]] < Age[Held'[s]]
      BY <1>3, <3>1, <3>2 DEF Held2
    <3>4. \A s \in {1, 2} : Age[then[s]] \in Nat /\ Age[Held[s]] \in Nat /\ Age[Held'[s]] \in Nat
      BY <3>3, ComparePanelAssumption
    <3> QED
      BY <2>2, <3>3, <3>4 DEF NotNewer
  <2>3. Comparing /\ job.at = "read" => job.hash \in Held2 /\ NotNewer(job.hash, Held')
    BY <2>2 DEF Inv, JobInv
  <2>4. Comparing /\ job.at = "rehash" => job.read \in Held2 /\ NotNewer(job.read, Held')
    BY <2>2 DEF Inv, JobInv
  <2>5. JobInv
    BY DEF Inv
  <2>6. NotNewer(job.hash, job.read)' <=> NotNewer(job.hash, job.read)
    BY <2>1 DEF NotNewer
  <2> HIDE DEF FileChanges
  <2> QED
    BY <1>2, <2>1, <2>3, <2>4, <2>5, <2>6 DEF JobInv
<1> QED
  BY <1>4, <1>5, <1>6 DEF Inv

-----------------------------------------------------------------------------
LEMMA InitInv == Init => Inv
<1> SUFFICES ASSUME Init PROVE Inv
  OBVIOUS
<1> USE DEF Init
<1>1. TypeInv
  <2>1. files \in [Files -> Texts]
    BY DEF Texts
  <2>2. groups \in Seq(Groups) /\ draft \in GroupInputs
    BY NoDraftInput
  <2> QED
    BY <2>1, <2>2 DEF TypeInv, Options, Comparing
<1>2. EditingExists /\ IdleInv /\ JobInv /\ PostedInv /\ ReportInv
  BY DEF EditingExists, IdleInv, JobInv, Comparing, PostedInv, ReportInv
<1> QED
  BY <1>1, <1>2 DEF Inv

LEMMA NextInv == Inv /\ [Next]_vars => Inv'
<1> SUFFICES ASSUME Inv, [Next]_vars PROVE Inv'
  OBVIOUS
<1>1. ASSUME NEW options \in OptionChoices \cup {Invalid}, ChangeOption(options) PROVE Inv'
  BY <1>1, ChangeOptionInv DEF Options
<1>2. CASE LeaveField \/ CancelComparison \/ BeginShutdown
  BY <1>2, ControlInv
  DEF LeaveField, CancelComparison, BeginShutdown, optionVars, stateVars, taskVars
<1>3. ASSUME NEW d \in Drafts, EditDraft(d) PROVE Inv'
  BY <1>3, EditDraftInv
<1>4. ASSUME NEW id \in Ids(groups), SelectInputGroup(id) PROVE Inv'
  <2>1. id \in Nat
    <3>1. PICK k \in DOMAIN groups : groups[k].id = id
      BY DEF Ids
    <3>2. groups[k] \in Groups
      BY DEF Inv, TypeInv
    <3> QED
      BY <3>1, <3>2 DEF Groups
  <2> QED
    BY <1>4, <2>1, LoadAnotherInv DEF SelectInputGroup
<1>5. CASE NewGroup
  BY <1>5, LoadAnotherInv DEF NewGroup
<1>6. CASE ApplyGroup \/ CancelGroup \/ OnRemoveGroup
  BY <1>6, ApplyGroupInv, CancelGroupInv, OnRemoveGroupInv
<1>7. CASE OnCompare \/ OnExport
  BY <1>7, OnCompareInv, OnExportInv
<1>8. CASE JobStep
  BY <1>8, HashInputsInv, ReadInputsInv, CompareGroupInv, PostReportInv, JobEndsInv DEF JobStep
<1>9. CASE Callback
  BY <1>9, CallbackInv
<1>10. ASSUME NEW f \in Files, NEW content \in Later, FileChanges(f, content) PROVE Inv'
  BY <1>10, FileChangesInv
<1>11. CASE UNCHANGED vars
  BY <1>11, ControlInv DEF vars, optionVars, stateVars
<1> QED
  BY <1>1, <1>2, <1>3, <1>4, <1>5, <1>6, <1>7, <1>8, <1>9, <1>10, <1>11 DEF Next

(***************************************************************************)
(* A report that can be seen and exported is of the groups and the options *)
(* the controls show, and was computed from the very contents its hashes   *)
(* name, whatever was edited, canceled or written by other programs.       *)
(***************************************************************************)
THEOREM ReportsAreCurrent == Spec => []ReportIsCurrent
<1>1. Inv => ReportIsCurrent
  BY DEF Inv, ReportInv, Current, ReportIsCurrent
<1> QED
  BY InitInv, NextInv, <1>1, PTL DEF Spec

\* A posted report is of contents that files held, compared with options that
\* can be set.
ComparedInv ==
  /\ valid => controls \in OptionChoices
  /\ posted # Nothing /\ posted.kind = "report" =>
       \A k \in DOMAIN posted.reports :
         posted.reports[k].read \in Held2 /\ posted.reports[k].options \in OptionChoices

LEMMA ComparedKept ==
  ASSUME ComparedInv, UNCHANGED <<controls, valid>>,
         posted' = posted \/ posted' = Nothing \/ posted'.kind # "report"
  PROVE  ComparedInv'
BY DEF ComparedInv

LEMMA ChangeOptionCompared ==
  ASSUME ComparedInv, NEW options \in OptionChoices \cup {Invalid}, ChangeOption(options)
  PROVE  ComparedInv'
<1>1. controls' = options /\ valid' = (options # Invalid) /\ posted' = posted
  BY DEF ChangeOption, ObserveOptions, taskVars
<1> QED
  BY <1>1 DEF ComparedInv

LEMMA PostReportCompared ==
  ASSUME Inv, ComparedInv, PostReport
  PROVE  ComparedInv'
<1>1. /\ posted' = [kind |-> "report", revision |-> job.revision, reports |-> job.reports]
      /\ controls' = controls /\ valid' = valid /\ JobIs("post")
  BY DEF PostReport, Post, JobUnchanged, optionVars
<1>2. Comparing
  BY <1>1 DEF Comparing, JobIs, Stages
<1>3. /\ job \in ComparisonTasks /\ valid /\ Len(job.reports) <= Len(job.groups)
      /\ \A k \in 1..Len(job.reports) : job.reports[k].options = controls
  BY <1>2 DEF Inv, TypeInv, JobInv
<1>4. job.reports \in Seq(Reports)
  BY <1>3 DEF ComparisonTasks
<1>5. ASSUME NEW k \in DOMAIN job.reports
      PROVE  job.reports[k].read \in Held2 /\ job.reports[k].options \in OptionChoices
  <2>1. k \in 1..Len(job.reports) /\ job.reports[k] \in Reports
    BY <1>4
  <2> QED
    BY <1>3, <2>1 DEF Reports, ComparedInv
<1>6. posted'.kind = "report" /\ posted'.reports = job.reports
  BY <1>1
<1> QED
  BY <1>1, <1>5, <1>6 DEF ComparedInv

LEMMA ControlCompared ==
  ASSUME ComparedInv, LeaveField \/ NewGroup \/ ApplyGroup \/ CancelGroup \/ OnRemoveGroup
                      \/ OnCompare \/ OnExport \/ CancelComparison \/ BeginShutdown \/ UNCHANGED vars
  PROVE  ComparedInv'
BY ComparedKept DEF LeaveField, NewGroup, LoadAnother, ApplyGroup, CancelGroup, OnRemoveGroup, OnCompare,
  OnExport, Submit, CancelComparison, BeginShutdown, vars, optionVars, taskVars

LEMMA JobCompared ==
  ASSUME ComparedInv, HashInputs \/ ReadInputs \/ CompareGroup \/ JobFails \/ ExportEnds \/ JobIsStopped
  PROVE  ComparedInv'
<1>1. UNCHANGED <<controls, valid>>
  BY DEF HashInputs, ReadInputs, CompareGroup, JobFails, ExportEnds, JobIsStopped, Advance, Post,
    JobUnchanged, optionVars
<1>2. posted' = posted \/ posted' = Nothing \/ posted' = [kind |-> "error"] \/ posted' = [kind |-> "exported"]
  BY DEF HashInputs, ReadInputs, CompareGroup, JobFails, ExportEnds, JobIsStopped, Advance, Post
<1> QED
  BY <1>1, <1>2, ComparedKept

LEMMA CallbackCompared ==
  ASSUME ComparedInv, Callback
  PROVE  ComparedInv'
<1>1. UNCHANGED <<controls, valid>> /\ posted' = Nothing
  BY DEF Callback, ReportCanceled, ReportArrives, ComparisonFailed, ExportReported, Delivered,
    CallbackUnchanged, optionVars
<1> QED
  BY <1>1, ComparedKept

LEMMA NextCompared == Inv /\ ComparedInv /\ [Next]_vars => ComparedInv'
<1> SUFFICES ASSUME Inv, ComparedInv, [Next]_vars PROVE ComparedInv'
  OBVIOUS
<1>1. ASSUME NEW options \in OptionChoices \cup {Invalid}, ChangeOption(options) PROVE ComparedInv'
  BY <1>1, ChangeOptionCompared
<1>2. ASSUME NEW d \in Drafts, EditDraft(d) PROVE ComparedInv'
  BY <1>2, ComparedKept DEF EditDraft, optionVars, taskVars
<1>3. ASSUME NEW id \in Ids(groups), SelectInputGroup(id) PROVE ComparedInv'
  BY <1>3, ComparedKept DEF SelectInputGroup, LoadAnother, optionVars, taskVars
<1>4. CASE PostReport
  BY <1>4, PostReportCompared
<1>5. CASE HashInputs \/ ReadInputs \/ CompareGroup \/ JobFails \/ ExportEnds \/ JobIsStopped
  BY <1>5, JobCompared
<1>6. CASE Callback
  BY <1>6, CallbackCompared
<1>7. ASSUME NEW f \in Files, NEW content \in Later, FileChanges(f, content) PROVE ComparedInv'
  BY <1>7, ComparedKept DEF FileChanges, optionVars, taskVars
<1>8. CASE LeaveField \/ NewGroup \/ ApplyGroup \/ CancelGroup \/ OnRemoveGroup
           \/ OnCompare \/ OnExport \/ CancelComparison \/ BeginShutdown \/ UNCHANGED vars
  BY <1>8, ControlCompared
<1> QED
  BY <1>1, <1>2, <1>3, <1>4, <1>5, <1>6, <1>7, <1>8 DEF Next, JobStep

LEMMA InitCompared == Init => ComparedInv
<1> SUFFICES ASSUME Init PROVE ComparedInv
  OBVIOUS
<1>1. controls \in OptionChoices /\ posted = Nothing
  BY DEF Init
<1> QED
  BY <1>1 DEF ComparedInv

LEMMA ComparedIsSound == ComparedInv => ReportIsSound
<1> SUFFICES ASSUME ComparedInv, posted # Nothing, posted.kind = "report", NEW k \in DOMAIN posted.reports
             PROVE  <<posted.reports[k].read[1], posted.reports[k].read[2], posted.reports[k].options>>
                      \in SoundComparisons
  BY DEF ReportIsSound
<1>1. posted.reports[k].read \in Held2 /\ posted.reports[k].options \in OptionChoices
  BY DEF ComparedInv
<1>2. PICK f \in Texts, g \in Texts : posted.reports[k].read = <<f, g>>
  BY <1>1 DEF Held2
<1>3. posted.reports[k].read[1] = f /\ posted.reports[k].read[2] = g
  BY <1>2
<1>4. <<f, g, posted.reports[k].options>> \in Inputs
  BY <1>1 DEF Inputs
<1> QED
  BY <1>3, <1>4, EveryComparisonIsSound

(***************************************************************************)
(* CompareService::Compare: in every report, every record of either file   *)
(* occurs once and in order; the automatic alignment is the cheapest one   *)
(* around its anchors; distances and differences are minimal; without      *)
(* tolerance a row is OK exactly when its texts agree.                     *)
(***************************************************************************)
THEOREM ReportsAreSound == Spec => []ReportIsSound
<1>1. Inv /\ ComparedInv /\ [Next]_vars => Inv' /\ ComparedInv'
  BY NextInv, NextCompared
<1> QED
  BY InitInv, InitCompared, <1>1, ComparedIsSound, PTL DEF Spec
=============================================================================
