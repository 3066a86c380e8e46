------------------------- MODULE CompareAlgorithms --------------------------
(***************************************************************************)
(* What a comparison computes from the records of two texts: which record  *)
(* answers to which (SequenceAligner), how far apart two records are       *)
(* (TextSimilarity, UnitEdits) and which of their characters differ        *)
(* (CharacterDiff).  A text is a sequence of characters, a file the        *)
(* sequence of its lines.  Similarities are percentages in units of        *)
(* 1/Scale, exact for the lengths that occur.                              *)
(***************************************************************************)
EXTENDS Integers, SequencesExt

CONSTANTS
  Space,        \* IsWhitespace
  Punctuation,  \* IsPunctuation
  Fold,         \* the case mapping, a function on the characters
  Scale         \* 200 * Scale is divisible by the sum of any two lengths

ASSUME CompareAlgorithmsAssumption ==
  Scale \in Nat \ {0} /\ Space \in DOMAIN Fold /\ Punctuation \subseteq DOMAIN Fold

Max2(a, b) == IF a >= b THEN a ELSE b
Percent(n) == n * Scale

\* The elements of a sequence that belong to a set, in their order.
Select(seq, S) == FoldLeft(LAMBDA out, x : IF x \in S THEN Append(out, x) ELSE out, <<>>, seq)

-----------------------------------------------------------------------------
(* Reading and normalizing                                                 *)

Blank(text) == \A i \in DOMAIN text : text[i] = Space

\* TextFileImporter: the legacy profile skips blank records, the others keep them.
Import(lines, options) ==
  IF options.profile = "legacy" THEN Select(lines, {text \in ToSet(lines) : ~Blank(text)}) ELSE lines

Collapse(text) ==
  FoldLeft(LAMBDA out, c : IF c = Space /\ out # <<>> /\ Last(out) = Space THEN out ELSE Append(out, c),
           <<>>, text)

Trim(text) ==
  LET words == {i \in DOMAIN text : text[i] # Space}
  IN IF words = {} THEN <<>> ELSE SubSeq(text, Min(words), Max(words))

\* TextNormalizer::NormalizeCodepoints
Normalize(raw, options) ==
  LET folded == IF options.fold THEN [i \in DOMAIN raw |-> Fold[raw[i]]] ELSE raw
      words == IF options.dropPunctuation
               THEN Select(folded, ToSet(folded) \ Punctuation) ELSE folded
      spaced == IF options.collapse THEN Collapse(words) ELSE words
  IN IF options.trim THEN Trim(spaced) ELSE spaced

\* The words of a text, without the empty ones.
Words(text) ==
  LET Step(acc, c) ==
        IF c # Space THEN [acc EXCEPT !.open = Append(@, c)]
        ELSE IF acc.open = <<>> THEN acc
        ELSE [done |-> Append(acc.done, acc.open), open |-> <<>>]
      end == FoldLeft(Step, [done |-> <<>>, open |-> <<>>], text)
  IN IF end.open = <<>> THEN end.done ELSE Append(end.done, end.open)

-----------------------------------------------------------------------------
(* Two records                                                             *)

\* What is left of two sequences between their common prefix and suffix.
Strip(a, b) ==
  LET prefix == Len(LongestCommonPrefix({a, b}))
      Rest(s) == SubSeq(s, prefix + 1, Len(s))
      suffix == Len(LongestCommonPrefix({Reverse(Rest(a)), Reverse(Rest(b))}))
      Middle(s) == SubSeq(s, prefix + 1, Len(s) - suffix)
  IN [prefix |-> prefix, suffix |-> suffix, a |-> Middle(a), b |-> Middle(b)]

\* lcs[<<i, j>>]: of what follows position i of a and position j of b.
CommonAfter(a, b) ==
  LET lcs[p \in (0..Len(a)) \X (0..Len(b))] ==
        LET i == p[1]  j == p[2]
        IN IF i = Len(a) \/ j = Len(b) THEN 0
           ELSE IF a[i + 1] = b[j + 1] THEN 1 + lcs[<<i + 1, j + 1>>]
           ELSE Max2(lcs[<<i + 1, j>>], lcs[<<i, j + 1>>])
  IN lcs

\* TextSimilarity::Ratio
Ratio(left, right) ==
  IF left = right THEN Percent(100)
  ELSE IF left = <<>> \/ right = <<>> THEN 0
  ELSE LET rest == Strip(left, right)
           common == rest.prefix + rest.suffix + CommonAfter(rest.a, rest.b)[<<0, 0>>]
       IN (200 * Scale * common) \div (Len(left) + Len(right))

NoEdits == [s |-> 0, d |-> 0, i |-> 0]

\* The distances of all prefixes.
Distances(r, a) ==
  LET dp[p \in (0..Len(r)) \X (0..Len(a))] ==
        LET n == p[1]  m == p[2]
        IN IF n = 0 \/ m = 0 THEN n + m
           ELSE Min({dp[<<n - 1, m>>] + 1, dp[<<n, m - 1>>] + 1,
                     dp[<<n - 1, m - 1>>] + IF r[n] = a[m] THEN 0 ELSE 1})
  IN dp

\* The way back from the end: a match is preferred, then a substitution, a
\* deletion, an insertion.
EditsOf(r, a, dp) ==
  LET back[p \in (0..Len(r)) \X (0..Len(a))] ==
        LET n == p[1]  m == p[2]
            both == n > 0 /\ m > 0
        IN IF n = 0 /\ m = 0 THEN NoEdits
           ELSE IF both /\ r[n] = a[m] /\ dp[p] = dp[<<n - 1, m - 1>>] THEN back[<<n - 1, m - 1>>]
           ELSE IF both /\ dp[p] = dp[<<n - 1, m - 1>>] + 1
                THEN [back[<<n - 1, m - 1>>] EXCEPT !.s = @ + 1]
           ELSE IF n > 0 /\ dp[p] = dp[<<n - 1, m>>] + 1 THEN [back[<<n - 1, m>>] EXCEPT !.d = @ + 1]
           ELSE [back[<<n, m - 1>>] EXCEPT !.i = @ + 1]
  IN back

UnitEdits(reference, actual) ==
  LET rest == Strip(reference, actual)
  IN EditsOf(rest.a, rest.b, Distances(rest.a, rest.b))[<<Len(rest.a), Len(rest.b)>>]

Mark(text, kind) == [k \in DOMAIN text |-> [text |-> text[k], same |-> kind]]

\* What lies between the ends, from position i of x and position j of y.
DiffAfter(x, y, lcs) ==
  LET walk[p \in (0..Len(x)) \X (0..Len(y))] ==
        LET i == p[1]  j == p[2]
        IN IF i = Len(x) /\ j = Len(y) THEN [reference |-> <<>>, actual |-> <<>>]
           ELSE IF i < Len(x) /\ j < Len(y) /\ x[i + 1] = y[j + 1]
                THEN LET w == walk[<<i + 1, j + 1>>]
                     IN [reference |-> Mark(<<x[i + 1]>>, TRUE) \o w.reference,
                         actual |-> Mark(<<y[j + 1]>>, TRUE) \o w.actual]
           ELSE IF i < Len(x) /\ (j = Len(y) \/ lcs[<<i + 1, j>>] >= lcs[<<i, j + 1>>])
                THEN LET w == walk[<<i + 1, j>>]
                     IN [w EXCEPT !.reference = Mark(<<x[i + 1]>>, FALSE) \o @]
           ELSE LET w == walk[<<i, j + 1>>] IN [w EXCEPT !.actual = Mark(<<y[j + 1]>>, FALSE) \o @]
  IN walk

\* CharacterDiff::Diff: each side as its characters, each the same or changed.
\* Neighbours of one kind are one fragment.
Diff(a, b) ==
  LET rest == Strip(a, b)
      Ends(middle) == Mark(SubSeq(a, 1, rest.prefix), TRUE) \o middle
                      \o Mark(SubSeq(a, Len(a) - rest.suffix + 1, Len(a)), TRUE)
      between == DiffAfter(rest.a, rest.b, CommonAfter(rest.a, rest.b))[<<0, 0>>]
  IN [reference |-> Ends(between.reference), actual |-> Ends(between.actual)]

-----------------------------------------------------------------------------
(* The records of two files                                                *)

BuildScores(refs, acts) ==
  [p \in (DOMAIN refs) \X (DOMAIN acts) |-> Ratio(refs[p[1]], acts[p[2]])]

\* The first best of a row or column of scores, and how far the next one is.
Peak(line) ==
  LET best == Max({line[k] : k \in DOMAIN line})
      at == Min({k \in DOMAIN line : line[k] = best})
      others == {line[k] : k \in DOMAIN line \ {at}}
  IN [at |-> at, score |-> best, alone |-> others = {},
      margin |-> IF others = {} THEN best ELSE best - Max(others)]

\* The longest sequence of pairs that grows on both sides; of equal ones the first.
LongestChain(partner) ==
  LET LongestOf(chains, S) ==
        chains[Min({k \in S : \A l \in S : Len(chains[k]) >= Len(chains[l])})]
      chain[i \in DOMAIN partner] ==
        LET before == {k \in DOMAIN partner : k < i /\ partner[k] < partner[i]}
        IN Append(IF before = {} THEN <<>> ELSE LongestOf([k \in before |-> chain[k]], before),
                  <<i, partner[i]>>)
  IN IF DOMAIN partner = {} THEN <<>> ELSE LongestOf(chain, DOMAIN partner)

\* A record and the peak of its row, which is the peak of its column too.
IsAnchor(i, row, column, options) ==
  /\ row.score >= Max2(options.anchor, options.threshold)
  /\ row.margin >= options.margin /\ column.margin >= options.margin
  /\ row.alone \/ row.margin > 0
  /\ column.margin > 0
  /\ column.at = i

Anchored(rows, columns, options) ==
  LET candidates == {i \in DOMAIN rows : IsAnchor(i, rows[i], columns[rows[i].at], options)}
  IN LongestChain([i \in candidates |-> rows[i].at])

FindMonotonicAnchors(scores, n, m, options) ==
  Anchored([i \in 1..n |-> Peak([j \in 1..m |-> scores[<<i, j>>]])],
           [j \in 1..m |-> Peak([i \in 1..n |-> scores[<<i, j>>]])], options)

Pair(i, j) == [reference |-> i, actual |-> j]   \* 0 for nullopt

\* Mutated: a pair below the threshold is matched when it is cheaper.
MayMatchAny(score, options) == TRUE

\* Below the threshold a match costs infinity.
MayMatch(score, options) == score >= options.threshold

\* The records after r0 up to r1 against those after a0 up to a1.  A match is
\* taken when it is no dearer than a gap, a gap in the reference before one in
\* the actual text.
AlignSegment(scores, r0, r1, a0, a1, options) ==
  LET n == r1 - r0  m == a1 - a0
      dp[p \in (0..n) \X (0..m)] ==
        LET i == p[1]  j == p[2]
        IN IF i = 0 \/ j = 0
           THEN [cost |-> (i + j) * options.gap,
                 path |-> [k \in 1..(i + j) |-> IF j = 0 THEN Pair(r0 + k, 0) ELSE Pair(0, a0 + k)]]
           ELSE LET score == scores[<<r0 + i, a0 + j>>]
                    both == dp[<<i - 1, j - 1>>].cost + Percent(100) - score
                    skip == dp[<<i - 1, j>>].cost + options.gap
                    extra == dp[<<i, j - 1>>].cost + options.gap
                IN IF MayMatch(score, options) /\ both <= skip /\ both <= extra
                   THEN [cost |-> both, path |-> Append(dp[<<i - 1, j - 1>>].path, Pair(r0 + i, a0 + j))]
                   ELSE IF skip <= extra
                   THEN [cost |-> skip, path |-> Append(dp[<<i - 1, j>>].path, Pair(r0 + i, 0))]
                   ELSE [cost |-> extra, path |-> Append(dp[<<i, j - 1>>].path, Pair(0, a0 + j))]
  IN dp[<<n, m>>].path

\* The segments before, between and after the anchors.
AlignBetween(anchors, scores, n, m, options) ==
  LET From(k) == IF k = 1 THEN <<0, 0>> ELSE anchors[k - 1]
      Upto(k) == IF k <= Len(anchors) THEN anchors[k] ELSE <<n + 1, m + 1>>
      Segment(k) == AlignSegment(scores, From(k)[1], Upto(k)[1] - 1, From(k)[2], Upto(k)[2] - 1, options)
      Anchor(k) == IF k <= Len(anchors) THEN <<Pair(anchors[k][1], anchors[k][2])>> ELSE <<>>
  IN FlattenSeq([k \in 1..(Len(anchors) + 1) |-> Segment(k) \o Anchor(k)])

AlignScored(scores, n, m, options) ==
  AlignBetween(FindMonotonicAnchors(scores, n, m, options), scores, n, m, options)

\* SequenceAligner::Align
Align(refs, acts, options) ==
  IF refs = <<>> THEN [j \in DOMAIN acts |-> Pair(0, j)]
  ELSE IF acts = <<>> THEN [i \in DOMAIN refs |-> Pair(i, 0)]
  ELSE AlignScored(BuildScores(refs, acts), Len(refs), Len(acts), options)

AlignRows(refs, acts) ==
  [k \in 1..Max2(Len(refs), Len(acts)) |->
     Pair(IF k <= Len(refs) THEN k ELSE 0, IF k <= Len(acts) THEN k ELSE 0)]

\* EditStatistics::ErrorRate is undefined for errors in no units.
RateAtMost(counts, units, limit) ==
  LET errors == counts.s + counts.d + counts.i
  IN IF units = 0 THEN errors = 0 ELSE Percent(100) * errors <= limit * units

\* The row of a pair: r and a are the texts as they are in the files, u and v
\* what the metric counts.
Row(pair, r, a, u, v, counts, options) ==
  LET ok == CASE options.metric = "indel" -> Ratio(u, v) >= options.pass
              [] options.metric = "exact" -> r = a
              [] OTHER -> RateAtMost(counts, Len(u), options.maxError)
  IN [pair |-> pair, edits |-> counts, diff |-> Diff(r, a),
      status |-> IF pair.reference = 0 THEN "EXTRA"
                 ELSE IF pair.actual = 0 THEN "MISSING" ELSE IF ok THEN "OK" ELSE "NG"]

Units(text, options) ==
  CASE options.metric = "exact" -> text
    [] options.metric = "wer" -> Words(Normalize(text, options))
    [] OTHER -> Normalize(text, options)

CompareTexts(pair, r, a, u, v, options) ==
  Row(pair, r, a, u, v, IF options.metric = "indel" THEN NoEdits ELSE UnitEdits(u, v), options)

\* CompareService::Compare
Compare(reference, actual, options) ==
  LET Normalized(lines) == [i \in DOMAIN lines |-> Normalize(lines[i], options)]
      Text(lines, i) == IF i = 0 THEN <<>> ELSE lines[i]
      Rows(pairs) ==
        [k \in DOMAIN pairs |->
           LET r == Text(reference, pairs[k].reference)  a == Text(actual, pairs[k].actual)
           IN CompareTexts(pairs[k], r, a, Units(r, options), Units(a, options), options)]
  IN IF options.pairing = "sequence"
     THEN Rows(Align(Normalized(reference), Normalized(actual), options))
     ELSE Rows(AlignRows(reference, actual))
=============================================================================
