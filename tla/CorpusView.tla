----------------------------- MODULE CorpusView -----------------------------
(***************************************************************************)
(* The runtime view of a corpus worksheet: ViewBuilder, and the operations *)
(* CorpusViewService offers on a session.  They are functions of a session *)
(* record; CorpusSession is the state machine that calls them.             *)
(*                                                                         *)
(* A text is the non-empty sequence of its lines, so "" is <<"">> and a    *)
(* line break is a boundary between two elements.  A source row is a       *)
(* sequence of texts that may be shorter than the selected columns.  A     *)
(* display cell is named by its row and its source column; headers, the    *)
(* order of the columns, and the symbols of a result are layout.           *)
(***************************************************************************)
EXTENDS Naturals, Sequences, FiniteSets, SequencesExt

CONSTANTS
  Lines,       \* what a line of a cell may be
  Trim,        \* unicode::Trim, of a line
  MaxRevision  \* largest value of a session's revision

NoText == ""      \* of a line
Empty == <<NoText>>
NoColumn == 0     \* of a selection without a reference column
NoSegment == 0    \* the segment index of a synthetic blank

ASSUME CorpusViewAssumption ==
  /\ NoText \in Lines
  /\ Trim \in [Lines -> Lines]
  /\ Trim[NoText] = NoText /\ \A l \in Lines : Trim[Trim[l]] = Trim[l]
  /\ MaxRevision \in Nat

----------------------------------------------------------------------------
(* ViewBuilder *)

Cell(rows, r, c) == IF c <= Len(rows[r]) THEN rows[r][c] ELSE Empty

\* The elements of a finite set, each after those that come before it.
InOrder(S, Before(_, _)) ==
  [k \in 1..Cardinality(S) |-> CHOOSE x \in S : Cardinality({y \in S : Before(y, x)}) = k - 1]

\* The trimmed lines of a text that are not blank.
SplitDisplaySegments(text) ==
  LET kept == {i \in DOMAIN text : Trim[text[i]] # NoText}
      lines == InOrder(kept, <)
  IN  [k \in DOMAIN lines |-> Trim[text[lines[k]]]]

IsBlank(text) == \A i \in DOMAIN text : Trim[text[i]] = NoText

\* JoinSegments, once the segment k is the value, which may have several lines.
JoinSegments(segments, k, value) ==
  SubSeq(segments, 1, k - 1) \o value \o SubSeq(segments, k + 1, Len(segments))

\* The expanded row k of the raw row r, with the results marked for its segments.
DisplayRow(s, r, k) ==
  LET segments(c) == SplitDisplaySegments(Cell(s.source, r, c))
      has(c) == k <= Len(segments(c))
      owner == s.owners[r]
  IN  [raw |-> r, expanded |-> k, owner |-> owner,
       reference |-> IF s.selected.reference = NoColumn THEN Empty
                     ELSE Cell(s.source, owner, s.selected.reference),
       segment |-> [c \in s.selected.plays |-> IF has(c) THEN k ELSE NoSegment],
       text    |-> [c \in s.selected.plays |-> IF has(c) THEN segments(c)[k] ELSE NoText],
       result  |-> [c \in s.selected.plays |->
                      IF has(c) /\ <<r, c, k>> \in DOMAIN s.marks
                      THEN s.marks[<<r, c, k>>] ELSE "blank"]]

\* A raw row shows as many rows as its longest play cell has segments, at
\* least one; a row without any text is left out.
Expanded(s, r) ==
  {1} \cup UNION {DOMAIN SplitDisplaySegments(Cell(s.source, r, c)) : c \in s.selected.plays}
Shown(row) == ~IsBlank(row.reference) \/ \E c \in DOMAIN row.text : row.text[c] # NoText
Positions(s) ==
  {p \in UNION {{r} \X Expanded(s, r) : r \in DOMAIN s.source} : Shown(DisplayRow(s, p[1], p[2]))}

Build(s) ==
  LET before(p, q) == p[1] < q[1] \/ (p[1] = q[1] /\ p[2] < q[2])
      positions == InOrder(Positions(s), before)
  IN  [d \in DOMAIN positions |-> DisplayRow(s, positions[d][1], positions[d][2])]

Rebuild(s) == [s EXCEPT !.view = Build(s)]

----------------------------------------------------------------------------
(* CreateSessionFromWorksheet.  A sheet has rows, the Excel row number of  *)
(* each, its merged ranges in the order of the file, and its header row.   *)

Covers(merge, c) == merge.left <= c /\ c <= merge.right

\* Mutated: a group reaches only as far as its last merge.
ReachOfNeighbour(acc, merge) == merge.last

\* The last row a group of overlapping merges reaches.
Reach(acc, merge) == Max({acc.last, merge.last})

\* A merge joins the group it overlaps, or begins one.
Grouped(acc, merges, i) ==
  IF merges[i].first <= acc.last
  THEN [last |-> Reach(acc, merges[i]), group |-> acc.group \cup {i},
        conflicts |-> acc.conflicts \cup acc.group \cup {i}]
  ELSE [last |-> merges[i].last, group |-> {i}, conflicts |-> acc.conflicts]

\* Merges over the reference column that overlap, found in the order of their first rows.
Conflicts(merges, c) ==
  LET before(i, j) == \/ merges[i].first < merges[j].first
                      \/ merges[i].first = merges[j].first /\ i < j
      order == InOrder({i \in DOMAIN merges : Covers(merges[i], c)}, before)
      acc[k \in 0..Len(order)] ==
        IF k = 0 THEN [last |-> 0, group |-> {}, conflicts |-> {}]
        ELSE Grouped(acc[k - 1], merges, order[k])
  IN  acc[Len(order)].conflicts

\* The rows of a merge take the reference of its first row, unless the merge
\* is in conflict, spans columns, begins in the header or outside the rows,
\* has no text, or covers a row that is taken or has a text of its own.
Project(sheet, c, acc, i) ==
  LET merge == sheet.merges[i]
      anchors == {r \in DOMAIN sheet.rows : sheet.excel[r] = merge.first}
      covered == {r \in DOMAIN sheet.rows : merge.first <= sheet.excel[r] /\ sheet.excel[r] <= merge.last}
      valid == \E a \in anchors :
                 /\ merge.first > sheet.header /\ merge.first <= merge.last
                 /\ Cell(sheet.rows, a, c) # Empty
                 /\ \A r \in covered : /\ r \notin acc.projected
                                       /\ Cell(sheet.rows, r, c) \in {Empty, Cell(sheet.rows, a, c)}
  IN  IF /\ Covers(merge, c) /\ merge.left = merge.right
         /\ i \notin Conflicts(sheet.merges, c)
         /\ valid
      THEN [owners |-> [r \in DOMAIN sheet.rows |->
                          IF r \in covered THEN CHOOSE a \in anchors : TRUE ELSE acc.owners[r]],
            projected |-> acc.projected \cup covered]
      ELSE acc

\* The merges in the order of the file, from rows that own their reference.
ReferenceOwners(sheet, c) ==
  LET own == [owners |-> [r \in DOMAIN sheet.rows |-> r], projected |-> {}]
      acc[i \in 0..Len(sheet.merges)] == IF i = 0 THEN own ELSE Project(sheet, c, acc[i - 1], i)
  IN  IF c = NoColumn THEN own.owners ELSE acc[Len(sheet.merges)].owners

CreateSession(id, sheet, selected) ==
  Rebuild([id |-> id, revision |-> 0, exported |-> 0, source |-> sheet.rows,
           owners |-> ReferenceOwners(sheet, selected.reference), selected |-> selected,
           marks |-> <<>>, view |-> <<>>])

----------------------------------------------------------------------------
(* UpdateDisplayCell.  Each edit gives the session after it, the raw rows  *)
(* it touched and whether the number of segments changed.                  *)

EraseMarks(s, ids) == [s EXCEPT !.marks = Restrict(@, DOMAIN @ \ ids)]
InvalidateResultSegment(s, r, c, k) == EraseMarks(s, {<<r, c, k>>})
InvalidateResultsFromSegment(s, r, c, first) ==
  EraseMarks(s, {id \in DOMAIN s.marks : id[1] = r /\ id[2] = c /\ id[3] >= first})

\* Mutated: a new reference erases the results of the row it is written to alone.
InvalidateResultsForAnchor(s, owner) == EraseMarks(s, {id \in DOMAIN s.marks : id[1] = owner})

InvalidateResultsForOwner(s, owner) ==
  EraseMarks(s, {id \in DOMAIN s.marks : s.owners[id[1]] = owner})

\* vector::resize, when the row ends before the column.
Widen(source, r, c) ==
  [source EXCEPT ![r] = @ \o [i \in 1..(IF Len(@) < c THEN c - Len(@) ELSE 0) |-> Empty]]

EditPlay(s, d, c, value) ==
  LET r == s.view[d].raw
      k == s.view[d].segment[c]
      segments == SplitDisplaySegments(s.source[r][c])
      text == JoinSegments(segments, k, value)
      written == [s EXCEPT !.source[r][c] = text]
      marked == IF <<segments[k]>> # value THEN InvalidateResultSegment(written, r, c, k) ELSE written
      reshaped == Len(SplitDisplaySegments(text)) # Len(segments)
  IN  [session |-> Rebuild(IF reshaped THEN InvalidateResultsFromSegment(marked, r, c, k) ELSE marked),
       raws |-> {r}, reshaped |-> reshaped]

EditReference(s, d, value) ==
  LET r == s.view[d].raw
      c == s.selected.reference
      owner == s.owners[r]
      wide == [s EXCEPT !.source = Widen(Widen(@, r, c), owner, c)]
      changed == wide.source[owner][c] # value
      written == [wide EXCEPT !.source[owner][c] = value]
  IN  IF changed
      THEN [session |-> Rebuild(InvalidateResultsForOwner(written, owner)),
            raws |-> {row \in DOMAIN s.owners : s.owners[row] = owner}, reshaped |-> FALSE]
      ELSE [session |-> [written EXCEPT !.view =
                           [i \in DOMAIN @ |-> IF @[i].raw = r THEN [@[i] EXCEPT !.reference = value]
                                                               ELSE @[i]]],
            raws |-> {r}, reshaped |-> FALSE]

\* Only the reference and the segments a play cell has are editable.
Editable(s, d, c) ==
  \/ c = s.selected.reference /\ c # NoColumn
  \/ c \in s.selected.plays /\ s.view[d].segment[c] # NoSegment

\* The edit counts as a revision when a source cell is no longer the same.
Revised(s, t) == [t EXCEPT !.revision = IF t.source # s.source THEN s.revision + 1 ELSE @]

UpdateDisplayCell(s, d, c, value) ==
  LET edit == IF c = s.selected.reference THEN EditReference(s, d, value) ELSE EditPlay(s, d, c, value)
  IN  [edit EXCEPT !.session = Revised(s, @)]

----------------------------------------------------------------------------
(* CycleResult and MarkExported *)

ResultKey(s, d, c) == <<s.view[d].raw, c, s.view[d].segment[c]>>

CycleResult(s, d, c) ==
  LET key == ResultKey(s, d, c)
      next == IF key \notin DOMAIN s.marks THEN "pass"
              ELSE IF s.marks[key] = "pass" THEN "fail" ELSE "blank"
  IN  [s EXCEPT !.marks = IF next = "blank" THEN Restrict(@, DOMAIN @ \ {key})
                          ELSE [id \in DOMAIN @ \cup {key} |-> IF id = key THEN next ELSE @[id]],
                !.view[d].result[c] = next,
                !.revision = @ + 1]

Dirty(s) == s.revision # s.exported

\* Mutated: the session counts as exported up to where it is now.
MarkExportedUpToNow(s, id, revision) ==
  IF s.id # id \/ revision > s.revision THEN s
  ELSE [s EXCEPT !.exported = s.revision]

MarkExported(s, id, revision) ==
  IF s.id # id \/ revision > s.revision THEN s
  ELSE [s EXCEPT !.exported = Max({@, revision})]

=============================================================================
