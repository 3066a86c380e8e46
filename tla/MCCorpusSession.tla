-------------------------- MODULE MCCorpusSession --------------------------
(* Worksheets of up to three rows: a text line may be padded, and a cell   *)
(* may be missing, empty, blank or of two lines.                           *)
EXTENDS CorpusSession

MCTrim == [l \in Lines |-> IF l = " a" THEN "a" ELSE l]

MergeOf(first, last, left, right) == [first |-> first, last |-> last, left |-> left, right |-> right]
Columns(reference, plays) == [reference |-> reference, plays |-> plays]

\* Two rows share a reference, and the second has no cell for it.
Merged == [rows |-> << << <<"a">>, <<"r">> >>, << <<"a">> >> >>,
           excel |-> <<2, 3>>, header |-> 1, merges |-> <<MergeOf(2, 3, 2, 2)>>,
           selected |-> Columns(2, {1})]

\* No reference column; play cells of different length, padded, with a blank line.
Padded == [rows |-> << << <<" a", "", "b">>, <<"a">> >> >>,
           excel |-> <<2>>, header |-> 1, merges |-> <<MergeOf(2, 3, 1, 1)>>,
           selected |-> Columns(0, {1, 2})]

MCSheets == {Merged, Padded}
MCValues == {Empty, <<"a">>, <<"b", "a">>}

\* A cell that shows "a" is given the padded text it has.
MCPadded == {Padded}
MCPaddedValues == {<<" a">>}

\* Every arrangement of three merges, over rows whose reference is given,
\* missing or another.
MergeRanges == {MergeOf(2, 3, 1, 1), MergeOf(2, 5, 1, 1), MergeOf(3, 3, 1, 1), MergeOf(4, 5, 1, 1),
                MergeOf(1, 2, 1, 1), MergeOf(5, 5, 1, 2), MergeOf(2, 4, 2, 2)}
References == {Empty, <<"a">>, <<"b">>}
MCLayouts ==
  {[rows |-> << <<one, <<"a">>>>, <<two, <<"a">>>>, <<three, <<"a">>>>, <<four, <<"a">>>> >>,
    excel |-> <<2, 3, 4, 5>>, header |-> 1, merges |-> merges, selected |-> Columns(1, {2})] :
   one, two, three, four \in References, merges \in [1..3 -> MergeRanges]}

=============================================================================
