--------------------------- MODULE MCComparePanel ---------------------------
(* A small instance of ComparePanel.                                       *)
EXTENDS ComparePanel

Alphabet == {"a", "b", "c", "A", " ", "."}
MCFold == [c \in Alphabet |-> IF c = "A" THEN "a" ELSE c]

\* Thresholds near the similarities of texts of at most three characters.
Legacy ==
  [profile |-> "legacy", metric |-> "indel", pairing |-> "sequence",
   fold |-> TRUE, dropPunctuation |-> TRUE, collapse |-> TRUE, trim |-> TRUE,
   threshold |-> Percent(60), anchor |-> Percent(80), margin |-> Percent(10), gap |-> Percent(45),
   pass |-> Percent(100), maxError |-> 0]
RowsPreset ==
  [Legacy EXCEPT !.pairing = "rows", !.fold = FALSE, !.dropPunctuation = FALSE,
                 !.collapse = FALSE, !.trim = FALSE]
Strict == [RowsPreset EXCEPT !.profile = "strict", !.metric = "exact"]
Cer == [RowsPreset EXCEPT !.profile = "cer", !.metric = "cer", !.pairing = "sequence", !.gap = Percent(20)]
Wer == [RowsPreset EXCEPT !.profile = "wer", !.metric = "wer", !.fold = TRUE, !.maxError = Percent(50)]
MCOptions == {Legacy, Strict, Cer, Wer}

MCContents ==
  { << <<"a", " ", "b">>, <<>>, <<"b", "a">> >>,
    << <<"b", "a", "c">>, <<"a", "b">>, <<"c">> >> }
MCLater ==
  { <<>>,
    << <<"a">>, <<"a", "b">>, <<"b">> >>,
    << <<"A", ".">>, <<"b", "a", "b">>, <<"a">> >>,
    << <<"c">>, <<"a", "b", "c">>, <<"a", "b">> >> }
MCAge == [text \in MCContents \cup MCLater |-> IF text \in MCContents THEN 0 ELSE 1]

\* The second gets the default label; either may be entered again.
Input(label, reference, actual) == [label |-> label, reference |-> reference, actual |-> actual]
MCDrafts == {Input("h", "g", "f"), Input("", "f", "g")}

=============================================================================
