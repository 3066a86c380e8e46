-------------------------- MODULE MCCorpusMapping --------------------------
(* A small instance of CorpusMapping.                                      *)
EXTENDS CorpusMapping

MCSheets == [p \in Paths |-> << [name |-> "s", visible |-> TRUE], [name |-> "t", visible |-> FALSE] >>]

Column(source, header, utterance) == [source |-> source, header |-> header, utterance |-> utterance]

\* Below an empty first column; another program renames the second column.
MCColumns ==
  [v \in Versions, n \in HeaderRows |->
     IF n = 2 THEN << Column(1, "c", TRUE) >>
     ELSE << Column(1, "a", TRUE), Column(2, IF v = 1 THEN "b" ELSE "d", FALSE) >>]

=============================================================================
