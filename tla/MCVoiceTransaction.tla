------------------------ MODULE MCVoiceTransaction ------------------------
(* Small instances of VoiceTransaction: the runs of the script are         *)
(* interchangeable, and so are the desktops.                               *)
EXTENDS VoiceTransaction, TLC

Symmetry == Permutations(Preparers) \cup Permutations(Readers)

=============================================================================
