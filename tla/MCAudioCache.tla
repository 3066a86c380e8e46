---------------------------- MODULE MCAudioCache ----------------------------
(* Small instances of AudioCache: keys and preparers are interchangeable. *)
EXTENDS AudioCache, TLC

Symmetry == Permutations(Keys) \cup Permutations(Preparers)

=============================================================================
