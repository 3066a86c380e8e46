-------------------------- MODULE MCRuntimeConfig ---------------------------
(* A small instance of RuntimeConfig: one field of each thread.            *)
EXTENDS RuntimeConfig

CONSTANTS gui, background
MCFields == {"compare", "audio_cache"}
MCOwner == [f \in MCFields |-> IF f = "compare" THEN gui ELSE background]
MCDefaults == [f \in MCFields |-> 0]

=============================================================================
