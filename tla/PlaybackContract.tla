-------------------------- MODULE PlaybackContract --------------------------
(***************************************************************************)
(* What playback promises its user, whatever threads and locks carry it    *)
(* out: at most one request is live; a later request never gives way to an *)
(* earlier one; only the live request is heard, never while it is held;    *)
(* its items are heard in order.                                           *)
(***************************************************************************)
EXTENDS Naturals

CONSTANTS MaxRequests, MaxItems

VARIABLES
  live,     \* the request that may sound, 0 for none
  started,  \* the last request that was started
  held,     \* the live request is paused
  heard     \* <<request, item>> of the last sound

vars == <<live, started, held, heard>>

Init == live = 0 /\ started = 0 /\ held = FALSE /\ heard = <<0, 0>>

\* A new request starts only when the one before it is no longer live.
Start ==
  /\ live = 0
  /\ started < MaxRequests
  /\ started' = started + 1
  /\ live' = started'
  /\ held' = FALSE
  /\ UNCHANGED heard

Hold == live # 0 /\ held' = TRUE /\ UNCHANGED <<live, started, heard>>
Release == live # 0 /\ held' = FALSE /\ UNCHANGED <<live, started, heard>>

\* Stopped, replaced, failed or played to its end.
End == live # 0 /\ live' = 0 /\ held' = FALSE /\ UNCHANGED <<started, heard>>

Sound ==
  /\ live # 0 /\ ~held
  /\ \E i \in 1..MaxItems :
       /\ heard[1] = live => i >= heard[2]
       /\ heard' = <<live, i>>
  /\ UNCHANGED <<live, started, held>>

Next == Start \/ Hold \/ Release \/ End \/ Sound

Spec == Init /\ [][Next]_vars
=============================================================================
