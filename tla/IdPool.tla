------------------------------- MODULE IdPool -------------------------------
(***************************************************************************)
(* What a thread id allocator promises: an id it gives out is in the range *)
(* the WASI threads proposal reserves and nobody holds it, and an id that  *)
(* is given back is one somebody held.                                     *)
(***************************************************************************)
EXTENDS Integers

CONSTANTS TID_MIN, TID_MAX

VARIABLE held  \* the ids that are given out

Init == held = {}

Get == \E id \in (TID_MIN .. TID_MAX) \ held : held' = held \cup {id}

Release == \E id \in held : held' = held \ {id}

Spec == Init /\ [][Get \/ Release]_held

=============================================================================
