----------------------------- MODULE Allocator -----------------------------
(***************************************************************************)
(* What the users of a WAMR heap (the runtime, and through module_malloc   *)
(* the guest application) rely on: blocks of a pool that never overlap,    *)
(* that have the room that was asked for, that stay where they are until   *)
(* they are freed or reallocated, and that nobody but their owner frees.   *)
(* Which free bytes a block is given is left open.                         *)
(***************************************************************************)
EXTENDS Integers, Functions

CONSTANTS HeaderBytes, \* bytes in front of a block that are never handed out
          Starts,      \* where a block may start: the alignment promised
          Sizes        \* the sizes the users ask for

VARIABLES pool,        \* bytes of the pool that blocks can be in
          blocks       \* start of a block -> bytes its owner may use

Overlap(s, m, t, n) == s < t + n /\ t < s + m

(* A block of n bytes may start at s when it lies in the pool, has its     *)
(* header to itself and meets no block of `others`.                        *)
Fits(s, n, others) ==
    /\ s >= HeaderBytes /\ s + n <= pool
    /\ \A t \in DOMAIN others :
          ~Overlap(s - HeaderBytes, n + HeaderBytes,
                   t - HeaderBytes, others[t] + HeaderBytes)

Add(s, n) == [t \in DOMAIN blocks \cup {s} |-> IF t = s THEN n ELSE blocks[t]]

Init == blocks = <<>>

Allocate == \E n \in Sizes, s \in Starts :
                /\ s \notin DOMAIN blocks
                /\ Fits(s, n, blocks)
                /\ blocks' = Add(s, n)

Resize == \E s \in DOMAIN blocks, n \in Sizes :
                /\ Fits(s, n, Restrict(blocks, DOMAIN blocks \ {s}))
                /\ blocks' = Add(s, n)

Free == \E s \in DOMAIN blocks : blocks' = Restrict(blocks, DOMAIN blocks \ {s})

Next == (Allocate \/ Resize \/ Free) /\ UNCHANGED pool

Spec == Init /\ [][Next]_<<pool, blocks>>

=============================================================================
