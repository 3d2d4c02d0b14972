----------------------------- MODULE MCEmsHeap -----------------------------
(***************************************************************************)
(* Uses of a heap for TLC.                                                 *)
(***************************************************************************)
EXTENDS EmsHeap

(* Blocks of the smallest size, of the largest listed and the smallest tree *)
(* size, and one whose size wraps; a last word that is the size of a chunk. *)
Blocks == [pool |-> 168, ops |-> {"malloc", "free"},
           bases |-> {0}, requests |-> {8, 36, 52, 251},
           tails |-> {0, 40}, objects |-> 4, calls |-> 0]

(* Sizes that differ by 16, so that growth in place leaves no rest of 8. *)
Growing == [pool |-> 160, ops |-> {"malloc", "free", "realloc"},
            bases |-> {0}, requests |-> {12, 28, 44},
            tails |-> {0}, objects |-> 3, calls |-> 2]

(* Sizes that leave no chunk for the size lists. *)
Moving == [pool |-> 200, ops |-> {"malloc", "free", "realloc", "migrate"},
           bases |-> {0, 1000}, requests |-> {36, 76},
           tails |-> {0}, objects |-> 5, calls |-> 3]

AllUses == {Blocks, Growing, Moving}

(* A small heap with sizes of which one is the sum of two chunks. *)
Doubling == {[pool |-> 96, ops |-> {"malloc", "free", "realloc"},
              bases |-> {0}, requests |-> {8, 28},
              tails |-> {0}, objects |-> 3, calls |-> 1]}

=============================================================================
