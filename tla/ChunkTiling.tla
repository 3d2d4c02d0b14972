---------------------------- MODULE ChunkTiling -----------------------------
(***************************************************************************)
(* What the chunk headers of the ems heap amount to, between Allocator,    *)
(* which knows the users' blocks only, and EmsHeap, which finds its free   *)
(* chunks through lists and a tree: the pool is tiled by chunks, a block   *)
(* is carved from a free chunk or grows into the free chunk behind it, and *)
(* a chunk that is freed joins its free neighbours.  Which free chunk is   *)
(* taken, and how much of it, is left open.                                *)
(***************************************************************************)
EXTENDS Integers

CONSTANTS HeaderBytes, \* bytes of a chunk that are never handed out
          Align,       \* every chunk starts at a multiple of it
          Requests     \* the sizes the users ask for

VARIABLES pool,        \* bytes of the pool
          span,        \* start of a chunk -> its bytes
          used,        \* the chunks that hold a block
          blocks       \* start of a block -> bytes its owner may use

tilingVars == <<pool, span, used, blocks>>

TilingAssumption ==
    /\ HeaderBytes \in Nat
    /\ Align \in Nat \ {0}
    /\ Requests \subseteq Nat

Starts == {s \in Nat : s >= HeaderBytes /\ (s - HeaderBytes) % Align = 0}

End(a) == a + span[a]

Unused == DOMAIN span \ used

(* The chunks from lo to hi become one from lo to mid and, if anything is  *)
(* left, one from mid to hi.                                               *)
Retile(lo, mid, hi) ==
    [a \in {b \in DOMAIN span : b < lo \/ hi <= b} \cup {lo} \cup ({mid} \ {hi}) |->
        IF a = lo THEN mid - lo
        ELSE IF a = mid /\ mid # hi THEN hi - mid
        ELSE span[a]]

(* Chunk a has been given a block of n bytes.                              *)
WithBlock(a, n) ==
    [s \in DOMAIN blocks \cup {a + HeaderBytes} |->
        IF s = a + HeaderBytes THEN n ELSE blocks[s]]

TilingInit == /\ pool \in Nat \ {0}
              /\ span = [a \in {0} |-> pool]
              /\ used = {}
              /\ blocks = <<>>

(* Chunk a, followed by free bytes up to hi, is cut where a block of n     *)
(* bytes fits.                                                             *)
Cut(a, n, hi) == \E mid \in a + 1..hi :
    /\ mid % Align = 0 \/ mid = hi
    /\ n + HeaderBytes <= mid - a
    /\ span' = Retile(a, mid, hi)

Carve == \E a \in Unused, n \in Requests :
    /\ blocks' = WithBlock(a, n)
    /\ used' = used \cup {a}
    /\ Cut(a, n, End(a))

ResizeBlock == \E a \in used, n \in Requests :
    /\ n + HeaderBytes <= span[a]
    /\ blocks' = WithBlock(a, n)
    /\ UNCHANGED <<span, used>>

Grow == \E a \in used, n \in Requests :
    /\ End(a) \in Unused
    /\ blocks' = WithBlock(a, n)
    /\ used' = used
    /\ Cut(a, n, End(End(a)))

(* Where the free chunk that results from freeing a begins and ends        *)
Begins(lo, a) == IF \E p \in Unused : End(p) = a THEN lo \in Unused /\ End(lo) = a ELSE lo = a
Ends(a) == IF End(a) \in Unused THEN End(End(a)) ELSE End(a)

Release == \E a \in used :
    /\ used' = used \ {a}
    /\ blocks' = [s \in DOMAIN blocks \ {a + HeaderBytes} |-> blocks[s]]
    /\ \E lo \in DOMAIN span : Begins(lo, a) /\ span' = Retile(lo, Ends(a), Ends(a))

TilingNext == (Carve \/ ResizeBlock \/ Grow \/ Release) /\ UNCHANGED pool

TilingSpec == TilingInit /\ [][TilingNext]_tilingVars

-----------------------------------------------------------------------------
(* Properties *)

(* The chunks cover the pool without gap or overlap, and no two free ones  *)
(* lie side by side.                                                       *)
Tiled ==
    /\ 0 \in DOMAIN span
    /\ \A a \in DOMAIN span :
          /\ End(a) = pool \/ End(a) \in DOMAIN span
          /\ \A b \in DOMAIN span : ~(a < b /\ b < End(a))
          /\ a \in Unused => End(a) \notin Unused

(* The blocks lie in the chunks in use, each with its header to itself.    *)
BlocksInChunks ==
    /\ DOMAIN blocks = {a + HeaderBytes : a \in used}
    /\ \A a \in used : blocks[a + HeaderBytes] + HeaderBytes <= span[a]

(* A pool whose blocks are all freed is one chunk again.                   *)
WholeWhenUnused == used = {} => span = [a \in {0} |-> pool]

(* The users' blocks behave as Allocator says.                             *)
Abstract == INSTANCE Allocator WITH Sizes <- Requests

=============================================================================
