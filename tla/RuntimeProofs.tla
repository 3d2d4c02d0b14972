--------------------------- MODULE RuntimeProofs ----------------------------
(***************************************************************************)
(* What the runtime guarantees its guests and its client: that the chunks  *)
(* of the heap tile its pool, for every size of pool, of header and of     *)
(* request; that waiting and notifying threads find each other, for any    *)
(* number of threads and addresses; and that the trusted application of    *)
(* WaTZ and its program in the normal world leave nothing of a run behind, *)
(* for any number of runs and any order of commands.                       *)
(***************************************************************************)
EXTENDS ChunkTiling, WaitNotify, WatzHost, TLAPS

(***************************************************************************)
(* The heap: a pool tiled by chunks                                        *)
(***************************************************************************)

(* The layout of a pool of n bytes: f gives the chunks, all aligned, that  *)
(* cover it without gap or overlap.                                        *)
Layout(f, n) ==
    /\ n \in Nat \ {0}
    /\ f = [a \in DOMAIN f |-> f[a]]
    /\ DOMAIN f \subseteq Nat
    /\ 0 \in DOMAIN f
    /\ \A a \in DOMAIN f :
          /\ f[a] \in Nat \ {0}
          /\ a % Align = 0
          /\ a + f[a] <= n
          /\ a + f[a] = n \/ a + f[a] \in DOMAIN f
          /\ \A b \in DOMAIN f : ~(a < b /\ b < a + f[a])

(* No two chunks of f outside u lie side by side.                          *)
NoneAdjacent(f, u) == \A a \in DOMAIN f \ u : a + f[a] \notin DOMAIN f \ u

(* The inductive invariant                                                 *)
TilingInv ==
    /\ Layout(span, pool)
    /\ used \subseteq DOMAIN span
    /\ NoneAdjacent(span, used)
    /\ BlocksInChunks
    /\ \A a \in used : blocks[a + HeaderBytes] \in Nat

(***************************************************************************)
(* Layouts                                                                 *)
(***************************************************************************)

(* Two chunks are the same or one ends before the other begins.            *)
LEMMA Apart ==
    ASSUME NEW f, NEW n, Layout(f, n), NEW a \in DOMAIN f, NEW b \in DOMAIN f
    PROVE  a = b \/ a + f[a] <= b \/ b + f[b] <= a
  BY DEF Layout

(* A stretch of the pool that begins with a chunk and ends where one does. *)
Stretch(lo, hi) ==
    /\ lo \in DOMAIN span
    /\ hi \in Nat /\ lo < hi /\ hi <= pool
    /\ hi = pool \/ hi \in DOMAIN span

Outside(lo, hi) == {b \in DOMAIN span : b < lo \/ hi <= b}

(* What Retile leaves in place of such a stretch.                          *)
IsRetiled(g, lo, mid, hi) ==
    /\ DOMAIN g = Outside(lo, hi) \cup {lo} \cup ({mid} \ {hi})
    /\ g = [a \in DOMAIN g |-> g[a]]
    /\ g[lo] = mid - lo
    /\ mid # hi => g[mid] = hi - mid
    /\ \A b \in Outside(lo, hi) : g[b] = span[b]

(* Retile, on any such stretch, cuts as IsRetiled says.                    *)
LEMMA Retiled ==
    ASSUME NEW lo, NEW mid, NEW hi, Layout(span, pool), Stretch(lo, hi), mid \in lo + 1..hi
    PROVE  IsRetiled(Retile(lo, mid, hi), lo, mid, hi)
  BY DEF Retile, Layout, Stretch, Outside, IsRetiled

(* It is a layout again.                                                   *)
LEMMA RetileLayout ==
    ASSUME TilingAssumption,
           NEW lo, NEW mid, NEW hi, Layout(span, pool), Stretch(lo, hi), mid \in lo + 1..hi,
           mid % Align = 0 \/ mid = hi, NEW g, IsRetiled(g, lo, mid, hi)
    PROVE  Layout(g, pool)
  <1> DEFINE old == Outside(lo, hi)
  <1>1. /\ DOMAIN g = old \cup {lo} \cup ({mid} \ {hi})
        /\ g = [a \in DOMAIN g |-> g[a]]
        /\ g[lo] = mid - lo
        /\ mid # hi => g[mid] = hi - mid
        /\ \A b \in old : g[b] = span[b]
    BY Zenon DEF IsRetiled
  <1>2. /\ lo \in Nat /\ mid \in Nat /\ hi \in Nat /\ pool \in Nat
        /\ lo < mid /\ mid <= hi /\ hi <= pool
        /\ lo % Align = 0
    BY DEF Layout, Stretch
  <1>3. \A b \in old :
            /\ b \in Nat /\ span[b] \in Nat \ {0} /\ b % Align = 0
            /\ b + span[b] <= lo \/ hi <= b
            /\ b + span[b] <= pool
            /\ b + span[b] = pool \/ b + span[b] \in DOMAIN span
    BY <1>2, Apart DEF Layout, Stretch, Outside
  <1>4. ASSUME NEW a \in DOMAIN g
        PROVE  /\ g[a] \in Nat \ {0} /\ a % Align = 0 /\ a + g[a] <= pool
               /\ a + g[a] = pool \/ a + g[a] \in DOMAIN g
    BY <1>1, <1>2, <1>3 DEF Outside, Stretch
  <1>5. ASSUME NEW a \in DOMAIN g, NEW b \in DOMAIN g, a < b
        PROVE  ~(b < a + g[a])
    BY <1>1, <1>2, <1>3, <1>5 DEF Outside, Layout
  <1> QED
    BY <1>1, <1>2, <1>3, <1>4, <1>5 DEF Layout, Outside

(***************************************************************************)
(* The steps preserve the invariant                                        *)
(***************************************************************************)

(* A stretch that chunk a alone uses, if anyone does, and behind which no  *)
(* free chunk lies.                                                        *)
Room(a, hi) ==
    /\ Stretch(a, hi)
    /\ \A b \in used : b = a \/ b < a \/ hi <= b
    /\ hi \notin Unused

(* A free chunk is such a stretch, and so is a chunk in use with the free  *)
(* one behind it, if there is one.                                         *)
LEMMA RoomOfFree ==
    ASSUME TilingInv, NEW a \in Unused
    PROVE  Room(a, End(a))
  BY DEF Room, Layout, Stretch, End, TilingInv, Unused, NoneAdjacent

(* A chunk in use and the free chunk behind it: nobody else's bytes.       *)
LEMMA RoomBehind ==
    ASSUME TilingInv, NEW a \in used, End(a) \in Unused
    PROVE  Room(a, End(End(a)))
  <1>1. /\ a \in DOMAIN span /\ Layout(span, pool) /\ used \subseteq DOMAIN span
        /\ End(a) \in DOMAIN span
    BY Zenon DEF TilingInv, Unused
  <1>2. Room(End(a), End(End(a)))
    BY Zenon, RoomOfFree
  <1> QED
    BY <1>1, <1>2 DEF Room, Layout, End, Stretch, Unused

(* So a chunk in use has room up to Ends, and never less than its own.     *)
LEMMA RoomOfUsed ==
    ASSUME TilingInv, NEW a \in used
    PROVE  Room(a, Ends(a)) /\ Ends(a) - a >= span[a]
  <1>1. /\ a \in DOMAIN span /\ Layout(span, pool) /\ used \subseteq DOMAIN span
    BY Zenon DEF TilingInv
  <1>2. CASE End(a) \in Unused
    BY <1>1, <1>2, RoomBehind DEF Ends, Layout, End, Unused
  <1>3. CASE End(a) \notin Unused
    BY <1>1, <1>3 DEF Ends, Room, Stretch, Layout, End
  <1> QED
    BY Zenon, <1>2, <1>3

(* Cutting a stretch for a block preserves the invariant.                  *)
LEMMA CutInv ==
    ASSUME TilingAssumption, TilingInv, NEW a, NEW hi, NEW n \in Requests, Room(a, hi),
           Cut(a, n, hi), blocks' = WithBlock(a, n), used' = used \cup {a}, pool' = pool
    PROVE  TilingInv'
  <1>1. PICK mid \in a + 1..hi :
            /\ mid % Align = 0 \/ mid = hi
            /\ n + HeaderBytes <= mid - a
            /\ span' = Retile(a, mid, hi)
    BY Zenon DEF Cut
  <1>2. Layout(span, pool) /\ Stretch(a, hi)
    BY Zenon DEF TilingInv, Room
  <1>3. IsRetiled(span', a, mid, hi)
    BY Zenon, <1>1, <1>2, Retiled
  <1> DEFINE old == Outside(a, hi)
  <1>4. /\ DOMAIN span' = old \cup {a} \cup ({mid} \ {hi})
        /\ span'[a] = mid - a
        /\ mid # hi => span'[mid] = hi - mid
        /\ \A b \in old : span'[b] = span[b]
    BY Zenon, <1>3 DEF IsRetiled
  <1>5. BlocksInChunks' /\ \A b \in used' : blocks'[b + HeaderBytes] \in Nat
    BY <1>1, <1>2, <1>4 DEF TilingInv, BlocksInChunks, WithBlock, TilingAssumption,
       Layout, Outside, Stretch, Room
  <1> QED
    BY <1>1, <1>2, <1>3, <1>4, <1>5, RetileLayout, Apart DEF TilingInv, Room, Outside,
       NoneAdjacent, Unused, Layout, Stretch

(* A block that stays in its chunk, whatever its new size                  *)
LEMMA ResizeInv ==
    ASSUME TilingAssumption, TilingInv, ResizeBlock, pool' = pool
    PROVE  TilingInv'
  <1>1. PICK a \in used, n \in Requests :
            /\ n + HeaderBytes <= span[a] /\ blocks' = WithBlock(a, n)
            /\ span' = span /\ used' = used
    BY Zenon DEF ResizeBlock
  <1>2. ASSUME NEW b \in used'
        PROVE  /\ blocks'[b + HeaderBytes] \in Nat
               /\ blocks'[b + HeaderBytes] + HeaderBytes <= span'[b]
    BY <1>1 DEF WithBlock, TilingInv, BlocksInChunks, TilingAssumption, Layout
  <1> QED
    BY Zenon, <1>1, <1>2 DEF TilingInv, BlocksInChunks, WithBlock

(* The free chunk that results from freeing a lies between chunks in use   *)
(* or the ends of the pool.                                                *)
LEMMA Merged ==
    ASSUME TilingInv, NEW a \in used, NEW lo \in DOMAIN span, Begins(lo, a)
    PROVE  /\ Room(a, Ends(a))
           /\ Stretch(lo, Ends(a))
           /\ \A b \in used : b = a \/ b < lo \/ Ends(a) <= b
           /\ \A b \in Unused : b + span[b] # lo
  <1>1. Room(a, Ends(a))
    BY Zenon, RoomOfUsed
  <1>2. ASSUME NEW b \in used PROVE b = a \/ b < lo \/ Ends(a) <= b
    BY <1>1 DEF Room, Unused, Layout, TilingInv, Begins, End
  <1> QED
    BY <1>1, <1>2 DEF Begins, End, TilingInv, NoneAdjacent, Unused, Room, Stretch, Layout

(* A chunk that is freed joins the free neighbours on both sides, and the  *)
(* stretch they made up has no free neighbour of its own.                  *)
LEMMA MergeInv ==
    ASSUME TilingAssumption, TilingInv, Release, pool' = pool
    PROVE  TilingInv'
  <1>1. PICK a \in used, lo \in DOMAIN span :
            /\ used' = used \ {a}
            /\ blocks' = [s \in DOMAIN blocks \ {a + HeaderBytes} |-> blocks[s]]
            /\ Begins(lo, a) /\ span' = Retile(lo, Ends(a), Ends(a))
    BY Zenon DEF Release
  <1> DEFINE hi == Ends(a)
             old == Outside(lo, hi)
  <1>2. /\ Room(a, hi) /\ Stretch(lo, hi)
        /\ \A b \in used : b = a \/ b < lo \/ hi <= b
        /\ \A b \in Unused : b + span[b] # lo
    BY Zenon, <1>1, Merged
  <1> HIDE DEF hi
  <1>3. /\ Layout(span, pool) /\ used \subseteq DOMAIN span
        /\ lo \in Nat /\ hi \in Nat /\ lo < hi /\ hi \in lo + 1..hi
    BY <1>2 DEF TilingInv, Stretch, Layout
  <1>4. IsRetiled(span', lo, hi, hi)
    BY Zenon, <1>1, <1>2, <1>3, Retiled DEF hi
  <1>5. Layout(span', pool)
    BY Zenon, <1>2, <1>3, <1>4, RetileLayout
  <1>6. /\ DOMAIN span' = old \cup {lo}
        /\ span'[lo] = hi - lo
        /\ \A b \in old : span'[b] = span[b]
    BY Zenon, <1>4 DEF IsRetiled
  <1>7. used' \subseteq old
    BY Zenon, <1>1, <1>2, <1>3 DEF Outside
  <1>8. NoneAdjacent(span', used')
    <2> SUFFICES ASSUME NEW b \in DOMAIN span' \ used',
                        b + span'[b] \in DOMAIN span' \ used'
                 PROVE  FALSE
      BY Zenon DEF NoneAdjacent
    <2>1. \A c \in old \ used' : c \in Unused
      BY <1>1, <1>2, <1>3 DEF Outside, Unused, Room, Stretch, Layout, Begins, End
    <2>2. CASE b = lo
      BY <1>2, <1>3, <1>6, <2>1, <2>2 DEF Room
    <2>3. CASE b \in old
      BY Zenon, <1>2, <1>6, <2>1, <2>3 DEF TilingInv, NoneAdjacent, Unused
    <2> QED
      BY Zenon, <1>6, <2>2, <2>3
  <1> QED
    BY <1>1, <1>3, <1>5, <1>6, <1>7, <1>8 DEF TilingInv, Layout, BlocksInChunks,
       TilingAssumption

(* No operation of the heap leaves a gap, an overlap or two adjacent free  *)
(* chunks.                                                                 *)
LEMMA TilingStepInv ==
    ASSUME TilingAssumption, TilingInv, [TilingNext]_tilingVars
    PROVE  TilingInv'
  <1>1. ASSUME Carve, pool' = pool PROVE TilingInv'
    BY Zenon, <1>1, RoomOfFree, CutInv DEF Carve
  <1>2. ASSUME Grow, pool' = pool PROVE TilingInv'
    BY Zenon, <1>2, RoomBehind, CutInv DEF Grow
  <1>3. CASE UNCHANGED tilingVars
    BY Zenon, <1>3 DEF tilingVars, TilingInv, BlocksInChunks
  <1> QED
    BY Zenon, <1>1, <1>2, <1>3, ResizeInv, MergeInv DEF TilingNext

(* A new pool is a single free chunk.                                      *)
LEMMA TilingInitInv ==
    ASSUME TilingAssumption, TilingInit
    PROVE  TilingInv
  BY DEF TilingInv, BlocksInChunks, TilingInit, Layout, TilingAssumption, NoneAdjacent

(* The invariant holds throughout.                                         *)
THEOREM TilingInductive ==
    ASSUME TilingAssumption
    PROVE  TilingSpec => []TilingInv
  <1>1. TilingInit => TilingInv
    BY Zenon, TilingInitInv
  <1>2. TilingInv /\ [TilingNext]_tilingVars => TilingInv'
    BY Zenon, TilingStepInv
  <1> QED
    BY <1>1, <1>2, PTL DEF TilingSpec

(* Whatever is allocated, resized and freed, in whatever order, the chunks *)
(* of the ems heap cover its pool without gap or overlap, gc_free_vo       *)
(* leaves no two free chunks side by side, the blocks lie in the chunks in *)
(* use, and a pool whose blocks are all freed is one chunk again.          *)
THEOREM TilingSafe ==
    ASSUME TilingAssumption
    PROVE  TilingSpec => [](Tiled /\ BlocksInChunks /\ WholeWhenUnused)
  <1>1. ASSUME TilingInv PROVE Tiled
    BY Zenon, <1>1 DEF TilingInv, Layout, NoneAdjacent, Tiled, End, Unused
  <1>2. ASSUME TilingInv, used = {} PROVE span = [a \in {0} |-> pool]
    <2>1. /\ Layout(span, pool) /\ 0 \in DOMAIN span /\ span[0] \in Nat
          /\ 0 + span[0] \notin DOMAIN span
      BY Zenon, <1>2 DEF TilingInv, Layout, NoneAdjacent
    <2>2. ASSUME NEW b \in DOMAIN span PROVE b = 0
      BY <2>1, <2>2 DEF Layout
    <2>3. DOMAIN span = {0}
      BY Zenon, <2>1, <2>2
    <2> QED
      BY <2>1, <2>3 DEF Layout
  <1>3. TilingInv => Tiled /\ BlocksInChunks /\ WholeWhenUnused
    BY Zenon, <1>1, <1>2 DEF TilingInv, WholeWhenUnused
  <1> QED
    BY <1>3, TilingInductive, PTL

(***************************************************************************)
(* The blocks are those of an Allocator                                    *)
(***************************************************************************)

(* A block of n bytes in chunk a, with the room behind it, is clear of the *)
(* blocks of the other chunks.                                             *)
LEMMA BlockFits ==
    ASSUME TilingAssumption, TilingInv, NEW a, NEW hi, NEW n \in Nat, Room(a, hi),
           n + HeaderBytes <= hi - a,
           NEW others, DOMAIN others \subseteq DOMAIN blocks \ {a + HeaderBytes},
           \A t \in DOMAIN others : others[t] = blocks[t]
    PROVE  Abstract!Fits(a + HeaderBytes, n, others)
  <1>1. /\ a \in DOMAIN span /\ Layout(span, pool) /\ used \subseteq DOMAIN span
        /\ a \in Nat /\ hi \in Nat /\ hi <= pool /\ pool \in Nat /\ HeaderBytes \in Nat
    BY Zenon DEF TilingInv, Room, Stretch, Layout, TilingAssumption
  <1>2. ASSUME NEW t \in DOMAIN others
        PROVE  ~Abstract!Overlap(a + HeaderBytes - HeaderBytes, n + HeaderBytes,
                                 t - HeaderBytes, others[t] + HeaderBytes)
    BY <1>1 DEF TilingInv, BlocksInChunks, Layout, Room, Abstract!Overlap
  <1> QED
    BY <1>1, <1>2 DEF Abstract!Fits, Abstract!Overlap

(* Taking a free chunk allocates, a block that changes its size in place   *)
(* is resized, and releasing a chunk frees its block.                      *)
LEMMA CarveAllocates ==
    ASSUME TilingAssumption, TilingInv, Carve
    PROVE  Abstract!Allocate
  <1>1. PICK a \in Unused, n \in Requests :
            blocks' = WithBlock(a, n) /\ Cut(a, n, End(a))
    BY Zenon DEF Carve
  <1>2. PICK mid \in a + 1..End(a) : n + HeaderBytes <= mid - a
    BY Zenon, <1>1 DEF Cut
  <1>3. /\ a \in DOMAIN span /\ a \notin used /\ a \in Nat /\ a % Align = 0 /\ n \in Nat
        /\ HeaderBytes \in Nat /\ End(a) \in Nat /\ \A b \in used : b \in Nat
    BY Zenon DEF Unused, TilingInv, Layout, TilingAssumption, End
  <1>4. a + HeaderBytes \notin DOMAIN blocks
    BY <1>3 DEF TilingInv, BlocksInChunks
  <1>5. Abstract!Fits(a + HeaderBytes, n, blocks)
    <2>1. n + HeaderBytes <= End(a) - a
      BY <1>2, <1>3
    <2>2. Room(a, End(a))
      BY Zenon, RoomOfFree
    <2> QED
      BY Zenon, <1>3, <1>4, <2>1, <2>2, BlockFits
  <1>6. a + HeaderBytes \in Starts
    BY <1>3 DEF Starts
  <1> QED
    BY Zenon, <1>1, <1>4, <1>5, <1>6 DEF Abstract!Allocate, Abstract!Add, WithBlock

(* Its size changed in place or into the free chunk behind it, a block is  *)
(* resized.                                                                *)
LEMMA ResizeResizes ==
    ASSUME TilingAssumption, TilingInv, ResizeBlock \/ Grow
    PROVE  Abstract!Resize
  <1>1. PICK a \in used, n \in Requests :
            /\ blocks' = WithBlock(a, n)
            /\ \/ n + HeaderBytes <= span[a]
               \/ End(a) \in Unused /\ Cut(a, n, End(End(a)))
    BY Zenon DEF ResizeBlock, Grow
  <1>2. /\ a \in DOMAIN span /\ a \in Nat /\ n \in Nat /\ HeaderBytes \in Nat
        /\ a + HeaderBytes \in DOMAIN blocks
    BY Zenon DEF TilingInv, Layout, TilingAssumption, BlocksInChunks
  <1> DEFINE others == Abstract!Restrict(blocks, DOMAIN blocks \ {a + HeaderBytes})
  <1>3. /\ DOMAIN others = DOMAIN blocks \ {a + HeaderBytes}
        /\ \A t \in DOMAIN others : others[t] = blocks[t]
    BY Zenon DEF Abstract!Restrict
  <1> HIDE DEF others
  <1>4. Abstract!Fits(a + HeaderBytes, n, others)
    <2>1. CASE n + HeaderBytes <= span[a]
      <3>1. Room(a, Ends(a)) /\ Ends(a) - a >= span[a] /\ Ends(a) \in Nat /\ span[a] \in Nat
        BY Zenon, <1>2, RoomOfUsed DEF TilingInv, Layout, Room, Stretch
      <3>2. n + HeaderBytes <= Ends(a) - a
        BY <1>2, <2>1, <3>1
      <3> QED
        BY Zenon, <1>2, <1>3, <3>1, <3>2, BlockFits
    <2>2. CASE End(a) \in Unused /\ Cut(a, n, End(End(a)))
      <3>1. Room(a, End(End(a))) /\ End(End(a)) \in Nat
        BY Zenon, <2>2, RoomBehind DEF Room, Stretch
      <3>2. n + HeaderBytes <= End(End(a)) - a
        BY <1>2, <2>2, <3>1 DEF Cut
      <3> QED
        BY Zenon, <1>2, <1>3, <3>1, <3>2, BlockFits
    <2> QED
      BY Zenon, <1>1, <2>1, <2>2
  <1> QED
    BY Zenon, <1>1, <1>2, <1>4 DEF Abstract!Resize, Abstract!Add, WithBlock, others

(* Freeing a chunk frees its block and no other.                           *)
LEMMA ReleaseFrees ==
    ASSUME TilingInv, Release
    PROVE  Abstract!Free
  <1>1. PICK a \in used :
            blocks' = [s \in DOMAIN blocks \ {a + HeaderBytes} |-> blocks[s]]
    BY Zenon DEF Release
  <1> QED
    BY Zenon, <1>1 DEF Abstract!Free, Abstract!Restrict, TilingInv, BlocksInChunks

(* The users of a heap made of chunks rely on what Allocator says: blocks  *)
(* that never overlap, have the room asked for and the alignment promised, *)
(* stay where they are and vanish only when they are freed.                *)
THEOREM TilingRefinement ==
    ASSUME TilingAssumption
    PROVE  TilingSpec => Abstract!Spec
  <1>1. TilingInit => Abstract!Init
    BY Zenon DEF TilingInit, Abstract!Init
  <1>2. ASSUME TilingInv, [TilingNext]_tilingVars
        PROVE  [Abstract!Next]_<<pool, blocks>>
    BY Zenon, <1>2, CarveAllocates, ResizeResizes, ReleaseFrees DEF tilingVars, TilingNext,
       Abstract!Next
  <1> QED
    BY <1>1, <1>2, TilingInductive, PTL DEF TilingSpec, Abstract!Spec

(***************************************************************************)
(* Wait and notify                                                         *)
(***************************************************************************)

WaitNode == [address : Addresses, status : {"S_WAITING", "S_NOTIFIED"},
             left : {Forever} \cup Nat, counted : Nat]

(* Nodes and lists are of threads, and wait_map is a function *)
WaitTypeOK ==
    /\ DOMAIN node \subseteq Threads /\ node \in [DOMAIN node -> WaitNode]
    /\ wait_map \in [DOMAIN wait_map -> Seq(Threads)]
    /\ returned.counted \in Nat

(* The status of a node tells whether a notification has counted it *)
StatusIsTheCount ==
    \A t \in DOMAIN node : node[t].status = "S_WAITING" <=> node[t].counted = 0

WaitInv == WaitTypeOK /\ WaitListsAreExact /\ StatusIsTheCount /\ WokenMeansCounted

-----------------------------------------------------------------------------
(* The members of a list, by their places. *)
LEMMA Members ==
    ASSUME NEW list \in Seq(Threads), NEW S,
           \A k \in 1 .. Len(list) : list[k] \in S,
           \A x \in S : \E k \in 1 .. Len(list) : list[k] = x
    PROVE  Range(list) = S
  <1>1. DOMAIN list = 1 .. Len(list)
    OBVIOUS
  <1> QED
    BY Zenon, <1>1 DEF Range

(* A part of a list. *)
LEMMA Part ==
    ASSUME NEW list, NEW m \in Int, NEW n \in Int, \A k \in m .. n : list[k] \in Threads
    PROVE  /\ SubSeq(list, m, n) \in Seq(Threads)
           /\ Len(SubSeq(list, m, n)) = IF m <= n THEN n - m + 1 ELSE 0
           /\ \A k \in 1 .. n - m + 1 : SubSeq(list, m, n)[k] = list[m + k - 1]
  OBVIOUS

(* bh_list_insert adds a node that is not in the list. *)
LEMMA ListInsert ==
    ASSUME NEW list \in Seq(Threads), IsInjective(list), NEW t \in Threads \ Range(list)
    PROVE  /\ <<t>> \o list \in Seq(Threads)
           /\ Range(<<t>> \o list) = Range(list) \cup {t}
           /\ IsInjective(<<t>> \o list)
  <1> DEFINE new == <<t>> \o list
  <1>0. Len(list) \in Nat /\ DOMAIN list = 1 .. Len(list)
    OBVIOUS
  <1>1. new \in Seq(Threads) /\ Len(new) = Len(list) + 1 /\ DOMAIN new = 1 .. Len(list) + 1
    OBVIOUS
  <1>2. new[1] = t /\ \A i \in 1 .. Len(list) : new[i + 1] = list[i]
    OBVIOUS
  <1>3. \A i \in 2 .. Len(list) + 1 : i - 1 \in 1 .. Len(list) /\ new[i] = list[i - 1]
    BY <1>2
  <1> HIDE DEF new
  <1>4. Range(new) = Range(list) \cup {t}
    <2>1. \A i \in 1 .. Len(new) : new[i] \in Range(list) \cup {t}
      BY <1>0, <1>1, <1>2, <1>3 DEF Range
    <2>2. \A x \in Range(list) \cup {t} : \E i \in 1 .. Len(new) : new[i] = x
      <3> TAKE x \in Range(list) \cup {t}
      <3>1. CASE x = t
        BY <1>0, <1>1, <1>2, <3>1
      <3>2. CASE x # t
        <4>1. PICK k \in 1 .. Len(list) : list[k] = x
          BY Zenon, <1>0, <3>2 DEF Range
        <4>2. k + 1 \in 1 .. Len(new) /\ new[k + 1] = x
          BY <1>0, <1>1, <1>2, <4>1
        <4> QED
          BY Zenon, <4>2
      <3> QED
        BY Zenon, <3>1, <3>2
    <2> QED
      BY Zenon, <1>1, <2>1, <2>2, Members
  <1>5. IsInjective(new)
    <2> SUFFICES ASSUME NEW j \in 1 .. Len(list) + 1, NEW k \in 1 .. Len(list) + 1,
                        new[j] = new[k], j # k
                 PROVE  FALSE
      BY Zenon, <1>1 DEF IsInjective
    <2>1. \A i \in 1 .. Len(list) : list[i] # t
      BY Zenon, <1>0 DEF Range
    <2>2. CASE j = 1 \/ k = 1
      BY <1>0, <1>2, <1>3, <2>1, <2>2
    <2>3. CASE j # 1 /\ k # 1
      <3>1. /\ j - 1 \in 1 .. Len(list) /\ k - 1 \in 1 .. Len(list)
            /\ list[j - 1] = list[k - 1] /\ j - 1 # k - 1
        BY <1>0, <1>3, <2>3
      <3> QED
        BY Zenon, <1>0, <3>1 DEF IsInjective
    <2> QED
      BY Zenon, <2>2, <2>3
  <1> QED
    BY Zenon, <1>1, <1>4, <1>5 DEF new

(* bh_list_remove takes a node out of the list and leaves the others. *)
LEMMA ListRemove ==
    ASSUME NEW list \in Seq(Threads), IsInjective(list), NEW t \in Range(list)
    PROVE  /\ bh_list_remove(list, t) \in Seq(Threads)
           /\ Range(bh_list_remove(list, t)) = Range(list) \ {t}
           /\ IsInjective(bh_list_remove(list, t))
  <1> DEFINE n == Len(list)
             i == CHOOSE k \in DOMAIN list : list[k] = t
             new == bh_list_remove(list, t)
  <1>1. n \in Nat /\ DOMAIN list = 1 .. n /\ i \in 1 .. n /\ list[i] = t
    BY DEF Range
  <1>2. new = SubSeq(list, 1, i - 1) \o SubSeq(list, i + 1, n)
    BY Zenon DEF bh_list_remove
  <1> HIDE DEF i, new
  <1> DEFINE head == SubSeq(list, 1, i - 1)
             tail == SubSeq(list, i + 1, n)
  <1>3. /\ head \in Seq(Threads) /\ Len(head) = i - 1
        /\ \A k \in 1 .. i - 1 : head[k] = list[k]
    BY <1>1
  <1>4. /\ tail \in Seq(Threads) /\ Len(tail) = n - i
        /\ \A k \in 1 .. n - i : tail[k] = list[k + i]
    <2>1. i + 1 \in Int /\ n \in Int /\ \A k \in i + 1 .. n : list[k] \in Threads
      BY <1>1
    <2>2. tail \in Seq(Threads)
      BY Zenon, <2>1, Part
    <2>3. Len(tail) = IF i + 1 <= n THEN n - (i + 1) + 1 ELSE 0
      BY Zenon, <2>1, Part
    <2>4. ASSUME NEW k \in 1 .. n - (i + 1) + 1 PROVE tail[k] = list[(i + 1) + k - 1]
      BY Zenon, <2>1, Part
    <2> HIDE DEF tail, n
    <2>5. Len(tail) = n - i
      BY <1>1, <2>3
    <2>6. ASSUME NEW k \in 1 .. n - i PROVE tail[k] = list[k + i]
      <3>1. k \in 1 .. n - (i + 1) + 1 /\ (i + 1) + k - 1 = k + i
        BY <1>1
      <3> QED
        BY Zenon, <2>4, <3>1
    <2> QED
      BY Zenon, <2>2, <2>5, <2>6
  <1>5. new = head \o tail
    BY Zenon, <1>2
  <1> HIDE DEF head, tail
  <1>6. new \in Seq(Threads) /\ Len(new) = n - 1 /\ DOMAIN new = 1 .. n - 1
    <2>1. head \o tail \in Seq(Threads) /\ Len(head \o tail) = Len(head) + Len(tail)
      BY <1>3, <1>4
    <2>2. new \in Seq(Threads) /\ Len(new) = n - 1
      BY <1>1, <1>3, <1>4, <1>5, <2>1
    <2> QED
      BY <2>2
  <1>7. \A k \in 1 .. n - 1 : new[k] = IF k < i THEN list[k] ELSE list[k + 1]
    <2> TAKE k \in 1 .. n - 1
    <2>1. CASE k < i
      BY <1>1, <1>3, <1>4, <1>5, <2>1
    <2>2. CASE k >= i
      <3>1. new[k] = tail[k - (i - 1)] /\ k - (i - 1) \in 1 .. n - i
        BY <1>1, <1>3, <1>4, <1>5, <2>2
      <3> QED
        BY <1>1, <1>4, <2>2, <3>1
    <2> QED
      BY <1>1, <2>1, <2>2
  <1>8. \A x \in Range(list) \ {t} : \E k \in 1 .. Len(new) : new[k] = x
    <2> TAKE x \in Range(list) \ {t}
    <2>1. PICK k \in 1 .. n : list[k] = x
      BY Zenon, <1>1 DEF Range
    <2>2. CASE k < i
      BY <1>1, <1>6, <1>7, <2>1, <2>2
    <2>3. CASE k > i
      <3>1. k - 1 \in 1 .. n - 1 /\ new[k - 1] = list[k]
        BY <1>1, <1>7, <2>3
      <3> QED
        BY Zenon, <1>6, <2>1, <3>1
    <2> QED
      BY <1>1, <2>1, <2>2, <2>3
  <1>9. \A k \in 1 .. Len(new) : new[k] \in Range(list) \ {t}
    <2>1. \A k \in 1 .. n \ {i} : list[k] \in Range(list) \ {t}
      BY Zenon, <1>1 DEF Range, IsInjective
    <2> QED
      BY <1>1, <1>6, <1>7, <2>1
  <1>10. Range(new) = Range(list) \ {t}
    BY Zenon, <1>6, <1>8, <1>9, Members
  <1>11. IsInjective(new)
    <2> SUFFICES ASSUME NEW j \in 1 .. n - 1, NEW k \in 1 .. n - 1, new[j] = new[k] PROVE j = k
      BY Zenon, <1>6 DEF IsInjective
    <2> QED
      BY <1>1, <1>7 DEF IsInjective
  <1> QED
    BY Zenon, <1>6, <1>10, <1>11 DEF new

-----------------------------------------------------------------------------
(* A thread that begins to wait is in the list of its address, and in no   *)
(* other.                                                                  *)
LEMMA AcquireInv ==
    ASSUME WaitInv, NEW t \in Threads \ DOMAIN node, NEW a \in Addresses,
           NEW timeout \in Timeouts, wait_map' = acquire_wait_info(a, t),
           node' = NewNode(t, a, timeout), UNCHANGED returned
    PROVE  WaitInv'
  <1> DEFINE list == IF a \in DOMAIN wait_map THEN wait_map[a] ELSE <<>>
             Here(b) == {u \in DOMAIN node : node[u].address = b}
  <1>1. list \in Seq(Threads) /\ IsInjective(list) /\ Range(list) = Here(a)
    <2>1. CASE a \in DOMAIN wait_map
      BY Zenon, <2>1 DEF WaitInv, WaitTypeOK, WaitListsAreExact
    <2>2. CASE a \notin DOMAIN wait_map
      <3>1. Here(a) = {}
        BY Zenon, <2>2 DEF WaitInv, WaitListsAreExact
      <3>2. list = <<>>
        BY Zenon, <2>2
      <3>3. <<>> \in Seq(Threads) /\ Range(<<>>) = {} /\ IsInjective(<<>>)
        BY DEF Range, IsInjective
      <3> QED
        BY Zenon, <3>1, <3>2, <3>3
    <2> QED
      BY Zenon, <2>1, <2>2
  <1>2. /\ <<t>> \o list \in Seq(Threads) /\ IsInjective(<<t>> \o list)
        /\ Range(<<t>> \o list) = Here(a) \cup {t}
    BY Zenon, <1>1, ListInsert
  <1>3. /\ DOMAIN wait_map' = DOMAIN wait_map \cup {a} /\ wait_map'[a] = <<t>> \o list
        /\ \A b \in DOMAIN wait_map \ {a} : wait_map'[b] = wait_map[b]
    BY Zenon DEF acquire_wait_info
  <1>4. /\ DOMAIN node' = DOMAIN node \cup {t} /\ \A u \in DOMAIN node : node'[u] = node[u]
        /\ node'[t] = [address |-> a, status |-> "S_WAITING", left |-> timeout, counted |-> 0]
    BY Zenon DEF NewNode
  <1> HIDE DEF list
  <1>5. WaitTypeOK'
    <2>1. wait_map' \in [DOMAIN wait_map' -> Seq(Threads)]
      BY Zenon, <1>2, <1>3 DEF WaitInv, WaitTypeOK, acquire_wait_info
    <2>2. node' \in [DOMAIN node' -> WaitNode]
      BY Zenon, <1>4, SharedMemoryAssumption DEF WaitInv, WaitTypeOK, NewNode, WaitNode
    <2> QED
      BY Zenon, <1>4, <2>1, <2>2 DEF WaitInv, WaitTypeOK
  <1>6. WaitListsAreExact'
    <2>1. DOMAIN wait_map' = {node'[u].address : u \in DOMAIN node'}
      BY <1>3, <1>4 DEF WaitInv, WaitListsAreExact
    <2>2. ASSUME NEW b \in DOMAIN wait_map'
          PROVE  /\ Range(wait_map'[b]) = {u \in DOMAIN node' : node'[u].address = b}
                 /\ IsInjective(wait_map'[b])
      <3>1. CASE b = a
        <4>1. {u \in DOMAIN node' : node'[u].address = b} = Here(a) \cup {t}
          BY <1>4, <3>1
        <4> QED
          BY Zenon, <1>2, <1>3, <3>1, <4>1
      <3>2. CASE b # a
        <4>1. b \in DOMAIN wait_map /\ wait_map'[b] = wait_map[b]
          BY Zenon, <1>3, <3>2
        <4>2. {u \in DOMAIN node' : node'[u].address = b} = Here(b)
          BY <1>4, <3>2
        <4> QED
          BY Zenon, <4>1, <4>2 DEF WaitInv, WaitListsAreExact
      <3> QED
        BY Zenon, <3>1, <3>2
    <2> QED
      BY Zenon, <2>1, <2>2 DEF WaitListsAreExact
  <1>7. StatusIsTheCount'
    BY <1>4 DEF WaitInv, StatusIsTheCount
  <1> QED
    BY Zenon, <1>5, <1>6, <1>7 DEF WaitInv, WokenMeansCounted

(* A thread that leaves takes its node out of its list, and the list out   *)
(* of the map when it was the last; it says "woken" if it was counted.     *)
LEMMA ListReleaseInv ==
    ASSUME WaitInv, NEW t \in DOMAIN node,
           wait_map' = ReleaseWaitInfo(node[t].address, t),
           node' = Restrict(node, DOMAIN node \ {t}),
           Returns(IF node[t].status = "S_WAITING" THEN "timed-out" ELSE "woken", node[t].counted)
    PROVE  WaitInv'
  <1> DEFINE a == node[t].address
             list == bh_list_remove(wait_map[a], t)
             Here(b) == {u \in DOMAIN node : node[u].address = b}
  <1>1. /\ a \in DOMAIN wait_map /\ wait_map[a] \in Seq(Threads) /\ IsInjective(wait_map[a])
        /\ Range(wait_map[a]) = Here(a) /\ t \in Here(a)
    BY Zenon DEF WaitInv, WaitTypeOK, WaitListsAreExact
  <1>2. list \in Seq(Threads) /\ IsInjective(list) /\ Range(list) = Here(a) \ {t}
    BY Zenon, <1>1, ListRemove
  <1>3. list = <<>> <=> Here(a) = {t}
    <2>1. list = <<>> => Range(list) = {}
      BY DEF Range
    <2>2. list # <<>> => list[1] \in Range(list)
      BY <1>2 DEF Range
    <2> QED
      BY Zenon, <1>1, <1>2, <2>1, <2>2
  <1>4. /\ DOMAIN node' = DOMAIN node \ {t}
        /\ \A u \in DOMAIN node' : node'[u] = node[u]
    BY Zenon DEF Restrict
  <1>5. wait_map' = IF list = <<>> THEN Restrict(wait_map, DOMAIN wait_map \ {a})
                    ELSE [wait_map EXCEPT ![a] = list]
    BY Zenon DEF ReleaseWaitInfo
  <1>6. /\ DOMAIN wait_map' = IF list = <<>> THEN DOMAIN wait_map \ {a} ELSE DOMAIN wait_map
        /\ \A b \in DOMAIN wait_map' : wait_map'[b] = IF b = a THEN list ELSE wait_map[b]
    <2> HIDE DEF a, list
    <2> QED
      BY Zenon, <1>1, <1>5 DEF Restrict, WaitInv, WaitTypeOK
  <1> HIDE DEF list
  <1>7. WaitTypeOK'
    <2>1. wait_map' \in [DOMAIN wait_map' -> Seq(Threads)]
      <3> HIDE DEF a
      <3> QED
        BY Zenon, <1>2, <1>5, <1>6 DEF WaitInv, WaitTypeOK, Restrict
    <2>2. node' \in [DOMAIN node' -> WaitNode] /\ returned'.counted \in Nat
      BY Zenon, <1>4 DEF WaitInv, WaitTypeOK, Restrict, Returns, WaitNode
    <2> QED
      BY Zenon, <1>4, <2>1, <2>2 DEF WaitInv, WaitTypeOK
  <1>8. WaitListsAreExact'
    <2>1. DOMAIN wait_map' = {node'[u].address : u \in DOMAIN node'}
      <3>1. DOMAIN wait_map = {node[u].address : u \in DOMAIN node}
        BY Zenon DEF WaitInv, WaitListsAreExact
      <3>2. {node'[u].address : u \in DOMAIN node'} = {node[u].address : u \in DOMAIN node \ {t}}
        BY ZenonT(30), <1>4
      <3>3. CASE list = <<>>
        <4>1. \A u \in DOMAIN node \ {t} : node[u].address # a
          BY Zenon, <1>3, <3>3
        <4>2. {node[u].address : u \in DOMAIN node \ {t}} =
              {node[u].address : u \in DOMAIN node} \ {a}
          <5> HIDE DEF a
          <5>1. node[t].address = a
            BY Zenon, <1>1
          <5> QED
            BY Zenon, <1>1, <4>1, <5>1
        <4> QED
          BY Zenon, <1>6, <3>1, <3>2, <3>3, <4>2
      <3>4. CASE list # <<>>
        <4>1. PICK u \in DOMAIN node \ {t} : node[u].address = a
          BY Zenon, <1>1, <1>3, <3>4
        <4>2. {node[v].address : v \in DOMAIN node \ {t}} = {node[v].address : v \in DOMAIN node}
          BY Zenon, <4>1
        <4> QED
          BY Zenon, <1>6, <3>1, <3>2, <3>4, <4>2
      <3> QED
        BY Zenon, <3>3, <3>4
    <2>2. ASSUME NEW b \in DOMAIN wait_map'
          PROVE  /\ Range(wait_map'[b]) = {u \in DOMAIN node' : node'[u].address = b}
                 /\ IsInjective(wait_map'[b])
      <3>1. CASE b = a
        <4>1. {u \in DOMAIN node' : node'[u].address = b} = Here(a) \ {t}
          BY Zenon, <1>4, <3>1
        <4> QED
          BY Zenon, <1>2, <1>6, <3>1, <4>1
      <3>2. CASE b # a
        <4>1. b \in DOMAIN wait_map /\ wait_map'[b] = wait_map[b]
          BY Zenon, <1>6, <3>2
        <4>2. {u \in DOMAIN node' : node'[u].address = b} = Here(b)
          BY Zenon, <1>4, <3>2
        <4> QED
          BY Zenon, <4>1, <4>2 DEF WaitInv, WaitListsAreExact
      <3> QED
        BY Zenon, <3>1, <3>2
    <2> QED
      BY Zenon, <2>1, <2>2 DEF WaitListsAreExact
  <1>9. StatusIsTheCount'
    BY Zenon, <1>4 DEF WaitInv, StatusIsTheCount
  <1>10. WokenMeansCounted'
    BY DEF WaitInv, WaitTypeOK, WaitNode, StatusIsTheCount, WokenMeansCounted, Returns
  <1> QED
    BY Zenon, <1>7, <1>8, <1>9, <1>10 DEF WaitInv

(* What a notification does to one node *)
Notified(n) == [n EXCEPT !.status = "S_NOTIFIED", !.counted = @ + 1]

(* It stays a node of its list and now counts a notification.              *)
LEMMA NodeNotified ==
    ASSUME NEW n \in WaitNode
    PROVE  /\ Notified(n) \in WaitNode /\ Notified(n).address = n.address
           /\ Notified(n).status = "S_NOTIFIED" /\ Notified(n).counted # 0
  <1>1. n.counted \in Nat /\ n.address \in Addresses /\ n.left \in {Forever} \cup Nat
    BY Zenon DEF WaitNode
  <1>2. ASSUME NEW m, m = [n EXCEPT !.status = "S_NOTIFIED", !.counted = @ + 1]
        PROVE  m = [address |-> n.address, status |-> "S_NOTIFIED", left |-> n.left,
                    counted |-> n.counted + 1]
    BY Zenon, <1>2 DEF WaitNode
  <1>3. Notified(n) = [address |-> n.address, status |-> "S_NOTIFIED", left |-> n.left,
                       counted |-> n.counted + 1]
    BY Zenon, <1>2 DEF Notified
  <1> QED
    BY <1>1, <1>3 DEF WaitNode

(* A notification marks and counts the same nodes, and no list changes. *)
LEMMA NotifyInv ==
    ASSUME WaitInv, NEW t, NEW a, NEW count, AtomicNotify(t, a, count)
    PROVE  WaitInv'
  <1> DEFINE woken == notify_wait_list(a, count)
  <1>1. /\ DOMAIN node' = DOMAIN node /\ UNCHANGED <<wait_map, returned>>
        /\ \A u \in DOMAIN node :
              node'[u] = IF u \in woken THEN Notified(node[u]) ELSE node[u]
    BY Zenon DEF AtomicNotify, Notified
  <1> HIDE DEF woken
  <1>2. ASSUME NEW u \in DOMAIN node
        PROVE  /\ node'[u] \in WaitNode /\ node'[u].address = node[u].address
               /\ node'[u].status = "S_WAITING" <=> node'[u].counted = 0
    <2>1. node[u] \in WaitNode /\ (node[u].status = "S_WAITING" <=> node[u].counted = 0)
      BY Zenon DEF WaitInv, WaitTypeOK, StatusIsTheCount
    <2>2. CASE u \in woken
      <3>1. node'[u] = Notified(node[u])
        BY Zenon, <1>1, <2>2
      <3>2. /\ node'[u] \in WaitNode /\ node'[u].address = node[u].address
            /\ node'[u].status = "S_NOTIFIED" /\ node'[u].counted # 0
        BY ZenonT(30), <2>1, <3>1, NodeNotified
      <3> QED
        BY Zenon, <3>2
    <2>3. CASE u \notin woken
      BY Zenon, <1>1, <2>1, <2>3
    <2> QED
      BY Zenon, <2>2, <2>3
  <1>3. WaitTypeOK'
    <2>1. node' \in [DOMAIN node' -> WaitNode]
      BY Zenon, <1>1, <1>2 DEF AtomicNotify
    <2> QED
      BY Zenon, <1>1, <2>1 DEF WaitInv, WaitTypeOK
  <1>4. WaitListsAreExact'
    <2>1. /\ {node'[u].address : u \in DOMAIN node'} = {node[u].address : u \in DOMAIN node}
          /\ \A b : {u \in DOMAIN node' : node'[u].address = b} =
                    {u \in DOMAIN node : node[u].address = b}
      BY Zenon, <1>1, <1>2
    <2> QED
      BY Zenon, <1>1, <2>1 DEF WaitInv, WaitListsAreExact
  <1> QED
    BY Zenon, <1>1, <1>2, <1>3, <1>4 DEF WaitInv, StatusIsTheCount, WokenMeansCounted

(* What touches neither nodes nor lists preserves the invariant. *)
LEMMA WaitStutter == WaitInv /\ UNCHANGED <<wait_map, node, returned>> => WaitInv'
  BY DEF WaitInv, WaitTypeOK, WaitListsAreExact, StatusIsTheCount, WokenMeansCounted

(* A wait that does not sleep returns neither "woken" nor "timed-out". *)
LEMMA NoSleepInv ==
    ASSUME WaitInv, UNCHANGED <<wait_map, node>>, NEW r \in {"not-equal", "exception"},
           Returns(r, 0)
    PROVE  WaitInv'
  BY Zenon DEF WaitInv, WaitTypeOK, WaitListsAreExact, StatusIsTheCount, WokenMeansCounted, Returns

(* wasm_runtime_atomic_wait up to its first sleep *)
LEMMA WaitBeginsInv ==
    ASSUME WaitInv, NEW t \in Threads, NEW a \in Addresses, NEW v, NEW timeout \in Timeouts,
           AtomicWait(t, a, v, timeout)
    PROVE  WaitInv'
  <1>1. CASE mem[a] # v
    BY Zenon, <1>1, NoSleepInv DEF AtomicWait
  <1>2. CASE mem[a] = v
    BY Zenon, <1>2, AcquireInv DEF AtomicWait, Waiting
  <1> QED
    BY Zenon, <1>1, <1>2

(* ... and from one sleep to the next, or to its end *)
LEMMA CondWakeInv ==
    ASSUME WaitInv, NEW t, CondWake(t)
    PROVE  WaitInv'
  <1>1. CASE t \in terminated \/ LastSlice(t) \/ node[t].status = "S_NOTIFIED"
    <2>1. /\ t \in DOMAIN node /\ wait_map' = ReleaseWaitInfo(node[t].address, t)
          /\ node' = Restrict(node, DOMAIN node \ {t})
          /\ Returns(IF node[t].status = "S_WAITING" THEN "timed-out" ELSE "woken",
                     node[t].counted)
      BY Zenon, <1>1 DEF CondWake, Waiting, LastSlice
    <2> QED
      BY Zenon, <2>1, ListReleaseInv
  <1>2. CASE ~(t \in terminated \/ LastSlice(t) \/ node[t].status = "S_NOTIFIED")
    <2>1. CASE node[t].left # Forever
      <3>1. /\ t \in DOMAIN node /\ node' = [node EXCEPT ![t].left = @ - 1]
            /\ UNCHANGED <<wait_map, returned>>
        BY Zenon, <1>2, <2>1 DEF CondWake, Waiting
      <3>2. node[t] \in WaitNode /\ node[t].left \in Nat /\ ~(node[t].left <= 1)
        BY Zenon, <1>2, <2>1, <3>1 DEF WaitInv, WaitTypeOK, WaitNode, LastSlice
      <3>3. /\ DOMAIN node' = DOMAIN node
            /\ \A u \in DOMAIN node : /\ node'[u].address = node[u].address
                                      /\ node'[u].status = node[u].status
                                      /\ node'[u].counted = node[u].counted
        BY Zenon, <3>1, <3>2 DEF WaitInv, WaitTypeOK, WaitNode
      <3>4. node' \in [DOMAIN node' -> WaitNode]
        BY <3>1, <3>2 DEF WaitInv, WaitTypeOK, WaitNode
      <3> QED
        BY <3>1, <3>3, <3>4 DEF WaitInv, WaitTypeOK, WaitListsAreExact, StatusIsTheCount,
                                WokenMeansCounted
    <2>2. CASE node[t].left = Forever
      BY Zenon, <1>2, <2>2, WaitStutter DEF CondWake
    <2> QED
      BY Zenon, <2>1, <2>2
  <1> QED
    BY Zenon, <1>1, <1>2

-----------------------------------------------------------------------------
(* Initially nobody waits. *)
LEMMA WaitInitInv == AllInit => WaitInv
  <1> SUFFICES ASSUME AllInit PROVE WaitInv
    OBVIOUS
  <1>1. node = <<>> /\ wait_map = <<>> /\ returned = [result |-> "none", counted |-> 0]
    BY Zenon DEF AllInit, GuestInit, MemInit
  <1>2. DOMAIN node = {} /\ DOMAIN wait_map = {}
    BY <1>1
  <1>3. WaitTypeOK
    BY <1>1, <1>2 DEF WaitTypeOK
  <1>4. WaitListsAreExact
    BY Zenon, <1>2 DEF WaitListsAreExact
  <1> QED
    BY Zenon, <1>1, <1>2, <1>3, <1>4 DEF WaitInv, StatusIsTheCount, WokenMeansCounted

(* Every call of either guest, and every return of a condition, preserves  *)
(* the invariant.                                                          *)
LEMMA WaitStepInv == WaitInv /\ [WaitNext]_allVars => WaitInv'
  <1> SUFFICES ASSUME WaitInv, [WaitNext]_allVars PROVE WaitInv'
    OBVIOUS
  <1> USE DEF memVars, guestVars
  <1>1. ASSUME NEW t \in Threads, CondWake(t) PROVE WaitInv'
    BY Zenon, <1>1, CondWakeInv
  <1>2. ASSUME NEW t \in Threads, GuestStep(t) PROVE WaitInv'
    <2>1. CASE try_lock(t) \/ Read(t) \/ Write(t) \/ lock_release(t)
      BY Zenon, <2>1, WaitStutter DEF try_lock, Read, Write, lock_release, AtomicStore
    <2>2. CASE Wait(t)
      BY Zenon, <2>2, WaitBeginsInv, GuestMutexAssumption DEF Wait
    <2>3. CASE Notify(t)
      BY Zenon, <2>3, NotifyInv DEF Notify
    <2> QED
      BY Zenon, <1>1, <1>2, <2>1, <2>2, <2>3 DEF GuestStep, Sleeps
  <1>3. ASSUME NEW t \in Threads, NEW a \in Addresses, NEW v \in Values,
               AtomicStore(t, a, v) \/ AtomicWaitFails(t, a, v)
        PROVE  WaitInv'
    BY Zenon, <1>3, WaitStutter, NoSleepInv DEF AtomicStore, AtomicWaitFails
  <1>4. ASSUME NEW t \in Threads, Calls(t) PROVE WaitInv'
    BY Zenon, <1>3, <1>4, WaitBeginsInv, NotifyInv DEF Calls
  <1>5. ASSUME NEW t \in Threads, Terminate(t) PROVE WaitInv'
    BY Zenon, <1>5, WaitStutter DEF Terminate
  <1>6. CASE Done \/ UNCHANGED allVars
    BY Zenon, <1>6, WaitStutter DEF Done, allVars
  <1> QED
    BY Zenon, <1>1, <1>2, <1>4, <1>5, <1>6 DEF WaitNext, Wakes, MutexStep, AnyNext

(* The invariant holds throughout. *)
LEMMA WaitInductive == WaitSpec => []WaitInv
  BY WaitInitInv, WaitStepInv, PTL DEF WaitSpec

(* Whatever threads store, wait, notify, time out and are ended, the map   *)
(* and its lists have exactly the nodes of those that sleep, once each     *)
(* (acquire_wait_info, map_try_release_wait_info).                         *)
THEOREM WaitListsSafe == WaitSpec => []WaitListsAreExact
  BY WaitInductive, PTL DEF WaitInv

(* What wasm_runtime_atomic_wait returns agrees with what the notifiers    *)
(* have counted, also when a timeout or an end meets a notification.       *)
THEOREM WokenSafe == WaitSpec => []WokenMeansCounted
  BY WaitInductive, PTL DEF WaitInv

-----------------------------------------------------------------------------
Holding == {"read", "write", "unlock"}

(* LockIsExclusive is inductive with the types of what it reads *)
LockInv ==
    /\ LockIsExclusive
    /\ guest = "mutex" => /\ mem \in [Addresses -> Values] /\ g_val \in Int
                          /\ loaded \in [Threads -> Int]
                          /\ g_pc \in [Threads -> Holding \cup {"try_lock", "wait", "notify"}]

(* Who takes the lock finds it free, and who gives it back was alone. *)
LEMMA LockStepInv == LockInv /\ [WaitNext]_allVars => LockInv'
  <1> SUFFICES ASSUME LockInv, [WaitNext]_allVars PROVE LockInv'
    OBVIOUS
  <1>1. CASE guest # "mutex" \/ UNCHANGED allVars \/ Done
    BY Zenon, <1>1
       DEF WaitNext, Wakes, MutexStep, AnyNext, Done, allVars, memVars, guestVars, LockInv,
                LockIsExclusive
  <1>2. ASSUME NEW t \in Threads, GuestStep(t), guest = "mutex", guest' = "mutex" PROVE LockInv'
    <2> USE <1>2, GuestMutexAssumption, SharedMemoryAssumption
        DEF LockInv, LockIsExclusive, Holding, At, Goto
    <2>1. CASE try_lock(t)
      BY <2>1 DEF try_lock
    <2>2. CASE Wait(t)
      BY Zenon, <2>2 DEF Wait, AtomicWait
    <2>3. CASE Read(t)
      BY Zenon, <2>3 DEF Read, memVars
    <2>4. CASE Write(t)
      BY <2>4 DEF Write, memVars
    <2>5. CASE lock_release(t)
      BY Zenon, <2>5 DEF lock_release, AtomicStore
    <2>6. CASE Notify(t)
      BY Zenon, <2>6 DEF Notify, AtomicNotify
    <2>7. CASE Sleeps(t)
      BY Zenon, <2>7 DEF Sleeps, CondWake, guestVars
    <2> QED
      BY Zenon, <2>1, <2>2, <2>3, <2>4, <2>5, <2>6, <2>7 DEF GuestStep
  <1> QED
    BY Zenon, <1>1, <1>2 DEF WaitNext, Wakes, MutexStep, AnyNext

(* For any number of threads and rounds, the lock of the repository's test *)
(* is held by one thread at a time, and no addition to its counter is      *)
(* lost: a thread that is woken takes the lock like any other.             *)
THEOREM LockSafe == WaitSpec => []LockIsExclusive
  <1>1. AllInit => LockInv
    BY SharedMemoryAssumption DEF AllInit, GuestInit, MemInit, LockInv, LockIsExclusive, Holding
  <1>2. LockInv => LockIsExclusive
    BY Zenon DEF LockInv
  <1> QED
    BY <1>1, <1>2, LockStepInv, PTL DEF WaitSpec

(***************************************************************************)
(* The trusted application and its client                                  *)
(***************************************************************************)
(* What exists during and between commands, in every build.                *)
ReleaseInv ==
    /\ pc \in {"idle", "init", "load", "instantiate", "execute", "teardown"}
    /\ live = IF pc = "idle" THEN {} ELSE {run}
    /\ pc \in {"idle", "init", "load"} => context = {}
    /\ pc \in {"idle", "init", "load", "instantiate"} => singleton = 0

(* Every step of the trusted application preserves it.                     *)
LEMMA ReleaseStepInv == ReleaseInv /\ [Client \/ TaStep]_taVars => ReleaseInv'
<1> SUFFICES ASSUME ReleaseInv, [Client \/ TaStep]_taVars PROVE ReleaseInv'
  OBVIOUS
<1>1. CASE Client
  BY Zenon, <1>1 DEF Client, TA_OpenSessionEntryPoint, TA_CloseSessionEntryPoint, TA_SetHeapSize,
     TA_SetLinearMemory, TA_BadParameters, TA_RunWasm, ReleaseInv, statics
<1>2. CASE TaStep
  BY Zenon, <1>2 DEF TaStep, InitializeRuntime, LoadModule, InstantiateModule,
     TA_ExecuteWamrRuntime, TearDown, ReleaseInv, statics
<1>3. CASE UNCHANGED taVars
  BY Zenon, <1>3 DEF taVars, ReleaseInv, statics
<1> QED
  BY Zenon, <1>1, <1>2, <1>3

(* So it holds throughout.                                                 *)
LEMMA ReleaseIsInvariant == TaSpec => []ReleaseInv
<1>1. TaInit => ReleaseInv
  BY Zenon DEF TaInit, ReleaseInv
<1> QED
  BY <1>1, ReleaseStepInv, PTL DEF TaSpec

(* Whatever failed in a run of a guest, in whatever build, TA_RunWasm      *)
(* returns with its buffers freed, its module gone and the singleton null. *)
THEOREM Released == TaSpec => []NothingLeft
<1>1. ReleaseInv => NothingLeft
  BY Zenon DEF ReleaseInv, NothingLeft
<1> QED
  BY <1>1, ReleaseIsInvariant, PTL

(* The program in the normal world: nothing runs before start_wasm, a run  *)
(* that is under way has been initialised, and what makes the program      *)
(* succeed is the result of that run, not that of a setting.               *)
HostInv ==
    /\ ReleaseInv
    /\ h_pc \in {"prepare", "heap", "linear", "start"} => run = 0 /\ pc = "idle"
    /\ h_pc \in {"terminate", "print", "exited"} => pc = "idle"
    /\ h_pc = "invoked" => run = 1
    /\ pc \in {"load", "instantiate", "execute"} => reported
    /\ pc = "teardown" /\ result = "success" => reported
    /\ h_pc = "invoked" /\ pc = "idle" /\ result = "success" => reported
    /\ h_pc \in {"terminate", "print", "exited"} /\ status = 0 =>
          result = "success" /\ run = 1 /\ reported

(* What the program does to the trusted application is what any client     *)
(* may do.                                                                 *)
LEMMA HostIsAClient == [Next]_vars => [Client \/ TaStep]_taVars
BY Zenon DEF Next, Step, main, OtherClient, Finished, KernelCloses, prepare_tee_session,
       configure_heap_size, configure_linear_memory, start_wasm, invocationReturns,
       terminate_tee_session, print_buffers, vars, Client

(* Every step of the program and of the trusted application preserves the  *)
(* invariant.                                                              *)
LEMMA HostStepInv == HostInv /\ [Next]_vars => HostInv'
<1> SUFFICES ASSUME HostInv, [Next]_vars PROVE HostInv'
  OBVIOUS
<1>0. ReleaseInv'
  BY Zenon, HostIsAClient, ReleaseStepInv DEF HostInv
<1> USE <1>0 DEF HostInv, hostVars
<1>1. CASE prepare_tee_session \/ configure_heap_size \/ configure_linear_memory
  BY <1>1 DEF prepare_tee_session, configure_heap_size, configure_linear_memory, taVars,
     TA_OpenSessionEntryPoint, TA_SetHeapSize, TA_SetLinearMemory
<1>2. CASE start_wasm
  BY <1>2 DEF start_wasm, TA_RunWasm, taVars
<1>3. CASE invocationReturns \/ print_buffers
  BY <1>3 DEF invocationReturns, print_buffers, taVars
<1>4. CASE terminate_tee_session \/ KernelCloses
  BY Zenon, <1>4 DEF terminate_tee_session, KernelCloses, TA_CloseSessionEntryPoint
<1>5. CASE InitializeRuntime /\ UNCHANGED hostVars
  BY Zenon, <1>5 DEF InitializeRuntime
<1>6. CASE (LoadModule \/ InstantiateModule \/ TA_ExecuteWamrRuntime) /\ UNCHANGED hostVars
  BY Zenon, <1>6 DEF LoadModule, InstantiateModule, TA_ExecuteWamrRuntime
<1>7. CASE TearDown /\ UNCHANGED hostVars
  BY Zenon, <1>7 DEF TearDown
<1>8. CASE OtherClient
  BY Zenon, <1>8 DEF OtherClient, Client, TA_OpenSessionEntryPoint, TA_CloseSessionEntryPoint,
     TA_SetHeapSize, TA_SetLinearMemory, TA_BadParameters, TA_RunWasm
<1>9. CASE UNCHANGED vars
  BY Zenon, <1>9 DEF vars, taVars
<1> QED
  BY Zenon, <1>1, <1>2, <1>3, <1>4, <1>5, <1>6, <1>7, <1>8, <1>9
  DEF Next, Step, main, TaStep, Finished

(* The program exits with 0 only when the guest was loaded, ran and        *)
(* returned, and everything was released (start_wasm, TA_RunWasm): the     *)
(* success of a setting is never taken for that of the guest.              *)
THEOREM StatusSafe == Spec => []StatusIsTheGuests
<1>1. Init => HostInv
  BY Zenon DEF Init, TaInit, HostInv, ReleaseInv
<1>2. HostInv => StatusIsTheGuests
  BY Zenon DEF HostInv, ReleaseInv, StatusIsTheGuests
<1> QED
  BY <1>1, <1>2, HostStepInv, PTL DEF Spec

(* The runtime of the 2.4.1 build without natives: its count is 1 exactly  *)
(* while it has a pool, which then lies in the heap of the present run, as *)
(* do the list of natives and the map; otherwise there are no natives.     *)
PoolInv ==
    /\ build = "2.4.1" /\ run \in Nat
    /\ rt \in Runtime
    /\ rt.ref_count <= 1
    /\ rt.ref_count = 1 <=> rt.pool # 0
    /\ rt.pool # 0 =>
          /\ pc \in {"load", "instantiate", "execute", "teardown"}
          /\ rt.pool = run /\ rt.natives = run /\ rt.externref_map = run
    /\ pc # "idle" => run # 0
    /\ context # {} => rt.pool # 0
    /\ pc \in {"instantiate", "execute"} => context # {}
    /\ pc = "execute" => "module_inst" \in context /\ singleton = run
    /\ singleton # 0 => pc \in {"execute", "teardown"} /\ "module_inst" \in context
    /\ dangling = {}

(* A failed wasm_runtime_env_init of 2.4.1 leaves the count alone.         *)
LEMMA EnvInitKeepsCount ==
    ASSUME NEW r \in Runtime, NEW f \in EnvInitFailures("2.4.1", r)
    PROVE  f \in Runtime /\ f.ref_count = r.ref_count
<1>1. /\ wasm_native_destroy(r) \in Runtime
      /\ wasm_native_destroy(r).ref_count = r.ref_count
  BY Zenon DEF wasm_native_destroy, Runtime
<1> QED BY <1>1 DEF Runtime, EnvInitFailures

(* The runtime that a successful wasm_runtime_env_init leaves.             *)
LEMMA EnvInitIsInPool ==
    ASSUME NEW r \in Runtime
    PROVE  wasm_runtime_env_init(r) = [pool |-> r.pool, natives |-> r.pool,
                                       externref_map |-> r.pool, ref_count |-> r.ref_count]
<1>1. wasm_native_init(r) = [pool |-> r.pool, natives |-> r.pool,
                             externref_map |-> r.externref_map, ref_count |-> r.ref_count]
  BY DEF wasm_native_init, Runtime
<1> QED BY <1>1 DEF wasm_runtime_env_init

(* What wasm_runtime_full_init of that build does: it counts a runtime it  *)
(* takes for initialised, or it initialises one, or it fails without one.  *)
InitOutcome(r, buf, o) ==
    \/ /\ r.ref_count # 0 /\ o.ok = TRUE /\ o.reads = {}
       /\ o.rt = [r EXCEPT !.ref_count = @ + 1]
    \/ /\ r.ref_count = 0 /\ o.ok = TRUE /\ o.reads = {buf}
       /\ o.rt = [pool |-> buf, natives |-> buf, externref_map |-> buf, ref_count |-> 1]
    \/ /\ r.ref_count = 0 /\ o.ok = FALSE /\ o.reads \subseteq {buf}
       /\ o.rt \in Runtime /\ o.rt.ref_count = 0
       /\ o.rt.pool = 0 \/ o.rt = r

(* wasm_runtime_full_init has no other outcome.                            *)
LEMMA FullInitOutcomes ==
    ASSUME NEW r \in Runtime, NEW buf \in Nat, NEW large \in BOOLEAN,
           NEW o \in wasm_runtime_full_init("2.4.1", FALSE, r, buf, large)
    PROVE  InitOutcome(r, buf, o)
<1> USE DEF InitOutcome
<1>1. CASE r.ref_count # 0
  BY <1>1 DEF wasm_runtime_full_init, Outcome, Runtime
<1>2. CASE r.ref_count = 0
  <2>1. PICK i \in wasm_runtime_full_init_internal("2.4.1", FALSE, r, buf, large) :
           o = IF i.ok THEN [i EXCEPT !.rt.ref_count = @ + 1] ELSE i
    BY Zenon, <1>2 DEF wasm_runtime_full_init
  <2> DEFINE m == wasm_runtime_memory_init(r, buf)
  <2>2. CASE i = Outcome(FALSE, r, {})
    BY Zenon, <1>2, <2>1, <2>2 DEF Outcome
  <2>3. CASE i = Outcome(TRUE, wasm_runtime_env_init(m), {buf})
    <3> DEFINE e == [pool |-> buf, natives |-> buf, externref_map |-> buf, ref_count |-> 0]
    <3>1. wasm_runtime_env_init(m) = e
      BY <1>2, EnvInitIsInPool DEF wasm_runtime_memory_init, Runtime
    <3> QED BY <1>2, <2>1, <2>3, <3>1 DEF Outcome
  <2>4. ASSUME NEW f \in EnvInitFailures("2.4.1", m),
               i = Outcome(FALSE, wasm_runtime_memory_destroy(f), {buf})
        PROVE  /\ o.ok = FALSE /\ o.reads \subseteq {buf}
               /\ o.rt \in Runtime /\ o.rt.ref_count = 0 /\ o.rt.pool = 0
    BY <1>2, <2>1, <2>4, EnvInitKeepsCount DEF Outcome, wasm_runtime_memory_destroy,
       Runtime, wasm_runtime_memory_init
  <2> QED BY Zenon, <1>2, <2>1, <2>2, <2>3, <2>4 DEF wasm_runtime_full_init_internal
<1> QED BY Zenon, <1>1, <1>2

(* In the 2.4.1 build without natives no run of a guest uses anything that *)
(* an earlier run left in the runtime, even after failed initialisations   *)
(* have taken the reference count below zero, and the lifetimes of pool,   *)
(* module, instance and singleton nest.                                    *)
THEOREM RunsAreIndependent ==
    ASSUME Builds \subseteq {"2.4.1"}
    PROVE  TaSpec => [](NoDanglingAccess /\ LifetimesNest)
<1>1. TaInit => PoolInv
  BY DEF TaInit, PoolInv, RuntimeStatics, Runtime
<1>2. ReleaseInv /\ PoolInv /\ [Client \/ TaStep]_taVars => PoolInv'
  <2> SUFFICES ASSUME ReleaseInv, PoolInv, [Client \/ TaStep]_taVars PROVE PoolInv'
    OBVIOUS
  <2>0. Tree(build) = "2.4.1" /\ HasNatives(build) = FALSE
    BY Zenon DEF PoolInv, Tree, HasNatives
  <2>1. CASE TA_CloseSessionEntryPoint
    BY <2>1 DEF TA_CloseSessionEntryPoint, PoolInv, RuntimeStatics, Runtime
  <2>2. CASE \/ TA_OpenSessionEntryPoint \/ TA_BadParameters
             \/ \E s \in HeapSizes : TA_SetHeapSize(s)
             \/ \E s \in LinearMemories : TA_SetLinearMemory(s)
    BY Zenon, <2>2 DEF TA_OpenSessionEntryPoint, TA_BadParameters, TA_SetHeapSize,
       TA_SetLinearMemory, PoolInv, statics
  <2>3. CASE TA_RunWasm
    BY <2>3 DEF TA_RunWasm, PoolInv, statics, ReleaseInv
  <2>4. CASE InitializeRuntime
    <3>0. PICK large \in BOOLEAN : large = (heap_size = "large")
      BY Zenon
    <3>1. PICK o \in wasm_runtime_full_init("2.4.1", FALSE, rt, run, large) :
            /\ rt' = o.rt /\ pc' = IF o.ok THEN "load" ELSE "teardown"
            /\ dangling' = dangling \cup (o.reads \ (live \cup {0}))
      BY Zenon, <2>0, <2>4, <3>0 DEF InitializeRuntime, Access
    <3>2. /\ rt \in Runtime /\ run \in Nat /\ live = {run} /\ context = {} /\ singleton = 0
          /\ rt.pool = 0 /\ rt.ref_count <= 0 /\ dangling = {} /\ build = "2.4.1" /\ run # 0
      BY <2>4 DEF PoolInv, ReleaseInv, Runtime, InitializeRuntime
    <3>3. InitOutcome(rt, run, o)
      BY Zenon, <3>2, FullInitOutcomes
    <3> QED BY <2>4, <3>1, <3>2, <3>3 DEF PoolInv, InitializeRuntime, InitOutcome,
               Runtime
  <2>5. CASE LoadModule
    BY Zenon, <2>5 DEF LoadModule, AllocatorReads, PoolInv, ReleaseInv, statics, Access,
       CanAllocate
  <2>6. CASE InstantiateModule
    BY Zenon, <2>6 DEF InstantiateModule, AllocatorReads, PoolInv, ReleaseInv, Access
  <2>7. CASE TA_ExecuteWamrRuntime
    BY Zenon, <2>7 DEF TA_ExecuteWamrRuntime, AllocatorReads, PoolInv, ReleaseInv, Access,
       statics
  <2>8. CASE TearDown
    <3>1. /\ rt' \in Runtime /\ rt'.ref_count \in Int /\ rt'.ref_count <= 0
          /\ rt'.pool = 0
      <4>1. CASE rt.ref_count = 1
        <5>1. wasm_runtime_destroy_internal(rt) =
                [pool |-> 0, natives |-> 0, externref_map |-> rt.externref_map, ref_count |-> 1]
          <6>1. wasm_native_destroy(rt) = [pool |-> rt.pool, natives |-> 0,
                                           externref_map |-> rt.externref_map, ref_count |-> 1]
            BY <4>1 DEF wasm_native_destroy, PoolInv, Runtime
          <6> QED BY <6>1 DEF wasm_runtime_destroy_internal, wasm_runtime_memory_destroy
        <5> QED BY <2>0, <2>8, <4>1, <5>1 DEF PoolInv, Runtime, wasm_runtime_destroy,
                   LastReference, TearDown, TornDown
      <4>2. CASE rt.ref_count # 1
        BY <2>0, <2>8, <4>2 DEF wasm_runtime_destroy, LastReference, PoolInv, Runtime,
           TearDown, TornDown
      <4> QED BY Zenon, <4>1, <4>2
    <3> QED BY <2>0, <2>8, <3>1 DEF TearDown, PoolInv, Access, AllocatorReads,
               ReleaseInv, DestroyCallReads, LastReference, DestroyReads
  <2>9. CASE UNCHANGED taVars
    BY Zenon, <2>9 DEF taVars, PoolInv, statics
  <2> QED
    BY Zenon, <2>1, <2>2, <2>3, <2>4, <2>5, <2>6, <2>7, <2>8, <2>9 DEF Client, TaStep
<1>3. ReleaseInv /\ PoolInv => NoDanglingAccess /\ LifetimesNest
  BY Zenon DEF ReleaseInv, PoolInv, NoDanglingAccess, LifetimesNest
<1> QED
  BY <1>1, <1>2, <1>3, ReleaseIsInvariant, PTL DEF TaSpec

=============================================================================
