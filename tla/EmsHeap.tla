------------------------------ MODULE EmsHeap ------------------------------
(***************************************************************************)
(* The ems allocator of WAMR 2.4.1 (core/shared/mem-alloc/ems): the heap   *)
(* behind wasm_runtime_malloc in pool mode and behind the application heap *)
(* inside linear memory.  A pool is tiled by chunks (hmu's); each begins   *)
(* with a header (type, size, "previous chunk in use" bit), and the last   *)
(* word of a free chunk repeats its size so that the chunk after it can    *)
(* find its start.  Free chunks below HMU_FC_NORMAL_MAX_SIZE hang in one   *)
(* list per size, threaded by offsets through the chunks; the others form  *)
(* a binary search tree whose nodes lie in the chunks themselves.          *)
(*                                                                         *)
(* Sizes and addresses are in bytes, sizes wrap at SizeModulus (2^32 in    *)
(* the code).  Every operation runs under heap->lock, so each is a step;   *)
(* gc_realloc_vo unlocks before it frees the old block, so that is a       *)
(* second step.  Statistics other than total_free_size are left out.       *)
(***************************************************************************)
EXTENDS Integers, FiniteSets, FiniteSetsExt, Functions, TLC

CONSTANTS
    HMU_NORMAL_NODE_CNT, \* number of size lists (32 in the code)
    SizeModulus,         \* 2^width of gc_size_t
    Uses                 \* how the heap may be used, a set of records:
                         \*   ops: what the users call, a subset of AllOps
                         \*   pool: bytes of the pool
                         \*   bases: addresses the pool can be at (and be moved to)
                         \*   requests: bytes asked for in gc_alloc_vo and gc_realloc_vo
                         \*   tails: values an owner may leave in its block's last word
                         \*   objects: bound, blocks alive at a time
                         \*   calls: bound, calls of gc_realloc_vo and of gc_migrate

AllOps == {"malloc", "free", "realloc", "migrate"}

VARIABLES heap,     \* the gc_heap_t and the chunk headers of its pool
          live,     \* the users' blocks: offset in the pool -> bytes asked for
          retiring, \* old blocks gc_realloc_vo has copied and not yet freed
          calls,    \* calls of gc_realloc_vo and gc_migrate so far
          use       \* the member of Uses this heap is put to

vars == <<heap, live, retiring, calls, use>>

NULL == -1
Root == -2
HMU_SIZE == 4

GC_ALIGN_8(s) == LET t == (s + 7) % SizeModulus IN t - (t % 8)

GC_SMALLEST_SIZE == GC_ALIGN_8(HMU_SIZE + 8)

(* sizeof(hmu_tree_node_t), the size the sentinel root is given *)
RootSize == 32

HMU_FC_NORMAL_MAX_SIZE == (HMU_NORMAL_NODE_CNT - 1) * 8

HMU_IS_FC_NORMAL(size) == size < HMU_FC_NORMAL_MAX_SIZE

(* The sentinel root must be smaller than every chunk of the tree, or the  *)
(* first chunk would be hung to its left, where no search looks.           *)
ASSUME EmsAssumption ==
    /\ \A u \in Uses : u.ops \subseteq AllOps
    /\ RootSize < HMU_FC_NORMAL_MAX_SIZE
    /\ \A u \in Uses :
          /\ u.pool % 8 = 0 /\ HMU_FC_NORMAL_MAX_SIZE <= u.pool /\ u.pool < SizeModulus
          /\ \A b, c \in u.bases : b # c => b - c >= u.pool \/ c - b >= u.pool

-----------------------------------------------------------------------------
(* Headers, lists and the tree *)

hmu_is_in_heap(h, a) == a >= h.base /\ a < h.base + h.current_size

Corrupt(h) == [h EXCEPT !.is_heap_corrupted = TRUE]

Mut_SetPinuse(h, a, bit) ==
    IF hmu_is_in_heap(h, a) /\ bit THEN [h EXCEPT !.chunks[a].pinuse = TRUE] ELSE h

SetPinuse(h, a, bit) ==
    IF hmu_is_in_heap(h, a) THEN [h EXCEPT !.chunks[a].pinuse = bit] ELSE h

Swallow(h, a) == [h EXCEPT !.chunks = Restrict(@, DOMAIN @ \ {a})]

get_hmu_normal_node_next(h, a) ==
    IF h.chunks[a].next_offset = 0 THEN NULL ELSE a + h.chunks[a].next_offset

set_hmu_normal_node_next(h, a, next) ==
    [h EXCEPT !.chunks[a].next_offset = IF next = NULL THEN 0 ELSE next - a]

SetChild(h, p, side, q) ==
    IF side = "left" THEN [h EXCEPT !.node[p].left = q]
                     ELSE [h EXCEPT !.node[p].right = q]

SetParent(h, q, p) == IF q = NULL THEN h ELSE [h EXCEPT !.node[q].parent = p]

DropNode(h, p) == [h EXCEPT !.node = Restrict(@, DOMAIN @ \ {p})]

RECURSIVE Rightmost(_, _)
Rightmost(h, q) == IF h.node[q].right = NULL THEN q ELSE Rightmost(h, h.node[q].right)

(* remove_tree_node: a node with one child is replaced by it, a node with  *)
(* two by its predecessor, which is first removed from where it is.  What  *)
(* is half done when a pointer turns out to leave the heap does not        *)
(* matter: a heap once declared corrupted is not used again.               *)
RECURSIVE remove_tree_node(_, _)
remove_tree_node(h, p) ==
    LET parent == h.node[p].parent
        side == IF h.node[parent].right = p THEN "right" ELSE "left"
        Lift(g, q) == SetParent(SetChild(g, parent, side, q), q, parent)
        links == {parent, h.node[p].left, h.node[p].right} \ {NULL, Root}
    IN  IF \/ \E q \in links : ~hmu_is_in_heap(h, q)
           \/ p \notin {h.node[parent].left, h.node[parent].right} THEN Corrupt(h)
        ELSE IF h.node[p].left = NULL THEN DropNode(Lift(h, h.node[p].right), p)
        ELSE IF h.node[p].right = NULL THEN DropNode(Lift(h, h.node[p].left), p)
        ELSE LET q == Rightmost(h, h.node[p].left)
                 g == remove_tree_node(h, q)
                 k == [g EXCEPT !.node = (q :> [g.node[p] EXCEPT !.size = h.node[q].size]) @@ @]
             IN  IF g.is_heap_corrupted THEN g
                 ELSE DropNode(SetParent(SetParent(Lift(k, q), g.node[p].left, q),
                                         g.node[p].right, q), p)

(* The walk of unlink_hmu over one size list *)
RECURSIVE UnlinkNormal(_, _, _, _)
UnlinkNormal(h, node_prev, node, a) ==
    IF node = NULL THEN h
    ELSE IF ~hmu_is_in_heap(h, node) THEN Corrupt(h)
    ELSE LET node_next == get_hmu_normal_node_next(h, node)
         IN  IF node # a THEN UnlinkNormal(h, node, node_next, a)
             ELSE IF node_prev = NULL
             THEN [h EXCEPT !.kfc_normal_list[h.chunks[a].size \div 8] = node_next]
             ELSE set_hmu_normal_node_next(h, node_prev, node_next)

unlink_hmu(h, a) ==
    LET size == h.chunks[a].size
    IN  IF h.chunks[a].ut # "FC" THEN Corrupt(h)
        ELSE IF HMU_IS_FC_NORMAL(size)
        THEN UnlinkNormal(h, NULL, h.kfc_normal_list[size \div 8], a)
        ELSE remove_tree_node(h, a)

(* The walk of gci_add_fc down the tree *)
RECURSIVE InsertBelow(_, _, _, _)
InsertBelow(h, tp, a, size) ==
    LET side == IF h.node[tp].size < size THEN "right" ELSE "left"
        child == h.node[tp][side]
    IN  IF child = NULL
        THEN SetChild([h EXCEPT !.node = (a :> [left |-> NULL, right |-> NULL,
                                                parent |-> tp, size |-> size]) @@ @],
                      tp, side, a)
        ELSE IF ~hmu_is_in_heap(h, child) THEN Corrupt(h)
        ELSE InsertBelow(h, child, a, size)

(* gci_add_fc leaves the "previous in use" bit of the header as it is; for *)
(* a header that did not exist the caller sets the bit next.               *)
gci_add_fc(h, a, size) ==
    LET pinuse == IF a \in DOMAIN h.chunks THEN h.chunks[a].pinuse ELSE FALSE
        g == [h EXCEPT !.chunks = (a :> [ut |-> "FC", size |-> size, pinuse |-> pinuse,
                                         next_offset |-> 0]) @@ @]
    IN  IF HMU_IS_FC_NORMAL(size)
        THEN [set_hmu_normal_node_next(g, a, h.kfc_normal_list[size \div 8])
                  EXCEPT !.kfc_normal_list[size \div 8] = a]
        ELSE InsertBelow(g, Root, a, size)

-----------------------------------------------------------------------------
(* Allocation *)

RECURSIVE Mut_BestNode(_, _, _, _)
Mut_BestNode(h, tp, last_tp, size) ==
    IF tp = NULL THEN last_tp
    ELSE IF h.node[tp].size < size THEN Mut_BestNode(h, h.node[tp].right, last_tp, size)
    ELSE tp

(* The search of alloc_hmu in the tree: the last node passed that is large *)
(* enough, or a pointer met on the way that leaves the heap                *)
RECURSIVE BestNode(_, _, _, _)
BestNode(h, tp, last_tp, size) ==
    IF tp = NULL THEN last_tp
    ELSE IF ~hmu_is_in_heap(h, tp) THEN tp
    ELSE IF h.node[tp].size < size THEN BestNode(h, h.node[tp].right, last_tp, size)
    ELSE BestNode(h, h.node[tp].left, tp, size)

(* alloc_hmu's end, the same for a chunk of a list and of the tree: chunk  *)
(* a of `have` bytes is off its list; what it has beyond `size` becomes a  *)
(* free chunk if it is large enough to be one.                             *)
Carve(h, a, have, size) ==
    LET split == have >= size + GC_SMALLEST_SIZE
        taken == IF split THEN size ELSE have
        g == SetPinuse(IF split THEN gci_add_fc(h, a + size, have - size) ELSE h,
                       a + taken, TRUE)
    IN  [heap |-> [g EXCEPT !.total_free_size = (@ - taken) % SizeModulus,
                            !.chunks[a].size = taken,
                            !.chunks[a].ut = "VO",
                            !.chunks[a].next_offset = 0],
         hmu |-> a]

(* alloc_hmu, and the two header writes its callers make: they set the     *)
(* type of the chunk they are given to HMU_VO (in Carve).                  *)
alloc_hmu(h, want) ==
    LET size == Max({want, GC_SMALLEST_SIZE})
        lists == {i \in size \div 8 .. HMU_NORMAL_NODE_CNT - 1 : h.kfc_normal_list[i] # NULL}
        node_idx == Min(lists)
        p == h.kfc_normal_list[node_idx]
        last_tp == BestNode(h, h.node[Root].right, NULL, size)
        g == IF hmu_is_in_heap(h, last_tp) THEN remove_tree_node(h, last_tp) ELSE Corrupt(h)
    IN  IF HMU_IS_FC_NORMAL(size) /\ lists # {}
        THEN IF ~hmu_is_in_heap(h, p) THEN [heap |-> Corrupt(h), hmu |-> NULL]
             ELSE Carve([h EXCEPT !.kfc_normal_list[node_idx] = get_hmu_normal_node_next(h, p)],
                        p, node_idx * 8, size)
        ELSE IF last_tp = NULL THEN [heap |-> h, hmu |-> NULL]
        ELSE IF g.is_heap_corrupted THEN [heap |-> g, hmu |-> NULL]
        ELSE Carve(g, last_tp, h.node[last_tp].size, size)

(* Header, bytes asked for, and padding; it may wrap *)
tot_size(n) == GC_ALIGN_8((HMU_SIZE + n) % SizeModulus)

Refused(h, n) == tot_size(n) < n \/ h.is_heap_corrupted

gc_alloc_vo(h, n) ==
    IF Refused(h, n) THEN [heap |-> h, hmu |-> NULL] ELSE alloc_hmu(h, tot_size(n))

-----------------------------------------------------------------------------
(* Release *)

(* The word in front of chunk a, which is the last word of the chunk       *)
(* before: its size if that is free (but the list offset shares the word   *)
(* in a chunk of 8 bytes), `word` if it is its owner's.                    *)
WordBefore(h, a, word) ==
    LET before == {p \in DOMAIN h.chunks : p + h.chunks[p].size = a /\ h.chunks[p].ut = "FC"}
        p == CHOOSE q \in before : TRUE
    IN  IF before = {} THEN word
        ELSE IF h.chunks[p].size = 8 THEN h.chunks[p].next_offset
        ELSE h.chunks[p].size

IsFree(h, a) ==
    hmu_is_in_heap(h, a) /\ a \in DOMAIN h.chunks /\ h.chunks[a].ut = "FC"

(* gc_free_vo: the chunk joins the free chunk before it and the free chunk *)
(* after it, and the chunk that follows is told that it is free.           *)
gc_free_vo(h, a, word) ==
    LET g0 == [h EXCEPT !.total_free_size = (@ + h.chunks[a].size) % SizeModulus]
        prev == a - WordBefore(h, a, word)
        back == ~h.chunks[a].pinuse /\ IsFree(h, prev)
        g1 == IF back THEN unlink_hmu(g0, prev) ELSE g0
        hmu == IF back THEN prev ELSE a
        size1 == h.chunks[a].size + (IF back THEN h.chunks[prev].size ELSE 0)
        forth == IsFree(g1, hmu + size1)
        g2 == IF forth THEN unlink_hmu(g1, hmu + size1) ELSE g1
        size2 == size1 + (IF forth THEN h.chunks[hmu + size1].size ELSE 0)
        g3 == IF forth THEN Swallow(g2, hmu + size1) ELSE g2
        g4 == IF back THEN Swallow(g3, a) ELSE g3
    IN  IF h.is_heap_corrupted \/ h.chunks[a].ut # "VO" THEN h
        ELSE IF g1.is_heap_corrupted THEN g1
        ELSE IF g2.is_heap_corrupted THEN g2
        ELSE SetPinuse(gci_add_fc(g4, hmu, size2), hmu + size2, FALSE)

(* gc_realloc_vo's growth in place: chunk a takes what it needs from the   *)
(* free chunk behind it and leaves the rest as a free chunk.               *)
GrowInPlace(h, a, tot) ==
    LET old == h.chunks[a].size
        rest == old + h.chunks[a + old].size - tot
        g == unlink_hmu(h, a + old)
        k == [Swallow(g, a + old) EXCEPT !.chunks[a].size = tot]
    IN  IF g.is_heap_corrupted THEN [heap |-> g, hmu |-> NULL]
        ELSE IF rest > 0
        THEN [heap |-> SetPinuse(gci_add_fc(k, a + tot, rest), a + tot, TRUE), hmu |-> a]
        ELSE [heap |-> k, hmu |-> a]

Mut_gc_realloc_vo(h, a, n) ==
    LET tot == tot_size(n)
        old == h.chunks[a].size
    IN  IF Refused(h, n) THEN [heap |-> h, hmu |-> NULL]
        ELSE IF tot <= old THEN [heap |-> h, hmu |-> a]
        ELSE IF IsFree(h, a + old) THEN GrowInPlace(h, a, tot)
        ELSE alloc_hmu(h, tot)

gc_realloc_vo(h, a, n) ==
    LET tot == tot_size(n)
        old == h.chunks[a].size
    IN  IF Refused(h, n) THEN [heap |-> h, hmu |-> NULL]
        ELSE IF tot <= old THEN [heap |-> h, hmu |-> a]
        ELSE IF IsFree(h, a + old) /\ tot <= old + h.chunks[a + old].size
        THEN GrowInPlace(h, a, tot)
        ELSE alloc_hmu(h, tot)

Mut_gc_migrate_parent(h, to) ==
    LET by == to - h.base
        Ptr(q) == IF q \in {NULL, Root} THEN q ELSE q + by
    IN  [h EXCEPT
           !.base = to,
           !.chunks = [a \in {c + by : c \in DOMAIN @} |-> @[a - by]],
           !.node = [a \in {Ptr(c) : c \in DOMAIN @} |->
                       LET n == IF a = Root THEN @[a] ELSE @[a - by]
                       IN  [left |-> Ptr(n.left), right |-> Ptr(n.right),
                            parent |-> n.parent, size |-> n.size]]]

(* gc_migrate: the pool has been moved (with the bytes in it) to address   *)
(* `to`; the pointers of the tree follow, the list heads do not.           *)
gc_migrate(h, to) ==
    LET by == to - h.base
        Ptr(q) == IF q \in {NULL, Root} THEN q ELSE q + by
    IN  IF h.is_heap_corrupted THEN h
        ELSE [h EXCEPT
                !.base = to,
                !.chunks = [a \in {c + by : c \in DOMAIN @} |-> @[a - by]],
                !.node = [a \in {Ptr(c) : c \in DOMAIN @} |->
                            LET n == IF a = Root THEN @[a] ELSE @[a - by]
                            IN  [left |-> Ptr(n.left), right |-> Ptr(n.right),
                                 parent |-> Ptr(n.parent), size |-> n.size]]]

-----------------------------------------------------------------------------
(* The users *)

gc_init_internal(base, size) ==
    [base |-> base,
     chunks |-> base :> [ut |-> "FC", size |-> size, pinuse |-> TRUE, next_offset |-> 0],
     kfc_normal_list |-> [i \in 0..HMU_NORMAL_NODE_CNT - 1 |-> NULL],
     node |-> (Root :> [left |-> NULL, right |-> base, parent |-> NULL, size |-> RootSize])
              @@ (base :> [left |-> NULL, right |-> NULL, parent |-> Root, size |-> size]),
     current_size |-> size, total_free_size |-> size,
     is_heap_corrupted |-> FALSE]

Init == /\ use \in Uses
        /\ \E base \in use.bases : heap = gc_init_internal(base, use.pool)
        /\ live = <<>>
        /\ retiring = {}
        /\ calls = 0

Malloc == \E n \in use.requests :
    LET r == gc_alloc_vo(heap, n)
    IN  /\ "malloc" \in use.ops /\ Cardinality(DOMAIN live) < use.objects
        /\ heap' = r.heap
        /\ live' = IF r.hmu = NULL THEN live ELSE ((r.hmu - heap.base) :> n) @@ live
        /\ UNCHANGED <<retiring, calls, use>>

Free == \E o \in DOMAIN live \ retiring, word \in use.tails :
    /\ "free" \in use.ops
    /\ heap' = gc_free_vo(heap, heap.base + o, word)
    /\ live' = Restrict(live, DOMAIN live \ {o})
    /\ UNCHANGED <<retiring, calls, use>>

(* mem_allocator_realloc on a block: refused, in place, or a copy after    *)
(* which the old block is left to Retire.                                  *)
Realloc == \E o \in DOMAIN live \ retiring, n \in use.requests :
    LET r == gc_realloc_vo(heap, heap.base + o, n)
    IN  /\ "realloc" \in use.ops /\ calls < use.calls /\ Cardinality(DOMAIN live) < use.objects
        /\ heap' = r.heap
        /\ live' = IF r.hmu = NULL THEN live ELSE ((r.hmu - heap.base) :> n) @@ live
        /\ retiring' = IF r.hmu \in {NULL, heap.base + o} THEN retiring ELSE retiring \cup {o}
        /\ calls' = calls + 1
        /\ UNCHANGED use

(* gc_realloc_vo after UNLOCK_HEAP: gc_free_vo of the old block *)
Retire == \E o \in retiring, word \in use.tails :
    /\ heap' = gc_free_vo(heap, heap.base + o, word)
    /\ live' = Restrict(live, DOMAIN live \ {o})
    /\ retiring' = retiring \ {o}
    /\ UNCHANGED <<calls, use>>

Migrate == \E to \in use.bases \ {heap.base} :
    /\ "migrate" \in use.ops /\ calls < use.calls
    /\ heap' = gc_migrate(heap, to)
    /\ calls' = calls + 1
    /\ UNCHANGED <<live, retiring, use>>

Next == Malloc \/ Free \/ Realloc \/ Retire \/ Migrate

Spec == Init /\ [][Next]_vars

-----------------------------------------------------------------------------
(* Properties *)

RECURSIVE ListFrom(_, _)
ListFrom(h, a) ==
    IF a = NULL THEN {}
    ELSE {a} \cup (IF hmu_is_in_heap(h, a) THEN ListFrom(h, get_hmu_normal_node_next(h, a)) ELSE {})

RECURSIVE TreeFrom(_, _)
TreeFrom(h, a) ==
    IF a = NULL THEN {}
    ELSE {a} \cup TreeFrom(h, h.node[a].left) \cup TreeFrom(h, h.node[a].right)

FreeChunks == {a \in DOMAIN heap.chunks : heap.chunks[a].ut = "FC"}

(* "P in use bit means the previous chunk is in use" (ems_gc_internal.h):  *)
(* gc_free_vo believes the bit, and when it is clear takes the word before *)
(* the header for the size of a free chunk.                                *)
PinuseIsTrue ==
    \A a \in DOMAIN heap.chunks :
        LET next == a + heap.chunks[a].size
        IN  next \in DOMAIN heap.chunks =>
                (heap.chunks[next].pinuse <=> heap.chunks[a].ut = "VO")

(* What the walk of gc_migrate and gci_verify_heap from header to header   *)
(* relies on: the chunks cover the pool without gap or overlap             *)
(* (bh_assert(cur == end)), and no two free chunks lie side by side, so    *)
(* that a pool whose blocks are all freed is one chunk.  The "previous in  *)
(* use" bit is never set behind a free chunk, which would keep gc_free_vo  *)
(* from joining the two.  As long as no block is reallocated the bit is    *)
(* exact and total_free_size is the size of the free chunks.               *)
HeadersAreConsistent ==
    /\ heap.base \in DOMAIN heap.chunks
    /\ \A a \in DOMAIN heap.chunks :
          LET next == a + heap.chunks[a].size
              end == heap.base + heap.current_size
          IN  /\ next = end \/ next \in DOMAIN heap.chunks
              /\ \A b \in DOMAIN heap.chunks : ~(a < b /\ b < next)
              /\ a \in FreeChunks /\ next # end =>
                    next \notin FreeChunks /\ ~heap.chunks[next].pinuse
    /\ "realloc" \notin use.ops =>
          /\ PinuseIsTrue
          /\ heap.total_free_size = MapThenSumSet(LAMBDA a : heap.chunks[a].size, FreeChunks)

(* Every free chunk is in exactly the place alloc_hmu and unlink_hmu look  *)
(* for one of its size, and nothing else is: the list of its size if it is *)
(* small, otherwise the tree under the sentinel root, where the order is   *)
(* "size[left] <= size[cur] < size[right]" (ems_gc_internal.h) for whole   *)
(* subtrees, and every child knows its parent.                             *)
FreeChunksAreFindable ==
    /\ \A i \in DOMAIN heap.kfc_normal_list :
          ListFrom(heap, heap.kfc_normal_list[i])
              = {a \in FreeChunks : HMU_IS_FC_NORMAL(8 * i) /\ heap.chunks[a].size = 8 * i}
    /\ TreeFrom(heap, heap.node[Root].right)
          = {a \in FreeChunks : ~HMU_IS_FC_NORMAL(heap.chunks[a].size)}
    /\ \A a \in DOMAIN heap.node :
          /\ a # Root => heap.node[a].size = heap.chunks[a].size
          /\ \A b \in TreeFrom(heap, heap.node[a].left) : heap.node[b].size <= heap.node[a].size
          /\ \A b \in TreeFrom(heap, heap.node[a].right) : heap.node[a].size < heap.node[b].size
          /\ \A b \in {heap.node[a].left, heap.node[a].right} \ {NULL} : heap.node[b].parent = a

(* A request is refused only when its size wraps or no free chunk is large *)
(* enough, and is served from a smallest one that is ("find the best       *)
(* node"), wherever the chunk lies.  In particular users who write only in *)
(* their blocks never see the heap declared corrupted ("e.g. the hmu nodes *)
(* are modified by user", ems_gc_internal.h), after which it serves nobody.*)
MallocIsBestFit ==
    \A n \in use.requests :
        LET fitting == {a \in FreeChunks : heap.chunks[a].size >= tot_size(n)}
            r == gc_alloc_vo(heap, n)
        IN  IF tot_size(n) < n \/ fitting = {} THEN r.hmu = NULL
            ELSE /\ r.hmu \in fitting
                 /\ \A a \in fitting : heap.chunks[r.hmu].size <= heap.chunks[a].size

(* The heap is an allocator: its chunks and the blocks its users hold, at  *)
(* their offsets in the pool, behave as ChunkTiling says (and so as        *)
(* Allocator says, which is proved of every ChunkTiling), through splits,  *)
(* merges, growth in place and the move of the whole pool.                 *)
Chunks == INSTANCE ChunkTiling WITH
    HeaderBytes <- HMU_SIZE,
    Align <- 8,
    Requests <- UNION {u.requests : u \in Uses},
    pool <- heap.current_size,
    span <- [o \in {a - heap.base : a \in DOMAIN heap.chunks} |->
                heap.chunks[heap.base + o].size],
    used <- {a - heap.base : a \in DOMAIN heap.chunks \ FreeChunks},
    blocks <- [s \in {o + HMU_SIZE : o \in DOMAIN live} |-> live[s - HMU_SIZE]]

ASSUME ChunksAssumption == Chunks!TilingAssumption

ImplementsTiling == Chunks!TilingSpec

=============================================================================
