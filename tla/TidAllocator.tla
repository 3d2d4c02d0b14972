---------------------------- MODULE TidAllocator ----------------------------
(***************************************************************************)
(* The thread ids of lib-wasi-threads (tid_allocator.c): a stack of free   *)
(* ids that is filled anew, at double the size, when it has run empty.     *)
(* ids[1..pos] are the free ids; the entries above pos are left over.      *)
(***************************************************************************)
EXTENDS Integers, FiniteSets

CONSTANTS TID_MIN, TID_MAX,         \* the reserved range
          TID_ALLOCATOR_INIT_SIZE   \* ids the stack starts with

ASSUME TidAssumption ==
    /\ TID_MIN \in Nat \ {0} /\ TID_MAX \in Nat /\ TID_MIN <= TID_MAX
    /\ TID_ALLOCATOR_INIT_SIZE \in Nat \ {0}

VARIABLES ids,   \* the array
          size,  \* its length
          pos,   \* the free ids in it
          held   \* the ids that are given out

tidVars == <<ids, size, pos, held>>

Total == TID_MAX - TID_MIN + 1

Smaller(a, b) == IF a < b THEN a ELSE b

tid_allocator_init ==
    /\ size = Smaller(TID_ALLOCATOR_INIT_SIZE, Total)
    /\ pos = size
    /\ ids = [i \in 1 .. size |-> TID_MIN + (size - i)]
    /\ held = {}

(* The array after the reallocation: its first entries are the new ids,    *)
(* and of the others what realloc has kept or left uninitialised.          *)
Mut_Grown(new_size) ==
    [i \in 1 .. new_size |->
        IF i <= new_size - size THEN TID_MIN + (new_size - i) + 1
        ELSE IF i <= size THEN ids[i] ELSE 0]

Grown(new_size) ==
    [i \in 1 .. new_size |->
        IF i <= new_size - size THEN TID_MIN + (new_size - i)
        ELSE IF i <= size THEN ids[i] ELSE 0]

Pop == /\ pos > 0
       /\ pos' = pos - 1
       /\ held' = held \cup {ids[pos]}
       /\ UNCHANGED <<ids, size>>

GrowAndPop ==
    /\ pos = 0 /\ size # Total
    /\ LET new_size == Smaller(2 * size, Total)
       IN  /\ size' = new_size
           /\ ids' = Grown(new_size)
           /\ pos' = new_size - size - 1
           /\ held' = held \cup {ids'[new_size - size]}

(* There is no id left, or no memory: -1 *)
GetFails == pos = 0 /\ UNCHANGED tidVars

tid_allocator_get_tid == Pop \/ GrowAndPop \/ GetFails

(* The array has no entry behind its last one: bh_assert(pos < size)       *)
tid_allocator_release_tid(id) ==
    /\ id \in held
    /\ held' = held \ {id}
    /\ pos' = pos + 1
    /\ ids' = [ids EXCEPT ![pos + 1] = id]
    /\ UNCHANGED size

TidNext == tid_allocator_get_tid \/ \E id \in held : tid_allocator_release_tid(id)

TidSpec == tid_allocator_init /\ [][TidNext]_tidVars

-----------------------------------------------------------------------------
Pool == INSTANCE IdPool

(* Array, size and position keep to their bounds, and so do the held ids. *)
TidTypeOK == /\ size \in 1 .. Total
             /\ pos \in 0 .. size
             /\ ids \in [1 .. size -> Int]
             /\ held \subseteq TID_MIN .. TID_MIN + size - 1

(* The ids on the stack are in range, distinct and nobody's: the one that  *)
(* tid_allocator_get_tid returns next is held by no thread.                *)
FreeIdsAreFree ==
    \A i \in 1 .. pos :
        /\ ids[i] \in (TID_MIN .. TID_MIN + size - 1) \ held
        /\ \A j \in 1 .. pos : ids[i] = ids[j] => i = j

(* Every id below the current size is on the stack or held: none is lost   *)
(* to a resize, and whoever gives an id back finds room for it             *)
(* (bh_assert(pos < size) in tid_allocator_release_tid).                   *)
NoIdIsLost == IsFiniteSet(held) /\ Cardinality(held) + pos = size

(* The stack implements the pool: whatever the order in which ids come     *)
(* back, tid_allocator_get_tid gives out one that nobody holds.            *)
ImplementsPool == Pool!Spec

=============================================================================
