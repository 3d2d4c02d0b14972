---------------------------- MODULE WamrRuntime ----------------------------
(***************************************************************************)
(* The initialisation and destruction of the WebAssembly runtime           *)
(* (core/iwasm/common/wasm_runtime_common.c, wasm_memory.c) in both        *)
(* vendored trees: the static variables it keeps between calls.            *)
(*                                                                         *)
(* The runtime allocates everything from the buffer that its caller hands  *)
(* to it, so a pointer is modelled by the number of the buffer it points   *)
(* into, 0 for NULL.  Which buffers exist is the caller's business.        *)
(***************************************************************************)
EXTENDS Integers

(* pool_allocator, 0 when memory_mode is not MEMORY_MODE_POOL and nothing  *)
(* reads it; g_native_symbols_list; externref_map; runtime_ref_count,      *)
(* which only 2.4.1 has.                                                   *)
Runtime == [pool : Nat, natives : Nat, externref_map : Nat, ref_count : Int]

RuntimeStatics == [pool |-> 0, natives |-> 0, externref_map |-> 0, ref_count |-> 0]

(* Only a pool that is at least APP_HEAP_SIZE_MIN large can be created.    *)
wasm_runtime_memory_init(rt, buf) == [rt EXCEPT !.pool = buf]

(* Mutant: the mode is left alone.                                         *)
wasm_runtime_memory_destroy_keep(rt) == rt

wasm_runtime_memory_destroy(rt) == [rt EXCEPT !.pool = 0]

wasm_native_init(rt) == [rt EXCEPT !.natives = rt.pool]
wasm_native_destroy(rt) == [rt EXCEPT !.natives = 0]

(* Natives are registered before the map of external references is made.   *)
wasm_runtime_env_init(rt) == [wasm_native_init(rt) EXCEPT !.externref_map = rt.pool]

(* The states it may leave when it fails.  The registration of natives     *)
(* fails: 2021 keeps what it has registered so far.  Or the map cannot be  *)
(* made: the natives are destroyed and the pointer to the map is NULL.     *)
EnvInitFailures(tree, rt) ==
    (IF tree = "2021" THEN {rt, wasm_native_init(rt)} ELSE {wasm_native_destroy(rt)})
    \cup {[wasm_native_destroy(rt) EXCEPT !.externref_map = 0]}

(* externref_map is not reset.                                             *)
wasm_runtime_destroy_internal(rt) ==
    wasm_runtime_memory_destroy(wasm_native_destroy(rt))

(* What that reads: the map, the list, and the pool that it clears.        *)
DestroyReads(rt) == {rt.externref_map, rt.natives, rt.pool}

(* Whether wasm_runtime_destroy gets as far as destroying.                 *)
LastReference(tree, rt) == tree = "2021" \/ rt.ref_count = 1

wasm_runtime_destroy(tree, rt) ==
    LET r == IF LastReference(tree, rt) THEN wasm_runtime_destroy_internal(rt) ELSE rt
    IN  IF tree = "2021" THEN r ELSE [r EXCEPT !.ref_count = @ - 1]

DestroyCallReads(tree, rt) == IF LastReference(tree, rt) THEN DestroyReads(rt) ELSE {}

(* A result of a call: what it returns, the state it leaves, what it read. *)
Outcome(ok, rt, reads) == [ok |-> ok, rt |-> rt, reads |-> reads]

(* The outcomes of an initialisation that really runs, with a buffer and   *)
(* with (natives) or without native symbols to register.  A failed         *)
(* registration calls wasm_runtime_destroy, which in 2.4.1 counts down a   *)
(* reference that was not taken yet (bh_assert(runtime_ref_count > 0) is   *)
(* left out of release builds).                                            *)
wasm_runtime_full_init_internal(tree, natives, rt, buf, large) ==
    LET m == wasm_runtime_memory_init(rt, buf)
        e == wasm_runtime_env_init(m)
    IN  IF ~large THEN {Outcome(FALSE, rt, {})} ELSE
        {Outcome(TRUE, e, {buf})}
        \cup {Outcome(FALSE, wasm_runtime_memory_destroy(f), {buf}) :
                  f \in EnvInitFailures(tree, m)}
        \cup {Outcome(FALSE, wasm_runtime_destroy(tree, e),
                      {buf} \cup DestroyCallReads(tree, e)) :
                  registered \in IF natives THEN {FALSE} ELSE {}}

(* 2.4.1 initialises only when its count is zero, and counts a success.    *)
wasm_runtime_full_init(tree, natives, rt, buf, large) ==
    LET counted(o) == IF tree = "2.4.1" /\ o.ok
                      THEN [o EXCEPT !.rt.ref_count = @ + 1] ELSE o
    IN  {counted(o) : o \in IF tree = "2.4.1" /\ rt.ref_count # 0
                            THEN {Outcome(TRUE, rt, {})}
                            ELSE wasm_runtime_full_init_internal(tree, natives, rt, buf, large)}

(* wasm_runtime_malloc fails while no allocator is set, and otherwise      *)
(* reads the pool; so do all calls that allocate or free.                  *)
CanAllocate(rt) == rt.pool # 0
AllocatorReads(rt) == {rt.pool}
=============================================================================
