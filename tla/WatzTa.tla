------------------------------- MODULE WatzTa -------------------------------
(***************************************************************************)
(* The trusted application of WaTZ (watz/ta/main.c, wasm.c) in both trees: *)
(* a session, its three commands, and the run of a guest step by step,     *)
(* each of which can fail.  The static variables live as long as the       *)
(* session: a later command finds what an earlier one left.                *)
(***************************************************************************)
EXTENDS WamrRuntime

CONSTANTS
    Builds,     \* the builds to check
    MaxRuns     \* bound on the runs of a guest in a session

ASSUME BuildsAssumption ==
    /\ Builds \subseteq {"2021", "2.4.1", "2.4.1 openssl"}
    /\ MaxRuns \in Nat

(* Of these only FRIEDRICH_OPENSSL has native symbols to register.         *)
Tree(b) == IF b = "2021" THEN "2021" ELSE "2.4.1"
HasNatives(b) == b = "2.4.1 openssl"

(* A heap is "large" when the runtime can use it as its pool.              *)
HeapSizes == {"small", "large"}
LinearMemories == {"none", "some"}

VARIABLES
    build,
    ta,           \* the session: "none", "open", "dead" after a panic
    pc,           \* the next step of TA_RunWasm, "idle" outside
    result,       \* of the last command
    heap_size, linear_memory,    \* the static settings
    run,          \* number of this run of a guest, and of its heap buffer
    live,         \* buffers of the trusted heap that are allocated
    context,      \* wamr_context: which of module and module_inst are set
    singleton,    \* singleton_wamr_context: the run it points to, or 0
    rt,           \* the statics of the runtime
    dangling,     \* history: freed buffers that were accessed
    reported      \* history: wasm_runtime_full_init returned true in this run

statics == <<heap_size, linear_memory, singleton, rt>>
taVars == <<build, ta, pc, result, run, live, context, reported, statics, dangling>>

TaInit ==
    /\ build \in Builds
    /\ ta = "none" /\ pc = "idle" /\ result = "none" /\ run = 0 /\ live = {}
    /\ heap_size = "small" /\ linear_memory = "none" /\ context = {} /\ singleton = 0
    /\ rt = RuntimeStatics /\ dangling = {} /\ reported = FALSE

(* The memory of buffers b is accessed.                                    *)
Access(b) == dangling' = dangling \cup (b \ (live \cup {0}))

(* A new session has an instance of its own: TA_FLAGS asks for neither a   *)
(* single instance nor one that is kept.                                   *)
TA_OpenSessionEntryPoint ==
    /\ ta = "none" /\ ta' = "open"
    /\ UNCHANGED <<build, pc, result, run, live, context, reported, statics, dangling>>

(* The instance goes with its heap and its statics.                        *)
TA_CloseSessionEntryPoint ==
    /\ ta \in {"open", "dead"} /\ pc = "idle"
    /\ ta' = "none" /\ live' = {} /\ heap_size' = "small" /\ linear_memory' = "none"
    /\ singleton' = 0 /\ rt' = RuntimeStatics /\ context' = {}
    /\ UNCHANGED <<build, pc, result, run, reported, dangling>>

TA_SetHeapSize(size) ==
    /\ ta = "open" /\ pc = "idle"
    /\ heap_size' = size /\ result' = "success"
    /\ UNCHANGED <<build, ta, pc, run, live, context, linear_memory, singleton, rt, reported, dangling>>

(* COMMAND_CONFIGURE_LINEAR_MEMORY, a bad parameter to 2021.               *)
TA_SetLinearMemory(size) ==
    /\ ta = "open" /\ pc = "idle"
    /\ IF Tree(build) = "2.4.1"
       THEN linear_memory' = size /\ result' = "success"
       ELSE UNCHANGED linear_memory /\ result' = "error"
    /\ UNCHANGED <<build, ta, pc, run, live, context, heap_size, singleton, rt, reported, dangling>>

(* A command with other parameter types, or of another number.             *)
TA_BadParameters ==
    /\ ta = "open" /\ pc = "idle"
    /\ result' = "error"
    /\ UNCHANGED <<build, ta, pc, run, live, context, reported, statics, dangling>>

(* TA_RunWasm: the heap and the copy of the bytecode are allocated, the    *)
(* bytecode is copied and the output buffer is set.  The results are not   *)
(* checked: a failed allocation ends in a panic, at the copy or when the   *)
(* pool is initialised.                                                    *)
TA_RunWasm ==
    /\ ta = "open" /\ pc = "idle" /\ run < MaxRuns
    /\ run' = run + 1 /\ context' = {} /\ reported' = FALSE
    /\ \/ live' = live \cup {run'} /\ pc' = "init" /\ UNCHANGED <<ta, result>>
       \/ ta' = "dead" /\ result' = "dead" /\ live' = {} /\ UNCHANGED pc
    /\ UNCHANGED <<build, statics, dangling>>

(* TA_InitializeWamrRuntime, one action for each call that can fail.       *)
InitializeRuntime ==
    /\ pc = "init"
    /\ \E o \in wasm_runtime_full_init(Tree(build), HasNatives(build), rt, run, heap_size = "large") :
          /\ rt' = o.rt /\ reported' = o.ok
          /\ Access(o.reads)
          /\ pc' = IF o.ok THEN "load" ELSE "teardown"
          /\ result' = IF o.ok THEN result ELSE "error"
    /\ UNCHANGED <<build, ta, run, live, context, heap_size, linear_memory, singleton>>

LoadModule ==
    /\ pc = "load"
    /\ Access(AllocatorReads(rt))
    /\ \/ CanAllocate(rt) /\ context' = {"module"} /\ pc' = "instantiate" /\ UNCHANGED result
       \/ pc' = "teardown" /\ result' = "error" /\ UNCHANGED context
    /\ UNCHANGED <<build, ta, run, live, reported, statics>>

(* wasm_runtime_set_wasi_args and wasm_runtime_instantiate.                *)
InstantiateModule ==
    /\ pc = "instantiate"
    /\ Access(AllocatorReads(rt))
    /\ \/ /\ context' = {"module", "module_inst"} /\ singleton' = run
          /\ pc' = "execute" /\ UNCHANGED result
       \/ pc' = "teardown" /\ result' = "error" /\ UNCHANGED <<context, singleton>>
    /\ UNCHANGED <<build, ta, run, live, reported, heap_size, linear_memory, rt>>

(* The guest returns from main, or traps.                                  *)
TA_ExecuteWamrRuntime ==
    /\ pc = "execute"
    /\ Access(AllocatorReads(rt))
    /\ pc' = "teardown" /\ result' \in {"success", "error"}
    /\ UNCHANGED <<build, ta, run, live, context, reported, statics>>

(* The runtime after TA_TearDownWamrRuntime, which destroys it whether or  *)
(* not it was initialised.                                                 *)
TornDown == wasm_runtime_destroy(Tree(build), rt)

(* Mutant: the buffers of a failed run are kept.                           *)
TearDown_success_only ==
    /\ pc = "teardown"
    /\ singleton' = 0 /\ context' = {} /\ rt' = TornDown
    /\ Access((IF context # {} THEN AllocatorReads(rt) ELSE {}) \cup DestroyCallReads(Tree(build), rt))
    /\ live' = IF result = "success" THEN live \ {run} ELSE live
    /\ pc' = "idle"
    /\ UNCHANGED <<build, ta, result, run, reported, heap_size, linear_memory>>

(* The label "error" of TA_RunWasm: TA_TearDownWamrRuntime, then both      *)
(* buffers are freed and the result is returned.                           *)
TearDown ==
    /\ pc = "teardown"
    /\ singleton' = 0 /\ context' = {} /\ rt' = TornDown
    /\ Access((IF context # {} THEN AllocatorReads(rt) ELSE {}) \cup DestroyCallReads(Tree(build), rt))
    /\ live' = live \ {run}
    /\ pc' = "idle"
    /\ UNCHANGED <<build, ta, result, run, reported, heap_size, linear_memory>>

(* The steps of a command, once the client has invoked it.                 *)
TaStep == \/ InitializeRuntime \/ LoadModule \/ InstantiateModule
          \/ TA_ExecuteWamrRuntime \/ TearDown

(* A client that makes the calls in any order.                             *)
Client ==
    \/ TA_OpenSessionEntryPoint \/ TA_CloseSessionEntryPoint
    \/ \E s \in HeapSizes : TA_SetHeapSize(s)
    \/ \E s \in LinearMemories : TA_SetLinearMemory(s)
    \/ TA_BadParameters \/ TA_RunWasm

TaSpec == TaInit /\ [][Client \/ TaStep]_taVars

(* Nothing that the runtime keeps from an earlier run is used after the    *)
(* heap buffer of that run was freed, although neither the pool, nor the   *)
(* list of natives, nor the map of external references is ever checked.    *)
NoDanglingAccess == dangling = {}

(* The lifetimes nest: a running guest has its module, its module a pool   *)
(* in the heap of this very run, and the singleton that the host functions *)
(* of the guest rely on points to this run and to no other.                *)
LifetimesNest ==
    /\ context # {} => rt.pool = run /\ run \in live
    /\ pc = "execute" => "module_inst" \in context /\ singleton = run
    /\ singleton # 0 => pc \in {"execute", "teardown"} /\ "module_inst" \in context

(* Between two commands nothing of a run is left, whatever failed in it:   *)
(* no buffer, no module, no singleton.                                     *)
NothingLeft == pc = "idle" => live = {} /\ context = {} /\ singleton = 0

(* wasm_export.h: wasm_runtime_full_init returns "true if success, false   *)
(* otherwise": after true there is a runtime in the buffer it was given.   *)
ReportedInitIsReal ==
    reported /\ pc = "load" => rt.pool = run /\ rt.natives = run
=============================================================================
