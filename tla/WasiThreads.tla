---------------------------- MODULE WasiThreads ----------------------------
(***************************************************************************)
(* lib-wasi-threads on the thread manager: any thread of the guest may     *)
(* call thread-spawn, trap or return.  Thread ids come from TidAllocator,  *)
(* under a mutex of their own that is held for no longer than a call.      *)
(***************************************************************************)
EXTENDS ThreadManager, TidAllocator

VARIABLE tid   \* exec_env -> its thread id, in thread_start_arg

wasiVars == <<tidVars, tid>>

WasiInit == Init /\ tid = <<>> /\ tid_allocator_init

(* thread_spawn_wrapper up to wasm_cluster_create_thread.  What fails      *)
(* before an id is taken leaves no trace.                                  *)
thread_spawn(t) ==
    /\ MayCall(t) /\ Unused # {}
    /\ LET e == CHOOSE u \in Unused : TRUE
       IN  /\ Pop \/ GrowAndPop
           /\ tid' = [f \in DOMAIN tid \cup {e} |-> IF f = e THEN ids'[pos' + 1] ELSE tid[f]]
           /\ peer' = [peer EXCEPT ![t] = e]
           /\ pc' = [pc EXCEPT ![t] = "create", ![e] = "new"]
    /\ UNCHANGED <<cluster, locks, env, native, visit, back, goal>>

(* thread_spawn_fail: the id is given back and the guest gets -1 *)
Mut_SpawnFails(t) ==
    /\ At(t, "create_failed")
    /\ tid' = [e \in DOMAIN tid \ {peer[t]} |-> tid[e]]
    /\ UNCHANGED tidVars
    /\ pc' = [pc EXCEPT ![t] = "run", ![peer[t]] = "none"]
    /\ peer' = [peer EXCEPT ![t] = NoOne]
    /\ UNCHANGED <<cluster, locks, env, native, visit, back, goal>>

SpawnFails(t) ==
    /\ At(t, "create_failed")
    /\ tid' = [e \in DOMAIN tid \ {peer[t]} |-> tid[e]]
    /\ tid_allocator_release_tid(tid[peer[t]])
    /\ pc' = [pc EXCEPT ![t] = "run", ![peer[t]] = "none"]
    /\ peer' = [peer EXCEPT ![t] = NoOne]
    /\ UNCHANGED <<cluster, locks, env, native, visit, back, goal>>

SpawnDone(t) ==
    /\ At(t, "create_done")
    /\ peer' = [peer EXCEPT ![t] = NoOne]
    /\ Goto(t, "run")
    /\ UNCHANGED <<cluster, locks, env, native, visit, back, goal, wasiVars>>

(* thread_start enters the guest ... *)
thread_start(t) ==
    /\ At(t, "routine")
    /\ Goto(t, "run")
    /\ UNCHANGED <<cluster, locks, env, native, peer, visit, back, goal, wasiVars>>

(* ... and gives the id back when the guest has returned *)
thread_end(t) ==
    /\ At(t, "return")
    /\ tid' = [e \in DOMAIN tid \ {t} |-> tid[e]]
    /\ tid_allocator_release_tid(tid[t])
    /\ Goto(t, "exit")
    /\ UNCHANGED <<cluster, locks, env, native, peer, visit, back, goal>>

(* What a thread does by itself once it has begun *)
WasiGoes(t) ==
    /\ \/ ThreadStep(t) /\ UNCHANGED wasiVars
       \/ SpawnFails(t) \/ SpawnDone(t) \/ thread_start(t) \/ thread_end(t)
    /\ UNCHANGED cluster_max_thread_num

(* What the guest decides *)
WasiGuest(t) == \/ thread_spawn(t)
                \/ (Trap(t) \/ Leave(t)) /\ UNCHANGED wasiVars

WasiNext == /\ \/ \E t \in Envs : WasiGoes(t) \/ WasiGuest(t)
               \/ Embedder /\ UNCHANGED wasiVars
               \/ \E t \in Envs : Computes(t) /\ UNCHANGED <<vars, wasiVars>>
            /\ UNCHANGED cluster_max_thread_num

WasiSpec == WasiInit /\ [][WasiNext]_<<vars, wasiVars>>

-----------------------------------------------------------------------------
(* Two threads never have the same id, and every id that is given out is   *)
(* some thread's: none is lost when a thread cannot be created, and none   *)
(* is given back twice, in whatever order threads end (thread_spawn_fail   *)
(* and thread_start both release).                                         *)
IdsBelongToThreads ==
    /\ \A e, f \in DOMAIN tid : tid[e] = tid[f] => e = f
    /\ held = {tid[e] : e \in DOMAIN tid}

(* "Terminate the thread so it can exit from dead loops"                   *)
(* (set_exception_visitor): after a trap every other thread ends, whatever *)
(* it was doing, and its id is given back.                                 *)
ExceptionEndsAll ==
    has_exception ~> (\A t \in Spawned : pc[t] \in Quiet) /\ tid = <<>>

=============================================================================
