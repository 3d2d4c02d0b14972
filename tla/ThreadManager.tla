--------------------------- MODULE ThreadManager ---------------------------
(***************************************************************************)
(* The thread manager of WAMR 2.4.1 (thread_manager.c): the cluster of a   *)
(* main thread and the threads its guest has started, each with its        *)
(* exec_env.  A step is what a thread does between two places where it may *)
(* have to wait: for a mutex, a condition or the end of a native thread.   *)
(*                                                                         *)
(* An exec_env stands for its thread as well.  The list of a cluster is a  *)
(* set: nothing depends on its order.  The address of a freed exec_env is  *)
(* not used again, and os_cond_wait returns only when it is signalled.     *)
(***************************************************************************)
EXTENDS Naturals, FiniteSets

CONSTANTS Envs,        \* the exec_envs there may be
          Main,        \* the one of the main thread
          NoOne,       \* holder of a free mutex
          MaxThreads   \* bound on cluster_max_thread_num

ASSUME ThreadManagerAssumption ==
    Main \in Envs /\ NoOne \notin Envs /\ MaxThreads \in Nat

VARIABLES cluster_max_thread_num,  \* set before there is a cluster
          exec_env_list, has_exception, processing,
          cluster_alive,  \* the cluster has not been freed
          list_lock,      \* cluster_list_lock
          cluster_lock,   \* cluster->lock
          wait_lock,      \* exec_env->wait_lock
          env,            \* the fields of each exec_env
          native,         \* what the system keeps of each native thread: it is
                          \* "joinable" or "detached" while it runs; one that
                          \* has "ended" joinable stays until it is "released"
          pc,             \* where each thread is
          peer,           \* the exec_env it is busy with
          visit,          \* those it has yet to visit, or has visited
          back,           \* where it goes on after a join
          goal            \* where main goes on after it has waited for all

cluster == <<exec_env_list, has_exception, processing, cluster_alive>>
locks == <<list_lock, cluster_lock, wait_lock>>
local == <<pc, peer, visit, back, goal>>
vars == <<cluster_max_thread_num, cluster, locks, env, native, local>>

Spawned == Envs \ {Main}

Fresh == [terminate |-> FALSE, handle |-> FALSE, wait_count |-> 0,
          thread_is_detached |-> FALSE]

(* wasm_exec_env_create and wasm_cluster_create: main runs its guest *)
Init ==
    /\ cluster_max_thread_num \in 1 .. MaxThreads
    /\ exec_env_list = {Main}
    /\ has_exception = FALSE /\ processing = FALSE /\ cluster_alive = TRUE
    /\ list_lock = NoOne /\ cluster_lock = NoOne
    /\ wait_lock = [e \in Envs |-> NoOne]
    /\ env = [e \in Envs |-> IF e = Main THEN [Fresh EXCEPT !.handle = TRUE] ELSE Fresh]
    /\ native = [e \in Envs |-> IF e = Main THEN "joinable" ELSE "none"]
    /\ pc = [e \in Envs |-> IF e = Main THEN "run" ELSE "none"]
    /\ peer = [e \in Envs |-> NoOne]
    /\ visit = [e \in Envs |-> {}]
    /\ back = [e \in Envs |-> "run"]
    /\ goal = "idle"

At(t, here) == pc[t] = here

Goto(t, there) == pc' = [pc EXCEPT ![t] = there]

Free(lock) == lock = NoOne

(* The exec_envs that have not been used; there is no limit in the code *)
Unused == {e \in Envs : At(e, "none")}

(* CHECK_SUSPEND_FLAGS before a call of the guest *)
MayCall(t) == At(t, "run") /\ ~env[t].terminate

-----------------------------------------------------------------------------
(* wasm_cluster_create_thread for the exec_env peer[t].  The cluster       *)
(* refuses, or memory or the system does ...                               *)
CreateFails(t) ==
    /\ At(t, "create") /\ Free(cluster_lock)
    /\ Goto(t, "create_failed")
    /\ UNCHANGED <<cluster, locks, env, native, peer, visit, back, goal>>

(* ... or the exec_env joins the list and its thread is made, which the    *)
(* creator waits for with cluster->lock in its hands.  Until then nobody   *)
(* else can come to the new wait_lock.                                     *)
MayCreate ==
    /\ ~has_exception /\ ~processing
    /\ Cardinality(exec_env_list) # cluster_max_thread_num + 1

Create(t) ==
    /\ At(t, "create") /\ Free(cluster_lock)
    /\ MayCreate
    /\ cluster_lock' = t
    /\ exec_env_list' = exec_env_list \cup {peer[t]}
    /\ env' = [env EXCEPT ![peer[t]].terminate = env[t].terminate]
    /\ native' = [native EXCEPT ![peer[t]] = "joinable"]
    /\ pc' = [pc EXCEPT ![t] = "created", ![peer[t]] = "start"]
    /\ UNCHANGED <<has_exception, processing, cluster_alive, list_lock, wait_lock,
                   peer, visit, back, goal>>

(* thread_manager_start_routine: os_self_thread, and the creator is told *)
Start(t) ==
    /\ At(t, "start") /\ Free(wait_lock[t])
    /\ env' = [env EXCEPT ![t].handle = TRUE]
    /\ Goto(t, "routine")
    /\ UNCHANGED <<cluster, locks, native, peer, visit, back, goal>>

(* os_cond_wait returns *)
Created(t) ==
    /\ At(t, "created") /\ Free(wait_lock[peer[t]])
    /\ env[peer[t]].handle
    /\ cluster_lock' = NoOne
    /\ Goto(t, "create_done")
    /\ UNCHANGED <<cluster, list_lock, wait_lock, env, native, peer, visit, back, goal>>

-----------------------------------------------------------------------------
(* A trap, or proc_exit: wasm_set_exception looks for the thread in the    *)
(* clusters ...                                                            *)
Trap(t) ==
    /\ MayCall(t)
    /\ Goto(t, "trap")
    /\ UNCHANGED <<cluster, locks, env, native, peer, visit, back, goal>>

TrapBegin(t) ==
    /\ At(t, "trap") /\ Free(list_lock)
    /\ list_lock' = t
    /\ Goto(t, "trap_search")
    /\ UNCHANGED <<cluster, cluster_lock, wait_lock, env, native, peer, visit, back, goal>>

TrapSearch(t) ==
    /\ At(t, "trap_search") /\ Free(cluster_lock)
    /\ list_lock' = NoOne
    /\ Goto(t, "spread")
    /\ UNCHANGED <<cluster, cluster_lock, wait_lock, env, native, peer, visit, back, goal>>

(* ... and wasm_cluster_set_exception marks every thread of its cluster *)
Mut_SpreadBegin(t) ==
    /\ At(t, "spread") /\ Free(cluster_lock)
    /\ cluster_lock' = t
    /\ has_exception' = TRUE
    /\ visit' = [visit EXCEPT ![t] = exec_env_list \ {t}]
    /\ Goto(t, "spreading")
    /\ UNCHANGED <<exec_env_list, processing, cluster_alive, list_lock, wait_lock,
                   env, native, peer, back, goal>>

SpreadBegin(t) ==
    /\ At(t, "spread") /\ Free(cluster_lock)
    /\ cluster_lock' = t
    /\ has_exception' = TRUE
    /\ visit' = [visit EXCEPT ![t] = exec_env_list]
    /\ Goto(t, "spreading")
    /\ UNCHANGED <<exec_env_list, processing, cluster_alive, list_lock, wait_lock,
                   env, native, peer, back, goal>>

(* set_exception_visitor, under cluster->lock *)
SpreadTo(t, e) ==
    /\ At(t, "spreading") /\ e \in visit[t] /\ Free(wait_lock[e])
    /\ env' = [env EXCEPT ![e].terminate = TRUE]
    /\ visit' = [visit EXCEPT ![t] = @ \ {e}]
    /\ UNCHANGED <<cluster, locks, native, pc, peer, back, goal>>

SpreadEnd(t) ==
    /\ At(t, "spreading") /\ visit[t] = {}
    /\ cluster_lock' = NoOne
    /\ Goto(t, "run")
    /\ UNCHANGED <<cluster, list_lock, wait_lock, env, native, peer, visit, back, goal>>

-----------------------------------------------------------------------------
(* The start routine has returned, or the guest has called pthread_exit:   *)
(* thread_manager_start_routine and wasm_cluster_exit_thread end alike.    *)
ExitBegin(t) ==
    /\ At(t, "exit") /\ Free(list_lock)
    /\ list_lock' = t
    /\ Goto(t, "exiting")
    /\ UNCHANGED <<cluster, cluster_lock, wait_lock, env, native, peer, visit, back, goal>>

Exit(t) ==
    /\ At(t, "exiting") /\ Free(cluster_lock)
    /\ list_lock' = NoOne
    /\ exec_env_list' = exec_env_list \ {t}
    /\ native' = [native EXCEPT ![t] =
                     IF env[t].thread_is_detached \/ env[t].wait_count = 0 THEN "released"
                     ELSE "ended"]
    /\ env' = [env EXCEPT ![t] = Fresh]
    /\ Goto(t, "ended")
    /\ UNCHANGED <<has_exception, processing, cluster_alive, cluster_lock, wait_lock,
                   peer, visit, back, goal>>

-----------------------------------------------------------------------------
(* wasm_cluster_join_thread(peer[t]): clusters_have_exec_env under         *)
(* cluster_list_lock ...                                                   *)
JoinBegin(t) ==
    /\ At(t, "join") /\ Free(list_lock)
    /\ list_lock' = t
    /\ Goto(t, "join_search")
    /\ UNCHANGED <<cluster, cluster_lock, wait_lock, env, native, peer, visit, back, goal>>

Mut_JoinSearch(t) ==
    /\ At(t, "join_search") /\ Free(cluster_lock)
    /\ \/ /\ peer[t] \in exec_env_list /\ ~env[peer[t]].thread_is_detached
          /\ Goto(t, "join_count")
          /\ list_lock' = NoOne
       \/ /\ peer[t] \notin exec_env_list \/ env[peer[t]].thread_is_detached
          /\ list_lock' = NoOne
          /\ Goto(t, back[t])
    /\ UNCHANGED <<cluster, cluster_lock, wait_lock, env, native, peer, visit, back, goal>>

JoinSearch(t) ==
    /\ At(t, "join_search") /\ Free(cluster_lock)
    /\ \/ /\ peer[t] \in exec_env_list /\ ~env[peer[t]].thread_is_detached
          /\ Goto(t, "join_count")
          /\ UNCHANGED list_lock
       \/ /\ peer[t] \notin exec_env_list \/ env[peer[t]].thread_is_detached
          /\ list_lock' = NoOne
          /\ Goto(t, back[t])
    /\ UNCHANGED <<cluster, cluster_lock, wait_lock, env, native, peer, visit, back, goal>>

(* ... which keeps the thread from ending before it knows of the joiner *)
JoinCount(t) ==
    /\ At(t, "join_count") /\ Free(wait_lock[peer[t]])
    /\ env' = [env EXCEPT ![peer[t]].wait_count = @ + 1]
    /\ list_lock' = NoOne
    /\ Goto(t, "joining")
    /\ UNCHANGED <<cluster, cluster_lock, wait_lock, native, peer, visit, back, goal>>

(* os_thread_join *)
Join(t) ==
    /\ At(t, "joining") /\ native[peer[t]] = "ended"
    /\ native' = [native EXCEPT ![peer[t]] = "released"]
    /\ Goto(t, back[t])
    /\ UNCHANGED <<cluster, locks, env, peer, visit, back, goal>>

Joins(t) == JoinBegin(t) \/ JoinSearch(t) \/ JoinCount(t) \/ Join(t)

-----------------------------------------------------------------------------
(* wasm_cluster_detach_thread(peer[t]) and wasm_cluster_cancel_thread      *)
(* search in the same way.                                                 *)
DetachBegin(t) ==
    /\ At(t, "detach") /\ Free(list_lock)
    /\ list_lock' = t
    /\ Goto(t, "detach_search")
    /\ UNCHANGED <<cluster, cluster_lock, wait_lock, env, native, peer, visit, back, goal>>

Mut_MayDetach(e) == e \in exec_env_list /\ ~env[e].thread_is_detached

MayDetach(e) ==
    /\ e \in exec_env_list
    /\ env[e].wait_count = 0 /\ ~env[e].thread_is_detached

Detach(t) ==
    /\ At(t, "detach_search") /\ Free(cluster_lock)
    /\ IF MayDetach(peer[t])
       THEN /\ env' = [env EXCEPT ![peer[t]].thread_is_detached = TRUE]
            /\ native' = [native EXCEPT ![peer[t]] = "detached"]
       ELSE UNCHANGED <<env, native>>
    /\ list_lock' = NoOne
    /\ Goto(t, "run")
    /\ UNCHANGED <<cluster, cluster_lock, wait_lock, peer, visit, back, goal>>

CancelBegin(t) ==
    /\ At(t, "cancel") /\ Free(list_lock)
    /\ list_lock' = t
    /\ Goto(t, "cancel_search")
    /\ UNCHANGED <<cluster, cluster_lock, wait_lock, env, native, peer, visit, back, goal>>

CancelSearch(t) ==
    /\ At(t, "cancel_search") /\ Free(cluster_lock)
    /\ IF peer[t] \in exec_env_list THEN Goto(t, "cancel_flag") /\ UNCHANGED list_lock
       ELSE Goto(t, "run") /\ list_lock' = NoOne
    /\ UNCHANGED <<cluster, cluster_lock, wait_lock, env, native, peer, visit, back, goal>>

(* set_thread_cancel_flags *)
CancelFlag(t) ==
    /\ At(t, "cancel_flag") /\ Free(wait_lock[peer[t]])
    /\ env' = [env EXCEPT ![peer[t]].terminate = TRUE]
    /\ list_lock' = NoOne
    /\ Goto(t, "run")
    /\ UNCHANGED <<cluster, cluster_lock, wait_lock, native, peer, visit, back, goal>>

-----------------------------------------------------------------------------
(* wasm_cluster_wait_for_all_except_self, by main alone: visit[t] is       *)
(* proc_nodes; cluster->lock is given up around each visit.                *)
WaitForAll(t, after) ==
    /\ goal' = after
    /\ visit' = [visit EXCEPT ![t] = {}]
    /\ Goto(t, "wait")
    /\ UNCHANGED <<cluster, locks, env, native, peer, back>>

WaitVisit(t, e) ==
    /\ At(t, "wait") /\ Free(cluster_lock)
    /\ e \in exec_env_list \ visit[t]
    /\ visit' = [visit EXCEPT ![t] = @ \cup {e}]
    /\ processing' = TRUE
    /\ IF e = t THEN UNCHANGED <<pc, peer, back>>
       ELSE /\ peer' = [peer EXCEPT ![t] = e]
            /\ back' = [back EXCEPT ![t] = "wait"]
            /\ Goto(t, "join")
    /\ UNCHANGED <<exec_env_list, has_exception, cluster_alive, locks, env, native, goal>>

WaitEnd(t) ==
    /\ At(t, "wait") /\ Free(cluster_lock)
    /\ exec_env_list \subseteq visit[t]
    /\ processing' = FALSE
    /\ visit' = [visit EXCEPT ![t] = {}]
    /\ peer' = [peer EXCEPT ![t] = NoOne]
    /\ Goto(t, goal)
    /\ UNCHANGED <<exec_env_list, has_exception, cluster_alive, locks, env, native, back, goal>>

(* The rest of wasm_exec_env_destroy: "this is the only alive thread, so   *)
(* we don't acquire cluster->lock"; the last one frees the cluster.        *)
Mut_Destroy(t) ==
    /\ At(t, "destroy")
    /\ exec_env_list' = exec_env_list \ {t}
    /\ IF exec_env_list = {} THEN Free(list_lock) /\ cluster_alive' = FALSE
       ELSE UNCHANGED cluster_alive
    /\ Goto(t, "ended")
    /\ UNCHANGED <<has_exception, processing, locks, env, native, peer, visit, back, goal>>

Destroy(t) ==
    /\ At(t, "destroy")
    /\ exec_env_list' = exec_env_list \ {t}
    /\ IF exec_env_list = {t} THEN Free(list_lock) /\ cluster_alive' = FALSE
       ELSE UNCHANGED cluster_alive
    /\ Goto(t, "ended")
    /\ UNCHANGED <<has_exception, processing, locks, env, native, peer, visit, back, goal>>

-----------------------------------------------------------------------------
(* The guest: a thread ends when its code does, or at the next check of    *)
(* its flags; main's embedder may ask for the exit code once, and destroys *)
(* the instance.                                                           *)
Mut_Leave(t) ==
    /\ MayCall(t)
    /\ Goto(t, IF t = Main THEN "idle" ELSE "return")
    /\ UNCHANGED <<cluster, locks, env, native, peer, visit, back, goal>>

Leave(t) ==
    /\ At(t, "run")
    /\ Goto(t, IF t = Main THEN "idle" ELSE "return")
    /\ UNCHANGED <<cluster, locks, env, native, peer, visit, back, goal>>

Embedder == \/ At(Main, "idle") /\ \E after \in {"asked", "destroy"} : WaitForAll(Main, after)
            \/ At(Main, "asked") /\ WaitForAll(Main, "destroy")

(* Its guest computes something, or there is nothing more to do *)
Computes(t) == At(t, "run") \/ (t = Main /\ At(t, "ended"))

ThreadStep(t) == \/ CreateFails(t) \/ Create(t) \/ Start(t) \/ Created(t)
                 \/ TrapBegin(t) \/ TrapSearch(t)
                 \/ SpreadBegin(t) \/ SpreadEnd(t) \/ \E e \in Envs : SpreadTo(t, e)
                 \/ ExitBegin(t) \/ Exit(t) \/ Joins(t)
                 \/ DetachBegin(t) \/ Detach(t)
                 \/ CancelBegin(t) \/ CancelSearch(t) \/ CancelFlag(t)
                 \/ \E e \in Envs : WaitVisit(t, e)
                 \/ WaitEnd(t) \/ Destroy(t)

-----------------------------------------------------------------------------
Quiet == {"none", "new", "ended"}

(* Nobody touches what has been freed: an exec_env a thread is about to    *)
(* read or mark is still in the list, the cluster outlives every thread    *)
(* but main, and no mutex is destroyed while it is held.  Nor what is not  *)
(* set yet: "Wait until the new_exec_env->handle is set to avoid it is     *)
(* illegally accessed after unlocking cluster->lock".                      *)
NobodyUsesFreed ==
    /\ \A t \in Envs :
          /\ pc[t] \in {"created", "join_count", "cancel_flag"} => peer[t] \in exec_env_list
          /\ At(t, "spreading") => visit[t] \subseteq exec_env_list
          /\ At(t, "ended") => t \notin exec_env_list /\ Free(wait_lock[t])
    /\ ~cluster_alive => \A t \in Envs : pc[t] \in Quiet
    /\ Free(cluster_lock) => \A e \in exec_env_list : env[e].handle

(* A native thread is released exactly once: os_thread_join is called with *)
(* the handle of a thread that is not detached and that nobody else joins, *)
(* and one that ends joinable has its joiner.                              *)
ThreadsReleasedOnce ==
    /\ \A t \in Envs : At(t, "joining") =>
          /\ native[peer[t]] \in {"joinable", "ended"}
          /\ \A u \in Envs \ {t} : At(u, "joining") => peer[u] # peer[t]
    /\ \A e \in Spawned : native[e] = "ended" =>
          \E t \in Envs : At(t, "joining") /\ peer[t] = e

=============================================================================
