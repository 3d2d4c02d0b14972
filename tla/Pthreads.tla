------------------------------ MODULE Pthreads ------------------------------
(***************************************************************************)
(* lib-pthread on the thread manager: pthread_create, _join, _detach,      *)
(* _cancel and _exit of the guest.  A handle stands for the exec_env of    *)
(* its thread; handles are never used again.  A thread finds and reads an  *)
(* info node in one step.  The guest uses the calls as POSIX wants it: a   *)
(* thread is joined or detached at most once, cancelled once before that,  *)
(* and none of it by itself.  It does not trap: a trap takes cluster->lock *)
(* before each wait_lock and pthread_create takes them the other way       *)
(* round, so that the two may wait for each other.                         *)
(***************************************************************************)
EXTENDS ThreadManager

CONSTANTS Creators,     \* which threads' guests create threads,
          Joiners,      \* join them, or detach them,
          Cancellers    \* cancel them, or detach them

VARIABLES status,    \* info_node->status; "gone" when the node is deleted
          joinable,  \* info_node->joinable
          parent,    \* info_node->parent_exec_env
          stacks,    \* the exec_envs an aux stack segment is occupied for
          claimed    \* the threads the guest has joined or detached

pthreadVars == <<status, joinable, parent, stacks, claimed>>

PthreadInit ==
    /\ Init
    /\ status = [e \in Envs |-> "none"]
    /\ joinable = [e \in Envs |-> FALSE]
    /\ parent = [e \in Envs |-> NoOne]
    /\ stacks = {} /\ claimed = {}

-----------------------------------------------------------------------------
(* pthread_create_wrapper: the node, ... *)
pthread_create(t) ==
    /\ MayCall(t) /\ t \in Creators /\ Unused # {}
    /\ LET e == CHOOSE u \in Unused : TRUE
       IN  /\ status' = [status EXCEPT ![e] = "init"]
           /\ joinable' = [joinable EXCEPT ![e] = TRUE]
           /\ parent' = [parent EXCEPT ![e] = t]
           /\ peer' = [peer EXCEPT ![t] = e]
           /\ pc' = [pc EXCEPT ![t] = "aux", ![e] = "new"]
    /\ UNCHANGED <<cluster, locks, env, native, visit, back, goal, stacks, claimed>>

(* ... the stack of the thread (wasm_cluster_allocate_aux_stack), ... *)
AllocateAuxStack(t) ==
    /\ At(t, "aux") /\ Free(cluster_lock)
    /\ IF Cardinality(stacks) < cluster_max_thread_num
       THEN stacks' = stacks \cup {peer[t]} /\ Goto(t, "own_lock")
       ELSE UNCHANGED stacks /\ Goto(t, "fail")
    /\ UNCHANGED <<cluster, locks, env, native, peer, visit, back, goal, status, joinable,
                   parent, claimed>>

(* ... its own wait_lock, which it holds while the thread is created ... *)
LockSelf(t) ==
    /\ At(t, "own_lock") /\ Free(wait_lock[t])
    /\ wait_lock' = [wait_lock EXCEPT ![t] = t]
    /\ Goto(t, "create")
    /\ UNCHANGED <<cluster, list_lock, cluster_lock, env, native, peer, visit, back, goal,
                   pthreadVars>>

(* ... and until it waits for the thread to have filled in its node *)
UnlockSelf(t) ==
    /\ pc[t] \in {"create_done", "create_failed"}
    /\ wait_lock' = [wait_lock EXCEPT ![t] = NoOne]
    /\ Goto(t, IF At(t, "create_done") THEN "await" ELSE "fail")
    /\ UNCHANGED <<cluster, list_lock, cluster_lock, env, native, peer, visit, back, goal,
                   pthreadVars>>

CreateReturns(t) ==
    /\ At(t, "await") /\ Free(wait_lock[t])
    /\ status[peer[t]] # "init"
    /\ peer' = [peer EXCEPT ![t] = NoOne]
    /\ Goto(t, "run")
    /\ UNCHANGED <<cluster, locks, env, native, visit, back, goal, pthreadVars>>

(* The label fail: everything is freed, the segment of the stack too *)
Mut_pthread_create_fail(t) ==
    /\ At(t, "fail") /\ Free(cluster_lock)
    /\ status' = [status EXCEPT ![peer[t]] = "none"]
    /\ pc' = [pc EXCEPT ![t] = "run", ![peer[t]] = "none"]
    /\ peer' = [peer EXCEPT ![t] = NoOne]
    /\ UNCHANGED <<cluster, locks, env, native, visit, back, goal, joinable, parent, stacks,
                   claimed>>

pthread_create_fail(t) ==
    /\ At(t, "fail") /\ Free(cluster_lock)
    /\ stacks' = stacks \ {peer[t]}
    /\ status' = [status EXCEPT ![peer[t]] = "none"]
    /\ pc' = [pc EXCEPT ![t] = "run", ![peer[t]] = "none"]
    /\ peer' = [peer EXCEPT ![t] = NoOne]
    /\ UNCHANGED <<cluster, locks, env, native, visit, back, goal, joinable, parent, claimed>>

-----------------------------------------------------------------------------
(* pthread_start_routine: the node is put in the map, or there is no       *)
(* memory and it is deleted.                                               *)
pthread_start_routine(t) ==
    /\ At(t, "routine") /\ Free(wait_lock[parent[t]])
    /\ \/ status' = [status EXCEPT ![t] = "running"] /\ Goto(t, "run")
       \/ status' = [status EXCEPT ![t] = "gone"] /\ Goto(t, "free_aux")
    /\ UNCHANGED <<cluster, locks, env, native, peer, visit, back, goal, joinable, parent,
                   stacks, claimed>>

(* The guest has returned, or called pthread_exit: joinable is read, ... *)
ReadJoinable(t) ==
    /\ At(t, "return")
    /\ Goto(t, IF joinable[t] THEN "keep" ELSE "delete")
    /\ UNCHANGED <<cluster, locks, env, native, peer, visit, back, goal, pthreadVars>>

(* ... and the node gets the result or is deleted *)
EndNode(t) ==
    /\ pc[t] \in {"keep", "delete"}
    /\ status' = [status EXCEPT ![t] = IF At(t, "keep") THEN "exit" ELSE "gone"]
    /\ Goto(t, "free_aux")
    /\ UNCHANGED <<cluster, locks, env, native, peer, visit, back, goal, joinable, parent,
                   stacks, claimed>>

(* wasm_cluster_free_aux_stack, before the thread leaves the cluster *)
FreeAuxStack(t) ==
    /\ At(t, "free_aux") /\ Free(cluster_lock)
    /\ stacks' = stacks \ {t}
    /\ Goto(t, "exit")
    /\ UNCHANGED <<cluster, locks, env, native, peer, visit, back, goal, status, joinable,
                   parent, claimed>>

-----------------------------------------------------------------------------
(* The handles the guest has, of threads other than the caller's own *)
Known(t) == {e \in Spawned \ {t} : /\ status[e] # "none"
                                   /\ ~(pc[parent[e]] \in {"aux", "own_lock", "create", "created",
                                                           "create_done", "create_failed",
                                                           "await", "fail"}
                                        /\ peer[parent[e]] = e)}

(* pthread_join_wrapper: it waits for a thread that has not exited; for    *)
(* one that has, a millisecond.                                            *)
Mut_pthread_join(t, e) ==
    /\ MayCall(t) /\ t \in Joiners /\ e \in Known(t) \ claimed
    /\ claimed' = claimed \cup {e}
    /\ IF status[e] = "gone" THEN UNCHANGED <<pc, peer, back>>
       ELSE /\ peer' = [peer EXCEPT ![t] = e]
            /\ back' = [back EXCEPT ![t] = "joined"]
            /\ Goto(t, IF status[e] # "running" THEN "joined" ELSE "join")
    /\ UNCHANGED <<cluster, locks, env, native, visit, goal, status, joinable, parent, stacks>>

pthread_join(t, e) ==
    /\ MayCall(t) /\ t \in Joiners /\ e \in Known(t) \ claimed
    /\ claimed' = claimed \cup {e}
    /\ IF status[e] = "gone" THEN UNCHANGED <<pc, peer, back>>
       ELSE /\ peer' = [peer EXCEPT ![t] = e]
            /\ back' = [back EXCEPT ![t] = "joined"]
            /\ Goto(t, IF status[e] = "exit" THEN "joined" ELSE "join")
    /\ UNCHANGED <<cluster, locks, env, native, visit, goal, status, joinable, parent, stacks>>

(* Its last lines: the result goes to the guest *)
JoinReturns(t) ==
    /\ At(t, "joined")
    /\ peer' = [peer EXCEPT ![t] = NoOne]
    /\ Goto(t, "run")
    /\ UNCHANGED <<cluster, locks, env, native, visit, back, goal, pthreadVars>>

pthread_detach(t, e) ==
    /\ MayCall(t) /\ t \in Joiners \cup Cancellers /\ e \in Known(t) \ claimed
    /\ claimed' = claimed \cup {e}
    /\ IF status[e] = "gone" THEN UNCHANGED <<pc, peer, joinable>>
       ELSE /\ joinable' = [joinable EXCEPT ![e] = FALSE]
            /\ peer' = [peer EXCEPT ![t] = e]
            /\ Goto(t, "detach")
    /\ UNCHANGED <<cluster, locks, env, native, visit, back, goal, status, parent, stacks>>

pthread_cancel(t, e) ==
    /\ MayCall(t) /\ t \in Cancellers
    /\ e \in Known(t) \ claimed /\ status[e] \notin {"cancelled", "gone"}
    /\ status' = [status EXCEPT ![e] = "cancelled"]
    /\ joinable' = [joinable EXCEPT ![e] = FALSE]
    /\ peer' = [peer EXCEPT ![t] = e]
    /\ Goto(t, "cancel")
    /\ UNCHANGED <<cluster, locks, env, native, visit, back, goal, parent, stacks, claimed>>

-----------------------------------------------------------------------------
(* What a thread does by itself once it has begun *)
PthreadGoes(t) ==
    /\ \/ ThreadStep(t) /\ UNCHANGED pthreadVars
       \/ AllocateAuxStack(t) \/ LockSelf(t) \/ UnlockSelf(t) \/ CreateReturns(t)
       \/ pthread_create_fail(t) \/ pthread_start_routine(t)
       \/ ReadJoinable(t) \/ EndNode(t) \/ FreeAuxStack(t) \/ JoinReturns(t)
    /\ UNCHANGED cluster_max_thread_num

(* What the guest decides *)
PthreadGuest(t) ==
    \/ pthread_create(t)
    \/ \E e \in Spawned : pthread_join(t, e) \/ pthread_detach(t, e) \/ pthread_cancel(t, e)
    \/ Leave(t) /\ UNCHANGED pthreadVars

PthreadNext == /\ \/ \E t \in Envs : PthreadGoes(t) \/ PthreadGuest(t)
                  \/ Embedder /\ UNCHANGED pthreadVars
                  \/ \E t \in Envs : Computes(t) /\ UNCHANGED <<vars, pthreadVars>>
               /\ UNCHANGED cluster_max_thread_num

PthreadSpec == PthreadInit /\ [][PthreadNext]_<<vars, pthreadVars>>

-----------------------------------------------------------------------------
(* A segment of the auxiliary stack belongs to a thread of the cluster or  *)
(* to one that is being created: none is lost, whichever way a thread ends *)
(* or fails to begin.                                                      *)
StacksHaveOwners ==
    /\ Cardinality(stacks) <= cluster_max_thread_num
    /\ \A e \in stacks : e \in exec_env_list \/ At(e, "new")

(* pthread_join returns when the thread has run its last guest code.       *)
JoinedHaveReturned ==
    \A t \in Envs : At(t, "joined") => pc[peer[t]] \in {"free_aux", "exit", "exiting", "ended"}

(* Threads that have been cancelled end: there comes a time when no thread *)
(* with the flag of set_thread_cancel_flags is left, and only the end of a *)
(* thread takes its flag away.                                             *)
CancelledEnd ==
    (\E e \in Spawned : env[e].terminate) ~> (\A e \in Spawned : ~env[e].terminate)

=============================================================================
