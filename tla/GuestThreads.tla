---------------------------- MODULE GuestThreads ----------------------------
(***************************************************************************)
(* The threads of a guest that is linked against one of the two libraries, *)
(* lib-wasi-threads or lib-pthread, on the thread manager.                 *)
(***************************************************************************)
EXTENDS WasiThreads, Pthreads

VARIABLE library   \* the one it is linked against

guestVars == <<library, vars, wasiVars, pthreadVars>>

GuestInit == library \in {"wasi", "pthread"} /\ WasiInit /\ PthreadInit

Linked(lib, others) == library = lib /\ UNCHANGED <<library, others>>

GuestNext == \/ Linked("wasi", pthreadVars) /\ WasiNext
             \/ Linked("pthread", wasiVars) /\ PthreadNext

(* A thread that can go on by itself, or that is at a check of its flags   *)
(* and has been told to end                                                *)
Goes(t) == \/ Linked("wasi", pthreadVars) /\ WasiGoes(t)
           \/ Linked("pthread", wasiVars) /\ PthreadGoes(t)

Stops(t) == /\ env[t].terminate /\ Leave(t)
            /\ UNCHANGED <<cluster_max_thread_num, library, wasiVars, pthreadVars>>

(* Threads are scheduled, and the interpreter looks at its flags; nothing  *)
(* makes a guest begin, join, cancel, trap or return, or the embedder do   *)
(* anything.                                                               *)
Spec == /\ GuestInit /\ [][GuestNext]_guestVars
        /\ \A t \in Envs : WF_guestVars(Goes(t)) /\ WF_guestVars(Stops(t))

(* Once main destroys its instance, and the other threads are through with *)
(* their guests, the cluster is freed.  Only wasi threads: a thread that   *)
(* is detached, which pthread_detach does, may outlive main.               *)
ClusterIsFreed ==
    (library = "wasi" /\ goal = "destroy" /\ \A t \in Spawned : pc[t] # "run") ~>
        (~cluster_alive \/ \E t \in Spawned : pc[t] = "run")

=============================================================================
