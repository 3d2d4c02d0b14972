----------------------------- MODULE GuestMutex -----------------------------
(***************************************************************************)
(* The guest of tests/standalone/test-pthread/threads-opcode-wasm-apps/    *)
(* atomic_wait_notify.c on the wait and notify of the runtime: threads     *)
(* that take a lock, add to a counter and give the lock back, NumIter      *)
(* times each.  The lock is one word; who cannot take it waits, endlessly, *)
(* for it to change, and who gives it back notifies one waiter.            *)
(***************************************************************************)
EXTENDS SharedMemory

CONSTANTS my_mutex,  \* the address of the lock
          NumIter    \* rounds of a thread

ASSUME GuestMutexAssumption ==
    my_mutex \in Addresses /\ {0, 1} \subseteq Values /\ Forever \in Timeouts /\ NumIter \in Nat

VARIABLES g_pc,   \* where each thread is
          rounds, \* rounds it has finished
          loaded, \* the counter as a thread has read it
          g_val   \* the counter

guestVars == <<g_pc, rounds, loaded, g_val>>

GuestInit == /\ MemInit
             /\ g_pc = [t \in Threads |-> "try_lock"]
             /\ rounds = [t \in Threads |-> 0]
             /\ loaded = [t \in Threads |-> 0]
             /\ g_val = 0

At(t, here) == g_pc[t] = here /\ ~Waiting(t)

Goto(t, there) == g_pc' = [g_pc EXCEPT ![t] = there]

(* __atomic_compare_exchange of 0 by 1 *)
try_lock(t) ==
    /\ At(t, "try_lock") /\ rounds[t] < NumIter
    /\ mem' = IF mem[my_mutex] = 0 THEN [mem EXCEPT ![my_mutex] = 1] ELSE mem
    /\ Goto(t, IF mem[my_mutex] = 0 THEN "read" ELSE "wait")
    /\ UNCHANGED <<wait_map, node, terminated, returned, rounds, loaded, g_val>>

(* memory.atomic.wait32(&my_mutex, 1, -1), whatever it returns *)
Mut_Wait(t) ==
    /\ At(t, "wait")
    /\ AtomicWait(t, my_mutex, 1, Forever)
    /\ Goto(t, "read")
    /\ UNCHANGED <<rounds, loaded, g_val>>

Wait(t) ==
    /\ At(t, "wait")
    /\ AtomicWait(t, my_mutex, 1, Forever)
    /\ Goto(t, "try_lock")
    /\ UNCHANGED <<rounds, loaded, g_val>>

(* g_val++ is a load and a store *)
Read(t) ==
    /\ At(t, "read")
    /\ loaded' = [loaded EXCEPT ![t] = g_val]
    /\ Goto(t, "write")
    /\ UNCHANGED <<memVars, rounds, g_val>>

Write(t) ==
    /\ At(t, "write")
    /\ g_val' = loaded[t] + 1
    /\ Goto(t, "unlock")
    /\ UNCHANGED <<memVars, rounds, loaded>>

lock_release(t) ==
    /\ At(t, "unlock")
    /\ AtomicStore(t, my_mutex, 0)
    /\ Goto(t, "notify")
    /\ UNCHANGED <<rounds, loaded, g_val>>

Notify(t) ==
    /\ At(t, "notify")
    /\ AtomicNotify(t, my_mutex, 1)
    /\ Goto(t, "try_lock")
    /\ rounds' = [rounds EXCEPT ![t] = @ + 1]
    /\ UNCHANGED <<loaded, g_val>>

Sleeps(t) == CondWake(t) /\ UNCHANGED guestVars

GuestStep(t) == \/ try_lock(t) \/ Wait(t) \/ Read(t) \/ Write(t)
                \/ lock_release(t) \/ Notify(t) \/ Sleeps(t)

Joined == \A t \in Threads : rounds[t] = NumIter

(* main has joined its threads *)
Done == Joined /\ UNCHANGED <<memVars, guestVars>>

=============================================================================
