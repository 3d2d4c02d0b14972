----------------------------- MODULE WaitNotify -----------------------------
(***************************************************************************)
(* The threads of one cluster: either those of GuestMutex, or threads that *)
(* store, wait and notify in any order.                                    *)
(***************************************************************************)
EXTENDS GuestMutex

CONSTANTS MaxCounted,  \* bound: notifications one sleep may be counted in
          Endable      \* threads that may be told to end

VARIABLE guest   \* "mutex" or "any"

allVars == <<memVars, guestVars, guest>>

AllInit == GuestInit /\ guest \in {"mutex", "any"}

(* What a thread may call: any operation on any address *)
Calls(t) ==
    \E a \in Addresses :
        \/ \E v \in Values : mem[a] # v /\ AtomicStore(t, a, v)
        \/ \E v \in Values, timeout \in Timeouts : AtomicWait(t, a, v, timeout)
        \/ \E v \in Values : AtomicWaitFails(t, a, v)
        \/ \E count \in 1..Cardinality(Threads) :
              /\ \A u \in DOMAIN node : node[u].counted < MaxCounted
              /\ AtomicNotify(t, a, count)

Wakes(t) == /\ guest = "any" /\ CondWake(t)
            /\ UNCHANGED <<guestVars, guest>>

AnyNext == /\ guest = "any"
           /\ \E t \in Threads : Calls(t) \/ (t \in Endable \ terminated /\ Terminate(t))
           /\ UNCHANGED <<guestVars, guest>>

MutexStep(t) == guest = "mutex" /\ GuestStep(t) /\ UNCHANGED guest

WaitNext == \/ \E t \in Threads : Wakes(t) \/ MutexStep(t)
            \/ AnyNext
            \/ guest = "mutex" /\ Done /\ UNCHANGED guest

(* A sleeping thread wakes: os_cond_reltimedwait returns after its slice.  *)
(* Threads of the lock's guest are scheduled; nothing makes one of the     *)
(* other guest call anything.                                              *)
WaitSpec == /\ AllInit /\ [][WaitNext]_allVars
            /\ \A t \in Threads : WF_allVars(Wakes(t)) /\ WF_allVars(MutexStep(t))

-----------------------------------------------------------------------------
(* The map has an entry for exactly the addresses somebody sleeps at, and  *)
(* its list holds each sleeper there once: no node that has been freed is  *)
(* left for notify_wait_list to write to, no sleeper is out of its reach   *)
(* (bh_assert(check_ret)), and no empty wait info stays behind.            *)
WaitListsAreExact ==
    /\ DOMAIN wait_map = {node[t].address : t \in DOMAIN node}
    /\ \A a \in DOMAIN wait_map :
          /\ Range(wait_map[a]) = {t \in DOMAIN node : node[t].address = a}
          /\ IsInjective(wait_map[a])

(* A wait says "woken" exactly when a notification counted it, also when   *)
(* the notification comes in the last slice or while the thread is being   *)
(* ended: is_timeout is read from the node's status.                       *)
WokenMeansCounted ==
    /\ returned.result = "woken" => returned.counted > 0
    /\ returned.result = "timed-out" => returned.counted = 0

(* The word that is waited at is a lock: one thread at a time is past      *)
(* try_lock, however many have been woken, so that the counter is still    *)
(* what a thread has read when it writes it and no addition is lost.       *)
LockIsExclusive ==
    guest = "mutex" =>
        \A t \in Threads : g_pc[t] \in {"read", "write", "unlock"} =>
            /\ mem[my_mutex] = 1
            /\ \A u \in Threads \ {t} : g_pc[u] \notin {"read", "write", "unlock"}
            /\ g_pc[t] = "write" => loaded[t] = g_val

(* A notified sleeper, one with a finite timeout and one that is told to   *)
(* end each return; only an endless wait that nobody notifies may last.    *)
SleepersReturn ==
    \A t \in Threads :
        (Waiting(t) /\ (\/ node[t].status = "S_NOTIFIED"
                        \/ node[t].left # Forever
                        \/ t \in terminated)) ~> ~Waiting(t)

(* main's pthread_join returns: no thread of the lock's guest sleeps at a  *)
(* lock that is free with nobody left to wake it, although a notification  *)
(* may be spent on a waiter that an earlier one has already woken, as      *)
(* notified nodes stay in the list until their threads run.  No addition   *)
(* is lost to two threads that hold the lock at once: "Value of counter    *)
(* after add update ... (expected=...)".                                   *)
EveryThreadFinishes ==
    guest = "mutex" => <>(Joined /\ g_val = NumIter * Cardinality(Threads))

=============================================================================
