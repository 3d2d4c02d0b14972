---------------------------- MODULE SharedMemory ----------------------------
(***************************************************************************)
(* memory.atomic.wait and memory.atomic.notify of WAMR 2.4.1               *)
(* (core/iwasm/common/wasm_shared_memory.c).  A waiter hangs a node in the *)
(* list of its address, in a map that has an entry only for addresses      *)
(* somebody waits at, and sleeps on the node's condition variable in       *)
(* slices of one second; after each slice, or when it is signalled, it     *)
(* looks at the node's status, its own termination and the time left.      *)
(*                                                                         *)
(* g_shared_memory_lock is held through each step below and given up only  *)
(* inside os_cond_reltimedwait, that is between AtomicWait and CondWake,   *)
(* and between two CondWakes.                                              *)
(***************************************************************************)
EXTENDS Integers, Sequences, FiniteSets, Functions

CONSTANTS Threads,    \* the threads of the cluster
          Addresses,  \* addresses in the shared linear memory
          Values,     \* values of a word, 0 among them
          Forever,    \* a negative timeout
          Timeouts    \* seconds a waiter may ask for, or Forever

ASSUME SharedMemoryAssumption ==
    0 \in Values /\ Forever \notin Nat /\ Timeouts \subseteq {Forever} \cup Nat

VARIABLES mem,        \* the words
          wait_map,   \* address -> its wait list, for addresses that have one
          node,       \* waiting thread -> its wait node; its field `counted` is
                      \* history: how many notifications have counted it
          terminated, \* threads that have been told to end
          returned    \* what the last wait that ended returned

memVars == <<mem, wait_map, node, terminated, returned>>

Waiting(t) == t \in DOMAIN node

Returns(result, counted) == returned' = [result |-> result, counted |-> counted]

(* bh_list_insert puts the node in front *)
acquire_wait_info(a, t) ==
    LET list == IF a \in DOMAIN wait_map THEN wait_map[a] ELSE <<>>
    IN  [b \in DOMAIN wait_map \cup {a} |-> IF b = a THEN <<t>> \o list ELSE wait_map[b]]

bh_list_remove(list, t) ==
    LET i == CHOOSE k \in DOMAIN list : list[k] = t
    IN  SubSeq(list, 1, i - 1) \o SubSeq(list, i + 1, Len(list))

(* bh_list_remove and map_try_release_wait_info *)
Mut_ReleaseWaitInfo(a, t) == [wait_map EXCEPT ![a] = bh_list_remove(@, t)]

ReleaseWaitInfo(a, t) ==
    LET list == bh_list_remove(wait_map[a], t)
    IN  IF list = <<>> THEN Restrict(wait_map, DOMAIN wait_map \ {a})
        ELSE [wait_map EXCEPT ![a] = list]

-----------------------------------------------------------------------------
MemInit == /\ mem = [a \in Addresses |-> 0]
           /\ wait_map = <<>>
           /\ node = <<>>
           /\ terminated = {}
           /\ returned = [result |-> "none", counted |-> 0]

(* An atomic store; the interpreter makes it under the same lock *)
AtomicStore(t, a, v) ==
    /\ ~Waiting(t)
    /\ mem' = [mem EXCEPT ![a] = v]
    /\ UNCHANGED <<wait_map, node, terminated, returned>>

NewNode(t, a, timeout) ==
    [u \in DOMAIN node \cup {t} |->
        IF u = t THEN [address |-> a, status |-> "S_WAITING", left |-> timeout, counted |-> 0]
        ELSE node[u]]

(* wasm_runtime_atomic_wait up to the first sleep: the value is compared   *)
(* under the lock that notify takes.                                       *)
Mut_AtomicWait(t, a, expect, timeout) ==
    /\ ~Waiting(t)
    /\ wait_map' = acquire_wait_info(a, t)
    /\ node' = NewNode(t, a, timeout)
    /\ UNCHANGED <<mem, terminated, returned>>

AtomicWait(t, a, expect, timeout) ==
    /\ ~Waiting(t)
    /\ \/ mem[a] # expect
          /\ Returns("not-equal", 0)
          /\ UNCHANGED <<wait_map, node>>
       \/ mem[a] = expect
          /\ wait_map' = acquire_wait_info(a, t)
          /\ node' = NewNode(t, a, timeout)
          /\ UNCHANGED returned
    /\ UNCHANGED <<mem, terminated>>

(* The wait node or the wait info cannot be allocated: an exception *)
AtomicWaitFails(t, a, expect) ==
    /\ ~Waiting(t) /\ mem[a] = expect
    /\ Returns("exception", 0)
    /\ UNCHANGED <<mem, wait_map, node, terminated>>

(* The slice the waiter is in is its last: timeout_left <= timeout_wait *)
LastSlice(t) == node[t].left # Forever /\ node[t].left <= 1

(* os_cond_reltimedwait returns, signalled, at the end of its slice or for *)
(* no reason, with the lock held; the waiter leaves or sleeps again.       *)
Mut_CondWake(t) ==
    /\ Waiting(t)
    /\ \/ /\ t \in terminated \/ LastSlice(t) \/ node[t].status = "S_NOTIFIED"
          /\ wait_map' = ReleaseWaitInfo(node[t].address, t)
          /\ node' = Restrict(node, DOMAIN node \ {t})
          /\ Returns(IF t \in terminated \/ LastSlice(t) THEN "timed-out" ELSE "woken", node[t].counted)
       \/ /\ ~LastSlice(t) /\ node[t].left # Forever /\ node[t].status = "S_WAITING"
          /\ t \notin terminated
          /\ node' = [node EXCEPT ![t].left = @ - 1]
          /\ UNCHANGED <<wait_map, returned>>
       \/ /\ node[t].left = Forever /\ node[t].status = "S_WAITING" /\ t \notin terminated
          /\ UNCHANGED <<wait_map, node, returned>>
    /\ UNCHANGED <<mem, terminated>>

Mut_CondWake_end(t) ==
    /\ Waiting(t)
    /\ \/ /\ LastSlice(t) \/ node[t].status = "S_NOTIFIED"
          /\ wait_map' = ReleaseWaitInfo(node[t].address, t)
          /\ node' = Restrict(node, DOMAIN node \ {t})
          /\ Returns(IF node[t].status = "S_WAITING" THEN "timed-out" ELSE "woken", node[t].counted)
       \/ /\ ~LastSlice(t) /\ node[t].left # Forever /\ node[t].status = "S_WAITING"
          /\ node' = [node EXCEPT ![t].left = @ - 1]
          /\ UNCHANGED <<wait_map, returned>>
       \/ /\ node[t].left = Forever /\ node[t].status = "S_WAITING"
          /\ UNCHANGED <<wait_map, node, returned>>
    /\ UNCHANGED <<mem, terminated>>

CondWake(t) ==
    /\ Waiting(t)
    /\ \/ /\ t \in terminated \/ LastSlice(t) \/ node[t].status = "S_NOTIFIED"
          /\ wait_map' = ReleaseWaitInfo(node[t].address, t)
          /\ node' = Restrict(node, DOMAIN node \ {t})
          /\ Returns(IF node[t].status = "S_WAITING" THEN "timed-out" ELSE "woken", node[t].counted)
       \/ /\ ~LastSlice(t) /\ node[t].left # Forever /\ node[t].status = "S_WAITING"
          /\ t \notin terminated
          /\ node' = [node EXCEPT ![t].left = @ - 1]
          /\ UNCHANGED <<wait_map, returned>>
       \/ /\ node[t].left = Forever /\ node[t].status = "S_WAITING" /\ t \notin terminated
          /\ UNCHANGED <<wait_map, node, returned>>
    /\ UNCHANGED <<mem, terminated>>

(* notify_wait_list: the first `count` nodes of the list *)
notify_wait_list(a, count) ==
    IF a \notin DOMAIN wait_map THEN {}
    ELSE {wait_map[a][i] : i \in {j \in DOMAIN wait_map[a] : j <= count}}

AtomicNotify(t, a, count) ==
    LET woken == notify_wait_list(a, count)
    IN  /\ ~Waiting(t)
        /\ node' = [u \in DOMAIN node |->
                       IF u \in woken
                       THEN [node[u] EXCEPT !.status = "S_NOTIFIED", !.counted = @ + 1]
                       ELSE node[u]]
        /\ UNCHANGED <<mem, wait_map, terminated, returned>>

(* wasm_cluster_terminate sets the flag that wasm_cluster_is_thread_       *)
(* terminated reads.                                                       *)
Terminate(t) ==
    /\ terminated' = terminated \cup {t}
    /\ UNCHANGED <<mem, wait_map, node, returned>>

=============================================================================
