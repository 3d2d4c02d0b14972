------------------------- MODULE GuestThreadProofs --------------------------
(***************************************************************************)
(* The threads of a guest with either library: what TLC checks on a small  *)
(* instance, for any number of threads, any bound on them, any range of    *)
(* ids, and any guests that create, join and cancel.                       *)
(***************************************************************************)
EXTENDS GuestThreads, WasiThreadProofs, PthreadProofs, FiniteSetTheorems

-----------------------------------------------------------------------------
(* The thread id allocator, for every range of ids and every initial size  *)

(* The initial stack satisfies the invariant. *)
LEMMA TidInitInv == tid_allocator_init => TidInv
<1> SUFFICES ASSUME tid_allocator_init PROVE TidInv
  OBVIOUS
<1>1. size \in 1 .. Total /\ size \in Nat
  BY TotalType, TidAssumption DEF tid_allocator_init, Smaller
<1>2. TidTypeOK
  BY <1>1, TidAssumption DEF tid_allocator_init, TidTypeOK
<1>3. FreeIdsAreFree
  BY <1>1, TidAssumption DEF tid_allocator_init, FreeIdsAreFree
<1>4. NoIdIsLost
  BY <1>1, FS_EmptySet DEF tid_allocator_init, NoIdIsLost
<1> QED
  BY Zenon, <1>2, <1>3, <1>4 DEF TidInv

(* Taking an id off the stack preserves the invariant. *)
LEMMA PopInv == TidInv /\ Pop => TidInv'
<1> SUFFICES ASSUME TidInv, Pop PROVE TidInv'
  OBVIOUS
<1> USE TidAssumption DEF TidInv
<1>0. size \in Nat /\ pos \in 1 .. size /\ pos' \in 0 .. size
  BY TotalType DEF TidTypeOK, Pop
<1>1. ids[pos] \in (TID_MIN .. TID_MIN + size - 1) \ held
  BY <1>0 DEF FreeIdsAreFree
<1>2. TidTypeOK'
  BY <1>0, <1>1, Zenon DEF TidTypeOK, Pop
<1>3. FreeIdsAreFree'
  <2> SUFFICES ASSUME NEW i \in 1 .. pos'
               PROVE  /\ ids[i] \in (TID_MIN .. TID_MIN + size - 1) \ (held \cup {ids[pos]})
                      /\ \A j \in 1 .. pos' : ids[i] = ids[j] => i = j
    BY Zenon DEF FreeIdsAreFree, Pop
  <2>1. i \in 1 .. pos /\ i # pos /\ \A j \in 1 .. pos' : j \in 1 .. pos
    BY <1>0, SMTT(30) DEF Pop
  <2>2. ids[i] # ids[pos]
    BY <1>0, <2>1 DEF FreeIdsAreFree
  <2> QED
    BY Zenon, <2>1, <2>2 DEF FreeIdsAreFree
<1>4. NoIdIsLost'
  <2>1. IsFiniteSet(held') /\ Cardinality(held') = Cardinality(held) + 1
    BY <1>1, FS_AddElement, Zenon DEF NoIdIsLost, Pop
  <2>2. Cardinality(held) \in Nat
    BY ZenonT(30), FS_CardinalityType DEF NoIdIsLost
  <2> QED
    BY <2>1, <2>2, <1>0 DEF NoIdIsLost, Pop
<1> QED
  BY Zenon, <1>2, <1>3, <1>4

(* So does filling it anew with the ids above the old ones. *)
LEMMA GrowInv == TidInv /\ GrowAndPop => TidInv'
<1> SUFFICES ASSUME TidInv, GrowAndPop PROVE TidInv'
  OBVIOUS
<1> USE TidAssumption DEF TidInv
<1> DEFINE new == Smaller(2 * size, Total)
<1>0. size \in Nat \ {0} /\ size < Total /\ Total \in Nat /\ pos = 0
  BY TotalType DEF TidTypeOK, GrowAndPop
<1>1. new \in Nat /\ new > size /\ new <= Total /\ new <= 2 * size
  BY <1>0 DEF Smaller
<1>2. size' = new /\ pos' = new - size - 1 /\ ids' = Grown(new)
      /\ held' = held \cup {Grown(new)[new - size]}
  BY Zenon DEF GrowAndPop
<1> HIDE DEF new
<1>3. /\ Grown(new) \in [1 .. new -> Int]
      /\ \A i \in 1 .. new - size : Grown(new)[i] = TID_MIN + (new - i)
  BY <1>0, <1>1 DEF Grown, TidTypeOK
<1>4. Grown(new)[new - size] = TID_MIN + size
  BY <1>0, <1>1, <1>3
<1>5. TidTypeOK'
  BY <1>0, <1>1, <1>2, <1>3, <1>4 DEF TidTypeOK
<1>6. FreeIdsAreFree'
  <2> SUFFICES ASSUME NEW i \in 1 .. pos'
               PROVE  /\ ids'[i] \in (TID_MIN .. TID_MIN + size' - 1) \ held'
                      /\ \A j \in 1 .. pos' : ids'[i] = ids'[j] => i = j
    BY Zenon DEF FreeIdsAreFree
  <2>1. i \in Int /\ i \in 1 .. new - size /\ \A j \in 1 .. pos' : j \in 1 .. new - size
    BY <1>0, <1>1, <1>2
  <2>2. ids'[i] = TID_MIN + (new - i) /\ i <= new - size - 1
    BY <1>0, <1>1, <1>2, <1>3, <2>1
  <2>3. ids'[i] \in TID_MIN .. TID_MIN + new - 1 /\ ids'[i] > TID_MIN + size
    BY <1>0, <1>1, <2>1, <2>2
  <2>4. ids'[i] \notin held'
    BY <1>0, <1>2, <1>4, <2>3 DEF TidTypeOK
  <2>5. \A j \in 1 .. pos' : ids'[i] = ids'[j] => i = j
    BY <1>0, <1>1, <1>2, <1>3, <2>1, <2>2
  <2> QED
    BY Zenon, <1>2, <2>3, <2>4, <2>5
<1>7. NoIdIsLost'
  <2>1. TID_MIN + size \notin held
    BY <1>0, SMTT(30) DEF TidTypeOK
  <2>2. IsFiniteSet(held') /\ Cardinality(held') = Cardinality(held) + 1
    BY ZenonT(30), <1>2, <1>4, <2>1, FS_AddElement DEF NoIdIsLost
  <2>3. Cardinality(held) = size
    BY <1>0, FS_CardinalityType DEF NoIdIsLost
  <2> QED
    BY <2>2, <2>3, <1>0, <1>1, <1>2 DEF NoIdIsLost
<1> QED
  BY Zenon, <1>5, <1>6, <1>7

(* So does giving an id back: as it was held, the array has room. *)
LEMMA ReleaseInv ==
    ASSUME TidInv, NEW id \in held, tid_allocator_release_tid(id) PROVE TidInv'
<1> USE TidAssumption DEF TidInv
<1>0. size \in Nat /\ pos \in Nat /\ size >= 1 /\ pos <= size
  BY TotalType DEF TidTypeOK
<1>1. /\ IsFiniteSet(held') /\ Cardinality(held') = Cardinality(held) - 1
      /\ Cardinality(held') \in Nat
  BY Zenon, FS_RemoveElement, FS_CardinalityType DEF NoIdIsLost, tid_allocator_release_tid
<1>2. Cardinality(held) \in Nat /\ pos < size
  BY <1>0, <1>1, FS_CardinalityType DEF NoIdIsLost
<1>3. pos + 1 \in 1 .. size /\ id \in TID_MIN .. TID_MIN + size - 1
  BY <1>0, <1>2 DEF TidTypeOK
<1>4. ids'[pos + 1] = id /\ \A i \in 1 .. pos : ids'[i] = ids[i]
  BY <1>0, <1>3 DEF TidTypeOK, tid_allocator_release_tid
<1>5. TidTypeOK'
  BY <1>0, <1>3 DEF TidTypeOK, tid_allocator_release_tid
<1>6. FreeIdsAreFree'
  <2>1. \A i \in 1 .. pos + 1 : i \in 1 .. pos \/ i = pos + 1
    BY <1>0
  <2>2. \A i \in 1 .. pos : ids'[i] # id
    BY <1>4, SMTT(30) DEF FreeIdsAreFree
  <2> QED
    BY <1>0, <1>3, <1>4, <2>1, <2>2 DEF FreeIdsAreFree, tid_allocator_release_tid
<1>7. NoIdIsLost'
  BY <1>0, <1>1, <1>2 DEF NoIdIsLost, tid_allocator_release_tid
<1> QED
  BY Zenon, <1>5, <1>6, <1>7

(* Every step preserves the invariant. *)
LEMMA TidStepInv == TidInv /\ [TidNext]_tidVars => TidInv'
<1> SUFFICES ASSUME TidInv, [TidNext]_tidVars PROVE TidInv'
  OBVIOUS
<1>1. CASE UNCHANGED tidVars
  BY Zenon, <1>1 DEF tidVars, TidInv, TidTypeOK, FreeIdsAreFree, NoIdIsLost
<1>2. CASE Pop
  BY Zenon, <1>2, PopInv
<1>3. CASE GrowAndPop
  BY Zenon, <1>3, GrowInv
<1>4. CASE \E id \in held : tid_allocator_release_tid(id)
  BY Zenon, <1>4, ReleaseInv
<1> QED
  BY ZenonT(30), <1>1, <1>2, <1>3, <1>4 DEF TidNext, tid_allocator_get_tid, GetFails

(* The invariant holds in every reachable state. *)
LEMMA TidInductive == TidSpec => []TidInv
BY TidInitInv, TidStepInv, PTL DEF TidSpec

(* The id that tid_allocator_get_tid takes off the stack is held by nobody. *)
THEOREM FreeSafe == TidSpec => []FreeIdsAreFree
BY TidInductive, PTL DEF TidInv

(* No id is lost, and tid_allocator_release_tid always finds pos < size. *)
THEOREM LostSafe == TidSpec => []NoIdIsLost
BY TidInductive, PTL DEF TidInv

(* Initially no id is held. *)
LEMMA PoolInit == tid_allocator_init => Pool!Init
BY Zenon DEF tid_allocator_init, Pool!Init

(* Every step of the stack is one of the pool, or leaves the held ids alone. *)
LEMMA PoolStep == TidInv /\ [TidNext]_tidVars => [Pool!Get \/ Pool!Release]_held
<1> SUFFICES ASSUME TidInv, [TidNext]_tidVars PROVE [Pool!Get \/ Pool!Release]_held
  OBVIOUS
<1> USE TidAssumption DEF TidInv
<1>0. size \in Nat \ {0} /\ pos \in Nat /\ pos <= size /\ size <= Total /\ Total \in Nat
  BY TotalType DEF TidTypeOK
<1>1. CASE UNCHANGED tidVars
  BY Zenon, <1>1 DEF tidVars
<1>2. CASE Pop
  <2>1. ids[pos] \in (TID_MIN .. TID_MAX) \ held
    BY <1>0, <1>2 DEF Pop, FreeIdsAreFree, Total
  <2> QED
    BY Zenon, <1>2, <2>1 DEF Pop, Pool!Get
<1>3. CASE GrowAndPop
  <2> DEFINE new == Smaller(2 * size, Total)
  <2>1. new \in Nat /\ new > size /\ size < Total
    BY <1>0, <1>3 DEF GrowAndPop, Smaller
  <2>2. Grown(new)[new - size] = TID_MIN + size
    BY Zenon, <1>0, <2>1, GrownAt
  <2>3. TID_MIN + size \in (TID_MIN .. TID_MAX) \ held
    BY <1>0, <2>1 DEF TidTypeOK, Total
  <2> QED
    BY Zenon, <1>3, <2>2, <2>3 DEF GrowAndPop, Pool!Get
<1>4. CASE \E id \in held : tid_allocator_release_tid(id)
  BY Zenon, <1>4 DEF tid_allocator_release_tid, Pool!Release
<1> QED
  BY Zenon, <1>1, <1>2, <1>3, <1>4 DEF TidNext, tid_allocator_get_tid, GetFails

(* The stack implements the pool of ids: a thread gets an id of the        *)
(* reserved range that no other thread holds.                              *)
THEOREM PoolRefinement == TidSpec => ImplementsPool
BY PoolInit, PoolStep, TidInductive, PTL DEF TidSpec, ImplementsPool, Pool!Spec

-----------------------------------------------------------------------------
(* The segments of the stack are counted before one is taken. *)
LEMMA StacksCount ==
    ASSUME PthreadInv, PthreadNext
    PROVE  StacksAreCounted'
  <1> USE DEF PthreadInv, StacksAreCounted
  <1>0. UNCHANGED cluster_max_thread_num
    BY Zenon DEF PthreadNext
  <1>1. CASE stacks' \subseteq stacks
    <2>1. IsFiniteSet(stacks') /\ Cardinality(stacks') <= Cardinality(stacks)
      BY Zenon, <1>1, FS_Subset
    <2>2. Cardinality(stacks) \in Nat /\ Cardinality(stacks') \in Nat
      BY Zenon, <2>1, FS_CardinalityType
    <2> QED
      BY <1>0, <2>1, <2>2
  <1>2. ASSUME NEW t \in Envs, AllocateAuxStack(t), ~(stacks' \subseteq stacks)
        PROVE  StacksAreCounted'
    <2>1. stacks' = stacks \cup {peer[t]} /\ Cardinality(stacks) < cluster_max_thread_num
      BY Zenon, <1>2 DEF AllocateAuxStack
    <2>2. IsFiniteSet(stacks') /\ Cardinality(stacks') \in {Cardinality(stacks), Cardinality(stacks) + 1}
      BY Zenon, <2>1, FS_AddElement
    <2>3. Cardinality(stacks) \in Nat
      BY Zenon, FS_CardinalityType
    <2> QED
      BY <1>0, <2>1, <2>2, <2>3
  <1>3. stacks' \subseteq stacks \/ \E t \in Envs : AllocateAuxStack(t)
    <2>1. ASSUME NEW t \in Envs, PthreadGoes(t), ~AllocateAuxStack(t) PROVE stacks' \subseteq stacks
      BY <2>1, ZenonT(30)
         DEF PthreadGoes, pthreadVars, LockSelf, UnlockSelf, CreateReturns, pthread_create_fail,
             pthread_start_routine, ReadJoinable, EndNode, FreeAuxStack, JoinReturns
    <2>2. ASSUME NEW t \in Envs, PthreadGuest(t) PROVE stacks' \subseteq stacks
      BY <2>2, ZenonT(30)
         DEF PthreadGuest, pthreadVars, pthread_create, pthread_join, pthread_detach, pthread_cancel
    <2> QED
      BY <2>1, <2>2, ZenonT(30) DEF PthreadNext, pthreadVars
  <1> QED
    BY Zenon, <1>1, <1>2, <1>3

(* Main runs, with no other thread, node or stack. *)
LEMMA PthreadInitInv == Init /\ PthreadInit => PthreadInv
  <1> SUFFICES ASSUME Init, PthreadInit PROVE PthreadInv
    OBVIOUS
  <1>1. ThreadInv
    BY Zenon, ThreadInitInv
  <1> USE ThreadManagerAssumption DEF PthreadInit, Init
  <1>2. ClaimsAreKept
    BY DEF ClaimsAreKept, Claims, Joining, Fresh
  <1>3. NodesAreThere
    BY Zenon DEF NodesAreThere, PthreadPlaces, Quiet
  <1>4. OwnLocks /\ StacksAreOwned /\ JoinedHaveReturned
    BY ZenonT(30) DEF OwnLocks, StacksAreOwned, JoinedHaveReturned, At
  <1>5. StacksAreCounted
    BY FS_EmptySet DEF StacksAreCounted
  <1> QED
    BY ZenonT(30), <1>1, <1>2, <1>3, <1>4, <1>5 DEF PthreadInv

(* Main runs, with no other thread and no id given out. *)
LEMMA WasiInitInv == WasiInit => WasiInv
  <1> SUFFICES ASSUME WasiInit PROVE WasiInv
    OBVIOUS
  <1>1. TidInv /\ ThreadInv
    BY Zenon, TidInitInv, ThreadInitInv DEF WasiInit
  <1> USE ThreadManagerAssumption DEF WasiInit, Init, Quiet
  <1>2. WasiOnly
    BY Zenon DEF WasiOnly, WasiPlaces, Joining, Fresh
  <1>3. WaitIsThorough
    BY Zenon DEF WaitIsThorough, Joining
  <1>4. IdsAreTaken
    BY DEF IdsAreTaken, IdsBelongToThreads, Past, Spawned, tid_allocator_init
  <1> QED
    BY ZenonT(30), <1>1, <1>2, <1>3, <1>4 DEF WasiInv

-----------------------------------------------------------------------------
(* A guest has one of the libraries, and nothing of the other *)
GuestInv ==
    /\ library \in {"wasi", "pthread"}
    /\ library = "wasi" => WasiInv /\ stacks = {} /\ cluster_max_thread_num \in Nat
    /\ library = "pthread" => PthreadInv /\ tid = <<>> /\ held = {}

(* Initially either. *)
LEMMA GuestInitInv == GuestInit => GuestInv
  <1> SUFFICES ASSUME GuestInit PROVE GuestInv
    OBVIOUS
  <1>1. WasiInit /\ PthreadInit /\ library \in {"wasi", "pthread"}
    BY Zenon DEF GuestInit
  <1>2. WasiInv /\ PthreadInv
    BY Zenon, <1>1, WasiInitInv, PthreadInitInv DEF WasiInit
  <1>3. stacks = {} /\ cluster_max_thread_num \in Nat /\ tid = <<>> /\ held = {}
    BY <1>1, ThreadManagerAssumption DEF WasiInit, PthreadInit, Init, tid_allocator_init
  <1> QED
    BY Zenon, <1>1, <1>2, <1>3 DEF GuestInv

(* Every step of a guest is a step of the allocator, or none. *)
LEMMA GuestTid == [GuestNext]_guestVars => [TidNext]_tidVars
  <1> SUFFICES ASSUME [GuestNext]_guestVars PROVE [TidNext]_tidVars
    OBVIOUS
  <1>1. UNCHANGED wasiVars => UNCHANGED tidVars
    BY Zenon DEF wasiVars
  <1>2. ASSUME NEW id, tid_allocator_release_tid(id) PROVE TidNext
    BY <1>2, Zenon DEF TidNext, tid_allocator_release_tid
  <1>3. CASE WasiNext
    BY <1>1, <1>2, <1>3, ZenonT(30)
       DEF WasiNext, WasiGoes, WasiGuest, thread_spawn, SpawnFails, SpawnDone, thread_start, thread_end,
           TidNext, tid_allocator_get_tid
  <1> QED
    BY <1>1, <1>3, Zenon DEF GuestNext, Linked, guestVars

(* Every step preserves it. *)
LEMMA GuestStepInv == GuestInv /\ [GuestNext]_guestVars => GuestInv'
  <1> SUFFICES ASSUME GuestInv, [GuestNext]_guestVars PROVE GuestInv'
    OBVIOUS
  <1>0. library = "wasi" => TidInv'
    BY Zenon, GuestTid, TidStepInv DEF GuestInv, WasiInv
  <1>1. CASE Linked("wasi", pthreadVars) /\ WasiNext
    BY Zenon, <1>0, <1>1, WasiStepInv DEF Linked, GuestInv, pthreadVars, WasiNext
  <1>2. CASE Linked("pthread", wasiVars) /\ PthreadNext
    BY Zenon, <1>2, StacksCount, PthreadStepInv DEF Linked, GuestInv, wasiVars, tidVars
  <1>3. CASE UNCHANGED guestVars
    <2>1. /\ UNCHANGED <<library, vars, wasiVars, pthreadVars>>
          /\ UNCHANGED <<tid, held, stacks, cluster_max_thread_num>>
      BY Zenon, <1>3 DEF guestVars, wasiVars, tidVars, pthreadVars, vars, cluster
    <2> QED
      BY ZenonT(30), <1>0, <2>1, WasiStutter, PthreadStutter DEF GuestInv
  <1> QED
    BY Zenon, <1>1, <1>2, <1>3 DEF GuestNext

(* So it holds throughout. *)
LEMMA GuestInductive == Spec => []GuestInv
  BY GuestInitInv, GuestStepInv, PTL DEF Spec

(* Nobody touches an exec_env, a cluster or a mutex that has been freed, or *)
(* a handle that is not set, whichever library the guest has and whatever   *)
(* it does.                                                                 *)
THEOREM FreedSafe == Spec => []NobodyUsesFreed
  <1>1. ThreadInv /\ (\A e \in Envs : pc[e] = "ended" => wait_lock[e] = NoOne) => NobodyUsesFreed
    <2> SUFFICES ASSUME ThreadInv, \A e \in Envs : pc[e] = "ended" => wait_lock[e] = NoOne
                 PROVE  NobodyUsesFreed
      OBVIOUS
    <2>1. Free(cluster_lock) => \A e \in exec_env_list : env[e].handle
      BY ThreadManagerAssumption
         DEF ThreadInv, ThreadTypeOK, LocksAreHeld, ClusterHolders, ListIsExact, HandlesAreSet, Free, Quiet
    <2> QED
      BY Zenon, <2>1 DEF ThreadInv, ListIsExact, NobodyUsesFreed, At, Free, Quiet
  <1>2. GuestInv => NobodyUsesFreed
    BY <1>1, SMTT(30) DEF GuestInv, WasiInv, WasiOnly, PthreadInv, OwnLocks
  <1> QED
    BY <1>2, GuestInductive, PTL

(* Two threads never have the same id, and every id that is given out is    *)
(* some thread's (thread_spawn_wrapper, thread_start).                      *)
THEOREM IdsSafe == Spec => []IdsBelongToThreads
  <1>1. GuestInv => IdsBelongToThreads
    BY DEF GuestInv, WasiInv, IdsAreTaken, IdsBelongToThreads
  <1> QED
    BY <1>1, GuestInductive, PTL

(* pthread_join returns when the thread has run its last guest code.        *)
THEOREM JoinedSafe == Spec => []JoinedHaveReturned
  <1>1. GuestInv => JoinedHaveReturned
    BY Zenon DEF GuestInv, PthreadInv, WasiInv, WasiOnly, WasiPlaces, Quiet, MainPlaces, Joining,
           JoinedHaveReturned, At
  <1> QED
    BY <1>1, GuestInductive, PTL

(* A segment of the auxiliary stack belongs to a thread of the cluster or   *)
(* to one that is being created, and there are never too many.              *)
THEOREM StacksSafe == Spec => []StacksHaveOwners
  <1>1. GuestInv => StacksHaveOwners
    <2> SUFFICES ASSUME GuestInv PROVE StacksHaveOwners
      OBVIOUS
    <2>1. CASE library = "wasi"
      BY <2>1, FS_EmptySet DEF GuestInv, StacksHaveOwners
    <2>2. CASE library = "pthread"
      BY Zenon, <2>2
         DEF GuestInv, PthreadInv, ThreadInv, ListIsExact, Quiet, StacksAreCounted, StacksAreOwned,
                  Spawned, StacksHaveOwners, At
    <2> QED
      BY Zenon, <2>1, <2>2 DEF GuestInv
  <1> QED
    BY <1>1, GuestInductive, PTL

(* A native thread is released exactly once, if the spawned threads do not  *)
(* join: main, which joins whatever thread is left, then has no rival.      *)
THEOREM ReleasedSafe == Joiners \subseteq {Main} => (Spec => []ThreadsReleasedOnce)
  <1> SUFFICES ASSUME Joiners \subseteq {Main} PROVE Spec => []ThreadsReleasedOnce
    OBVIOUS
  <1>1. GuestInit => JoinsAreCounted
    BY ThreadManagerAssumption
       DEF GuestInit, PthreadInit, Init, JoinsAreCounted, Joining, Fresh, Spawned
  <1>2. GuestInv /\ JoinsAreCounted /\ [GuestNext]_guestVars => JoinsAreCounted'
    <2> SUFFICES ASSUME GuestInv, JoinsAreCounted, [GuestNext]_guestVars PROVE JoinsAreCounted'
      OBVIOUS
    <2>1. ThreadInv
      BY Zenon DEF GuestInv, WasiInv, PthreadInv
    <2>2. ASSUME NEW t \in Envs, Moves(t) PROVE JoinsAreCounted'
      BY Zenon, <2>1, <2>2, JoinsMoves
    <2>3. CASE UNCHANGED vars
      BY Zenon, <2>3 DEF vars, cluster, local, JoinsAreCounted
    <2>4. CASE Linked("wasi", pthreadVars) /\ WasiNext
      BY <2>1, <2>2, <2>3, <2>4, WasiJoins, ThreadManagerAssumption
         DEF WasiNext, WasiGoes, WasiGuest, WasiOwn, Moves
    <2>5. CASE Linked("pthread", wasiVars) /\ PthreadNext
      <3>1. PthreadInv
        BY Zenon, <2>5 DEF Linked, GuestInv
      <3> QED
        BY <2>2, <2>3, <2>5, <3>1, PthreadJoins, ThreadManagerAssumption
           DEF PthreadNext, PthreadGoes, PthreadGuest, PthreadOwn, Creates, Proceeds, Asks, Moves
    <2> QED
      BY Zenon, <2>3, <2>4, <2>5 DEF GuestNext, guestVars
  <1>3. GuestInv /\ JoinsAreCounted => ThreadsReleasedOnce
    BY Zenon, CountedReleases DEF GuestInv, WasiInv, PthreadInv
  <1> QED
    BY <1>1, <1>2, <1>3, GuestInductive, PTL DEF Spec

(* The threads of a guest get their ids from a pool: an id of the reserved  *)
(* range that no other thread holds, whichever thread asks.                 *)
THEOREM ThreadIdRefinement == Spec => ImplementsPool
  <1>1. GuestInit => tid_allocator_init
    BY Zenon DEF GuestInit, WasiInit
  <1>2. Spec => TidSpec
    BY <1>1, GuestTid, PTL DEF Spec, TidSpec
  <1> QED
    BY Zenon, <1>2, PoolRefinement

=============================================================================
