-------------------------- MODULE WasiThreadProofs --------------------------
(***************************************************************************)
(* The inductive invariant of the threads of a guest with lib-wasi-threads, *)
(* which its own steps and those of the thread manager preserve.           *)
(***************************************************************************)
EXTENDS WasiThreads, ThreadProofs

(* The places of a thread that uses wasi threads *)
WasiPlaces == Quiet \cup MainPlaces \cup Joining \cup
              {"run", "create", "created", "create_failed", "create_done", "start", "routine",
               "return", "exit", "exiting", "trap", "trap_search", "spread", "spreading"}

(* Nobody detaches a thread or holds its own wait_lock, and only main      *)
(* joins, while it waits for all                                           *)
WasiOnly ==
    /\ pc \in [Envs -> WasiPlaces]
    /\ \A e \in Envs : ~env[e].thread_is_detached
    /\ \A t \in Envs : pc[t] \in Joining => back[t] = "wait"
    /\ \A e \in Envs : wait_lock[e] = NoOne

(* Main has seen the end of every thread it has visited, none of which it  *)
(* could pass over as detached                                             *)
WaitIsThorough ==
    /\ pc[Main] = "wait" => \A e \in visit[Main] \ {Main} : pc[e] = "ended"
    /\ pc[Main] \in Joining => \A e \in visit[Main] \ {Main, peer[Main]} : pc[e] = "ended"
    /\ pc[Main] = "destroy" => exec_env_list = {Main}

(* A thread has an id from thread-spawn to the end of its start function *)
IdsAreTaken ==
    /\ DOMAIN tid = {e \in Spawned : pc[e] \notin Past}
    /\ IdsBelongToThreads

(* The three invariants together are inductive.  FreeIdsAreFree is what    *)
(* makes Pop give out a new id; NoIdIsLost is what makes the stack empty   *)
(* only when every id below size is held, and leaves room for a release;   *)
(* TidTypeOK bounds the held ids, so that those of a resize are new.       *)
TidInv == TidTypeOK /\ FreeIdsAreFree /\ NoIdIsLost

WasiInv == ThreadInv /\ TidInv /\ WasiOnly /\ WaitIsThorough /\ IdsAreTaken

-----------------------------------------------------------------------------
(* The thread manager brings no thread of a wasi guest to a place of pthreads. *)
LEMMA WasiOnlyMoves ==
    ASSUME WasiInv, NEW t \in Envs, Moves(t)
    PROVE  WasiOnly'
  <1> USE ThreadManagerAssumption DEF WasiInv, ThreadInv, ThreadTypeOK, WasiOnly, At,
          Goto, cluster, locks, WasiPlaces, Quiet, MainPlaces, Joining
  <1>1. CASE CreateFails(t) \/ Trap(t) \/ Leave(t) \/ SpreadEnd(t)
    BY <1>1, SMTT(30) DEF CreateFails, Trap, Leave, SpreadEnd, MayCall
  <1>2. CASE TrapBegin(t) \/ ExitBegin(t) \/ JoinBegin(t) \/ TrapSearch(t)
    BY <1>2, SMTT(30) DEF TrapBegin, ExitBegin, JoinBegin, TrapSearch
  <1>3. CASE DetachBegin(t) \/ Detach(t) \/ CancelBegin(t) \/ CancelSearch(t) \/ CancelFlag(t)
    BY <1>3, SMTT(30) DEF DetachBegin, Detach, CancelBegin, CancelSearch, CancelFlag
  <1>4. CASE JoinSearch(t) \/ Join(t)
    BY <1>4, SMTT(30) DEF JoinSearch, Join
  <1>5. CASE Created(t) \/ SpreadBegin(t) \/ WaitEnd(t)
    BY <1>5, SMTT(30) DEF Created, SpreadBegin, WaitEnd
  <1>6. CASE Destroy(t)
    BY <1>6, SMTT(30) DEF Destroy
  <1>7. CASE Start(t)
    BY <1>7, SMTT(30) DEF Start, ExecEnv
  <1>8. CASE JoinCount(t)
    BY <1>8, SMTT(30) DEF JoinCount, ExecEnv, PeersExist, Spawned, Seeking
  <1>9. CASE Exit(t)
    BY <1>9, SMTT(30) DEF Exit, ExecEnv, Fresh
  <1>10. CASE Create(t)
    BY <1>10, SMTT(30) DEF Create, ExecEnv, PeersExist, Preparing, Spawned
  <1>11. ASSUME NEW e \in Envs, SpreadTo(t, e) PROVE WasiOnly'
    BY <1>11, SMTT(30) DEF SpreadTo, ExecEnv
  <1>12. ASSUME NEW e \in Envs, WaitVisit(t, e) PROVE WasiOnly'
    BY <1>12, SMTT(30) DEF WaitVisit
  <1>13. CASE t = Main /\ Embedder
    BY <1>13, SMTT(30) DEF Embedder, WaitForAll
  <1> HIDE DEF WasiInv, ThreadInv, WasiOnly
  <1> QED
    BY Zenon, <1>1, <1>2, <1>3, <1>4, <1>5, <1>6, <1>7, <1>8, <1>9, <1>10, <1>11, <1>12,
       <1>13
       DEF Moves, ThreadStep, Joins

(* What main has visited has ended, and is not begun again. *)
LEMMA WaitMoves ==
    ASSUME WasiInv, NEW t \in Envs, Moves(t)
    PROVE  WaitIsThorough'
  <1> USE ThreadManagerAssumption DEF WasiInv, ThreadInv, ThreadTypeOK, WaitIsThorough,
          At, Goto, cluster, locks, Joining
  <1>1. CASE CreateFails(t) \/ Trap(t) \/ Leave(t) \/ SpreadEnd(t)
    BY <1>1, SMTT(30) DEF CreateFails, Trap, Leave, SpreadEnd, MayCall
  <1>2. CASE TrapBegin(t) \/ ExitBegin(t) \/ JoinBegin(t) \/ TrapSearch(t)
    BY <1>2, SMTT(30) DEF TrapBegin, ExitBegin, JoinBegin, TrapSearch
  <1>3. CASE DetachBegin(t) \/ Detach(t) \/ CancelBegin(t) \/ CancelSearch(t) \/ CancelFlag(t)
    BY <1>3, SMTT(30) DEF DetachBegin, Detach, CancelBegin, CancelSearch, CancelFlag,
        WasiOnly, WasiPlaces, Quiet, MainPlaces
  <1>4. CASE JoinSearch(t)
    BY <1>4, SMTT(30) DEF JoinSearch, WasiOnly, ListIsExact, Quiet, PeersExist, Seeking,
        MainIsAlone
  <1>5. CASE Join(t)
    BY <1>5, SMTT(30) DEF Join, NativesAgree, MainIsAlone
  <1>6. CASE Created(t) \/ SpreadBegin(t)
    BY <1>6, SMTT(30) DEF Created, SpreadBegin
  <1>7. CASE WaitEnd(t)
    BY <1>7, SMTT(30) DEF WaitEnd, ListIsExact, Quiet, MainIsAlone, MainPlaces
  <1>8. CASE Destroy(t)
    BY <1>8, SMTT(30) DEF Destroy, MainIsAlone, MainPlaces
  <1>9. CASE Start(t) \/ JoinCount(t)
    BY <1>9, SMTT(30) DEF Start, JoinCount
  <1>10. CASE Exit(t)
    BY <1>10, SMTT(30) DEF Exit, ListIsExact, MainIsAlone, SpawnedPlaces, Quiet
  <1>11. CASE Create(t)
    BY <1>11, SMTT(30) DEF Create, PeersExist, Preparing, Spawned, ListIsExact, Quiet
  <1>12. ASSUME NEW e \in Envs, SpreadTo(t, e) PROVE WaitIsThorough'
    BY <1>12, SMTT(30) DEF SpreadTo
  <1>13. ASSUME NEW e \in Envs, WaitVisit(t, e) PROVE WaitIsThorough'
    BY <1>13, SMTT(30) DEF WaitVisit, MainIsAlone, MainPlaces
  <1>14. CASE t = Main /\ Embedder
    BY <1>14, SMTT(30) DEF Embedder, WaitForAll
  <1> HIDE DEF WasiInv, ThreadInv, WaitIsThorough
  <1> QED
    BY Zenon, <1>1, <1>2, <1>3, <1>4, <1>5, <1>6, <1>7, <1>8, <1>9, <1>10, <1>11, <1>12, <1>13,
       <1>14 DEF Moves, ThreadStep, Joins

(* What thread-spawn does to the threads: an exec_env that was not used is *)
(* prepared                                                                *)
Spawns(t, e) ==
    /\ pc[t] = "run" /\ pc[e] = "none" /\ e # t
    /\ pc' = [pc EXCEPT ![t] = "create", ![e] = "new"]
    /\ peer' = [peer EXCEPT ![t] = e]
    /\ tid' = [f \in DOMAIN tid \cup {e} |-> IF f = e THEN ids'[pos' + 1] ELSE tid[f]]
    /\ UNCHANGED <<cluster, locks, env, native, visit, back, goal>>

(* thread-spawn finds an exec_env that is not main's. *)
LEMMA SpawnEffect ==
    ASSUME ThreadInv, NEW t \in Envs, thread_spawn(t)
    PROVE  \E e \in Spawned : Spawns(t, e)
  <1> DEFINE e == CHOOSE u \in Unused : TRUE
  <1>1. e \in Unused
    BY Zenon DEF thread_spawn
  <1>2. e \in Spawned /\ pc[e] = "none" /\ pc[t] = "run" /\ e # t
    BY <1>1, SMTT(30) DEF thread_spawn, MayCall, At, Unused, Spawned, SpawnedPlaces,
        ThreadInv, MainIsAlone
  <1> QED
    BY <1>2, Zenon DEF thread_spawn, Spawns

(* thread-spawn keeps to what the thread manager relies on. *)
LEMMA SpawnThreads ==
    ASSUME ThreadInv, NEW t \in Envs, thread_spawn(t)
    PROVE  ThreadInv'
  <1>1. PICK e \in Spawned : Spawns(t, e)
    BY Zenon, SpawnEffect
  <1> USE ThreadManagerAssumption DEF ThreadInv, ThreadTypeOK, Spawns, cluster, locks
  <1>2. ThreadTypeOK'
    BY <1>1, SMTT(30) DEF Places, Preparing, SpawnedPlaces, Spawned
  <1>3. LocksAreHeld'
    BY <1>1, SMTT(30) DEF LocksAreHeld, ListHolders, ClusterHolders
  <1>4. ListIsExact'
    BY <1>1, SMTT(30) DEF ListIsExact, Quiet
  <1>5. HandlesAreSet'
    BY <1>1, SMTT(30) DEF HandlesAreSet, Quiet
  <1>6. PeersExist'
    BY <1>1, SMTT(30) DEF PeersExist, Preparing, Seeking, Joining, Spawned
  <1>7. MainIsAlone'
    BY <1>1, SMTT(30) DEF MainIsAlone, SpawnedPlaces, MainPlaces, Joining, Spawned
  <1>8. NativesAgree'
    BY <1>1, SMTT(30) DEF NativesAgree, ListIsExact, Quiet
  <1> HIDE DEF ThreadTypeOK
  <1> QED
    BY Zenon, <1>2, <1>3, <1>4, <1>5, <1>6, <1>7, <1>8

(* So does its failure, which leaves the exec_env to others, ... *)
LEMMA SpawnFailsThreads ==
    ASSUME ThreadInv, NEW t \in Envs, SpawnFails(t)
    PROVE  ThreadInv'
  <1> USE ThreadManagerAssumption DEF ThreadInv, ThreadTypeOK, cluster, locks
  <1>1. /\ peer[t] \in Spawned /\ pc[t] = "create_failed" /\ pc[peer[t]] = "new" /\ peer[t] # t
        /\ pc' = [pc EXCEPT ![t] = "run", ![peer[t]] = "none"]
        /\ peer' = [peer EXCEPT ![t] = NoOne]
        /\ UNCHANGED <<cluster, locks, env, native, visit, back, goal>>
    BY Zenon DEF SpawnFails, At, PeersExist, Preparing
  <1>2. ThreadTypeOK'
    BY <1>1, SMTT(30) DEF Places, Preparing, SpawnedPlaces, Spawned
  <1>3. LocksAreHeld'
    BY <1>1, SMTT(30) DEF LocksAreHeld, ListHolders, ClusterHolders
  <1>4. ListIsExact'
    BY <1>1, SMTT(30) DEF ListIsExact, Quiet
  <1>5. HandlesAreSet'
    BY <1>1, SMTT(30) DEF HandlesAreSet, Quiet
  <1>6. PeersExist'
    BY <1>1, SMTT(30) DEF PeersExist, Preparing, Seeking, Joining, Spawned
  <1>7. MainIsAlone'
    BY <1>1, SMTT(30) DEF MainIsAlone, SpawnedPlaces, MainPlaces, Joining, Spawned
  <1>8. NativesAgree'
    BY <1>1, SMTT(30) DEF NativesAgree, ListIsExact, Quiet
  <1> HIDE DEF ThreadTypeOK
  <1> QED
    BY Zenon, <1>2, <1>3, <1>4, <1>5, <1>6, <1>7, <1>8

(* ... its return, and the begin and the end of a thread's start function. *)
LEMMA WasiThreadsElse ==
    ASSUME ThreadInv, NEW t \in Envs, SpawnDone(t) \/ thread_start(t) \/ thread_end(t)
    PROVE  ThreadInv'
  <1> USE ThreadManagerAssumption DEF ThreadInv, ThreadTypeOK, cluster, locks
  <1>1. /\ \/ pc[t] \in {"create_done", "routine"} /\ pc' = [pc EXCEPT ![t] = "run"]
           \/ pc[t] = "return" /\ pc' = [pc EXCEPT ![t] = "exit"]
        /\ peer' = [peer EXCEPT ![t] = NoOne] \/ UNCHANGED peer
        /\ UNCHANGED <<cluster, locks, env, native, visit, back, goal>>
    BY Zenon DEF SpawnDone, thread_start, thread_end, At, Goto
  <1>2. ThreadTypeOK'
    BY <1>1, SMTT(30) DEF Places, Preparing, SpawnedPlaces, Spawned
  <1>3. LocksAreHeld'
    BY <1>1, SMTT(30) DEF LocksAreHeld, ListHolders, ClusterHolders
  <1>4. ListIsExact'
    BY <1>1, SMTT(30) DEF ListIsExact, Quiet
  <1>5. HandlesAreSet'
    BY <1>1, SMTT(30) DEF HandlesAreSet, Quiet
  <1>6. PeersExist'
    BY <1>1, SMTT(30) DEF PeersExist, Preparing, Seeking, Joining, Spawned
  <1>7. MainIsAlone'
    BY <1>1, SMTT(30) DEF MainIsAlone, SpawnedPlaces, MainPlaces, Joining, Spawned
  <1>8. NativesAgree'
    BY <1>1, SMTT(30) DEF NativesAgree, ListIsExact, Quiet
  <1> HIDE DEF ThreadTypeOK
  <1> QED
    BY Zenon, <1>2, <1>3, <1>4, <1>5, <1>6, <1>7, <1>8

WasiOwn(t) == thread_spawn(t) \/ SpawnFails(t) \/ SpawnDone(t) \/ thread_start(t) \/ thread_end(t)

(* The library's own steps keep to its places, and disturb no wait: only a *)
(* thread that has not begun is given up.                                  *)
LEMMA WasiOwnPlaces ==
    ASSUME WasiInv, NEW t \in Envs, WasiOwn(t)
    PROVE  WasiOnly' /\ WaitIsThorough'
  <1>0. ThreadInv
    BY Zenon DEF WasiInv
  <1> USE ThreadManagerAssumption DEF WasiInv, ThreadInv, ThreadTypeOK, WasiOnly, WaitIsThorough,
          WasiPlaces, Quiet, MainPlaces, Joining, cluster, locks
  <1>1. CASE thread_spawn(t)
    <2>1. PICK e \in Spawned : Spawns(t, e)
      BY Zenon, <1>0, <1>1, SpawnEffect
    <2> QED
      BY <2>1 DEF Spawns, Spawned
  <1>2. CASE SpawnFails(t)
    <2>1. peer[t] \in Spawned /\ pc[t] = "create_failed" /\ pc[peer[t]] = "new" /\ peer[t] # t
      BY Zenon, <1>2 DEF SpawnFails, At, PeersExist, Preparing
    <2> QED
      BY <1>2, <2>1 DEF SpawnFails, Spawned
  <1>3. CASE SpawnDone(t)
    BY <1>3, SMTT(30) DEF SpawnDone, At, Goto
  <1>4. CASE thread_start(t) \/ thread_end(t)
    BY <1>4, SMTT(30) DEF thread_start, thread_end, At, Goto
  <1> HIDE DEF WasiInv, ThreadInv, WasiOnly, WaitIsThorough
  <1> QED
    BY Zenon, <1>1, <1>2, <1>3, <1>4 DEF WasiOwn

(* There is at least one id. *)
LEMMA TotalType == Total \in Nat \ {0}
BY TidAssumption DEF Total

(* The id a resize gives out is the first above the old ones. *)
LEMMA GrownAt ==
    ASSUME NEW new \in Nat, size \in Nat \ {0}, new > size
    PROVE  Grown(new)[new - size] = TID_MIN + size
BY TidAssumption DEF Grown

(* The id of a new thread was nobody's. *)
LEMMA NewIdIsFree ==
    ASSUME TidInv, Pop \/ GrowAndPop
    PROVE  ids'[pos' + 1] \notin held /\ held' = held \cup {ids'[pos' + 1]}
  <1> USE TidAssumption DEF TidInv, TidTypeOK
  <1>0. size \in Nat \ {0} /\ pos \in Nat /\ pos <= size /\ Total \in Nat /\ size <= Total
    BY TotalType
  <1>1. CASE Pop
    <2>1. pos' + 1 = pos /\ pos \in 1 .. pos
      BY <1>0, <1>1 DEF Pop
    <2> QED
      BY Zenon, <1>1, <2>1 DEF Pop, FreeIdsAreFree
  <1>2. CASE GrowAndPop
    <2> DEFINE new == Smaller(2 * size, Total)
    <2>1. new \in Nat /\ new > size
      BY <1>0, <1>2 DEF GrowAndPop, Smaller
    <2>2. Grown(new)[new - size] = TID_MIN + size
      BY Zenon, <1>0, <2>1, GrownAt
    <2>3. ids' = Grown(new) /\ pos' = new - size - 1 /\ held' = held \cup {ids'[new - size]}
      BY Zenon, <1>2 DEF GrowAndPop
    <2>4. pos' + 1 = new - size
      BY <1>0, <2>1, <2>3
    <2>5. TID_MIN + size \notin held
      BY <1>0
    <2> QED
      BY Zenon, <2>2, <2>3, <2>4, <2>5
  <1> QED
    BY Zenon, <1>1, <1>2

(* Ids come and go with the threads. *)
LEMMA WasiOwnIds ==
    ASSUME WasiInv, NEW t \in Envs, WasiOwn(t)
    PROVE  IdsAreTaken'
  <1>0. ThreadInv
    BY Zenon DEF WasiInv
  <1> USE ThreadManagerAssumption DEF WasiInv, ThreadInv, ThreadTypeOK, IdsAreTaken, IdsBelongToThreads, Past
  <1>1. CASE thread_spawn(t)
    <2>1. PICK e \in Spawned : Spawns(t, e)
      BY Zenon, <1>0, <1>1, SpawnEffect
    <2>2. ids'[pos' + 1] \notin held /\ held' = held \cup {ids'[pos' + 1]}
      BY Zenon, <1>1, NewIdIsFree DEF thread_spawn
    <2>3. e \notin DOMAIN tid /\ DOMAIN tid' = DOMAIN tid \cup {e}
      BY Zenon, <2>1 DEF Spawns
    <2>4. DOMAIN tid' = {f \in Spawned : pc'[f] \notin Past}
      BY <2>1, <2>3 DEF Spawns, Spawned
    <2>5. tid'[e] = ids'[pos' + 1] /\ \A f \in DOMAIN tid : tid'[f] = tid[f]
      BY Zenon, <2>1, <2>3 DEF Spawns
    <2>6. /\ \A f, g \in DOMAIN tid' : tid'[f] = tid'[g] => f = g
          /\ held' = {tid'[f] : f \in DOMAIN tid'}
      BY <2>2, <2>3, <2>5
    <2> QED
      BY Zenon, <2>4, <2>6
  <1>2. ASSUME NEW e \in Spawned, pc[e] \notin Past,
               tid' = [f \in DOMAIN tid \ {e} |-> tid[f]],
               tid_allocator_release_tid(tid[e]),
               \A f \in Envs \ {e, t} : pc'[f] = pc[f],
               pc'[e] \in {"none", "exit"},
               t # e => pc[t] = "create_failed" /\ pc'[t] = "run"
        PROVE  IdsAreTaken'
    <2>1. e \in DOMAIN tid /\ tid[e] \in held
      BY Zenon, <1>2
    <2>2. DOMAIN tid' = {f \in Spawned : pc'[f] \notin Past}
      BY Zenon, <1>2 DEF Spawned
    <2>3. \A f, g \in DOMAIN tid' : tid'[f] = tid'[g] => f = g
      BY Zenon, <1>2
    <2>4. held' = {tid'[f] : f \in DOMAIN tid'}
      BY <1>2, <2>1 DEF tid_allocator_release_tid
    <2> QED
      BY <1>2, <2>2, <2>3, <2>4, ZenonT(30)
  <1>3. CASE SpawnFails(t)
    <2>1. peer[t] \in Spawned /\ pc[t] = "create_failed" /\ pc[peer[t]] = "new" /\ peer[t] # t
      BY Zenon, <1>3 DEF SpawnFails, At, PeersExist, Preparing
    <2>2. /\ pc' = [pc EXCEPT ![t] = "run", ![peer[t]] = "none"]
          /\ tid' = [f \in DOMAIN tid \ {peer[t]} |-> tid[f]]
          /\ tid_allocator_release_tid(tid[peer[t]])
      BY Zenon, <1>3 DEF SpawnFails
    <2> QED
      BY <1>2, <2>1, <2>2, ZenonT(30) DEF Spawned
  <1>4. CASE thread_end(t)
    <2>1. t \in Spawned /\ pc[t] = "return"
      BY Zenon, <1>4 DEF thread_end, At, MainIsAlone, SpawnedPlaces, Spawned
    <2>2. /\ pc' = [pc EXCEPT ![t] = "exit"]
          /\ tid' = [f \in DOMAIN tid \ {t} |-> tid[f]]
          /\ tid_allocator_release_tid(tid[t])
      BY <1>4, Zenon DEF thread_end, Goto
    <2> QED
      BY <1>2, <2>1, <2>2, ZenonT(30) DEF Spawned
  <1>5. CASE SpawnDone(t) \/ thread_start(t)
    <2>1. pc[t] \in {"create_done", "routine"} /\ pc' = [pc EXCEPT ![t] = "run"]
          /\ UNCHANGED <<tid, tidVars>>
      BY Zenon, <1>5 DEF SpawnDone, thread_start, At, Goto, wasiVars
    <2> QED
      BY <2>1 DEF tidVars, Spawned
  <1> HIDE DEF WasiInv, ThreadInv, IdsAreTaken
  <1> QED
    BY Zenon, <1>1, <1>3, <1>4, <1>5 DEF WasiOwn

(* The thread manager begins and ends no thread that has an id. *)
LEMMA IdsMoves ==
    ASSUME WasiInv, NEW t \in Envs, Moves(t), UNCHANGED wasiVars
    PROVE  IdsAreTaken'
  <1>1. \A e \in Spawned : pc'[e] \in Past <=> pc[e] \in Past
    BY Zenon, ThreadLives DEF WasiInv
  <1>2. UNCHANGED <<tid, held>>
    BY Zenon DEF wasiVars, tidVars
  <1>3. DOMAIN tid = {e \in Spawned : pc[e] \notin Past} /\ IdsBelongToThreads
    BY Zenon DEF WasiInv, IdsAreTaken
  <1> QED
    BY Zenon, <1>1, <1>2, <1>3 DEF IdsAreTaken, IdsBelongToThreads

(* The embedder's steps are main's. *)
LEMMA EmbedderMoves == Embedder => Moves(Main)
  BY Zenon DEF Moves

(* A step that changes nothing preserves the invariant. *)
LEMMA WasiStutter == WasiInv /\ TidInv' /\ UNCHANGED <<vars, wasiVars>> => WasiInv'
  <1> SUFFICES ASSUME WasiInv, TidInv', UNCHANGED <<vars, wasiVars>> PROVE WasiInv'
    OBVIOUS
  <1>1. ThreadInv'
    BY Zenon, ThreadStutter DEF WasiInv
  <1>2. WasiOnly' /\ WaitIsThorough'
    BY Zenon DEF vars, cluster, locks, local, WasiInv, WasiOnly, WaitIsThorough
  <1>3. IdsAreTaken'
    BY Zenon DEF vars, local, wasiVars, tidVars, WasiInv, IdsAreTaken, IdsBelongToThreads
  <1> QED
    BY Zenon, <1>1, <1>2, <1>3 DEF WasiInv

(* Every step of a guest with wasi threads preserves the invariant, if it  *)
(* preserves that of the allocator.                                        *)
LEMMA WasiStepInv == WasiInv /\ TidInv' /\ WasiNext => WasiInv'
  <1> SUFFICES ASSUME WasiInv, TidInv', WasiNext PROVE WasiInv'
    OBVIOUS
  <1>1. ASSUME NEW t \in Envs, Moves(t), UNCHANGED wasiVars PROVE WasiInv'
    <2>1. At(t, "destroy") => exec_env_list = {t}
      BY Zenon, <1>1 DEF At, WasiInv, WaitIsThorough, ThreadInv, MainIsAlone, MainPlaces
    <2> QED
      BY Zenon, <1>1, <2>1, ThreadStepInv, WasiOnlyMoves, WaitMoves, IdsMoves DEF WasiInv
  <1>2. ASSUME NEW t \in Envs, WasiOwn(t) PROVE WasiInv'
    <2>1. ThreadInv'
      BY Zenon, <1>2, SpawnThreads, SpawnFailsThreads, WasiThreadsElse DEF WasiInv, WasiOwn
    <2> QED
      BY Zenon, <1>2, <2>1, WasiOwnPlaces, WasiOwnIds DEF WasiInv
  <1>3. ASSUME UNCHANGED <<vars, wasiVars>> PROVE WasiInv'
    BY Zenon, <1>3, WasiStutter
  <1> QED
    BY Zenon, <1>1, <1>2, <1>3, EmbedderMoves, ThreadManagerAssumption
       DEF WasiNext, WasiGoes, WasiGuest, Moves, WasiOwn

(* The library's own steps take no part in a join. *)
LEMMA WasiJoins ==
    ASSUME ThreadInv, JoinsAreCounted, NEW t \in Envs, WasiOwn(t)
    PROVE  JoinsAreCounted'
  <1>1. CASE thread_spawn(t)
    <2>1. PICK e \in Spawned : Spawns(t, e)
      BY Zenon, <1>1, SpawnEffect
    <2> QED
      BY <2>1, ThreadManagerAssumption
         DEF Spawns, ThreadInv, ThreadTypeOK, JoinsAreCounted, Joining, Spawned, cluster
  <1>2. CASE SpawnFails(t)
    <2>1. peer[t] \in Spawned /\ pc[t] = "create_failed" /\ pc[peer[t]] = "new"
      BY Zenon, <1>2 DEF SpawnFails, At, ThreadInv, PeersExist, Preparing
    <2>2. /\ pc' = [pc EXCEPT ![t] = "run", ![peer[t]] = "none"]
          /\ peer' = [peer EXCEPT ![t] = NoOne]
          /\ UNCHANGED <<exec_env_list, env, native>>
      BY <1>2, Zenon DEF SpawnFails, cluster
    <2> QED
      BY <2>1, <2>2, ThreadManagerAssumption, SMTT(30)
         DEF ThreadInv, ThreadTypeOK, JoinsAreCounted, Joining, Spawned
  <1> USE ThreadManagerAssumption DEF ThreadInv, ThreadTypeOK, JoinsAreCounted, Joining, Spawned,
          At, Goto, cluster
  <1>3. CASE SpawnDone(t)
    BY <1>3 DEF SpawnDone
  <1>4. CASE thread_start(t)
    BY Zenon, <1>4 DEF thread_start
  <1>5. CASE thread_end(t)
    BY <1>5 DEF thread_end
  <1> HIDE DEF ThreadInv, JoinsAreCounted
  <1> QED
    BY ZenonT(30), <1>1, <1>2, <1>3, <1>4, <1>5 DEF WasiOwn

=============================================================================
