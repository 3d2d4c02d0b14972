---------------------------- MODULE ThreadProofs ----------------------------
(***************************************************************************)
(* The inductive invariant of the thread manager, which its steps preserve, *)
(* for any number of threads, any bound on them, and any guests.           *)
(***************************************************************************)
EXTENDS ThreadManager, TLAPS

(* Where a thread holds cluster_list_lock, and where cluster->lock *)
ListHolders == {"trap_search", "exiting", "join_search", "join_count", "detach_search",
                "cancel_search", "cancel_flag"}
ClusterHolders == {"created", "spreading"}

(* Where a thread is about to create another, and where it joins one or    *)
(* looks one up                                                            *)
Preparing == {"aux", "own_lock", "create", "create_failed", "fail"}
Joining == {"join", "join_search", "join_count", "joining"}
Seeking == Joining \cup {"joined", "detach", "detach_search", "cancel", "cancel_search",
                         "cancel_flag"}

(* Where only main comes, and where it never does *)
MainPlaces == {"wait", "idle", "asked", "destroy"}
SpawnedPlaces == {"none", "new", "start", "routine", "return", "keep", "delete", "free_aux",
                  "exit", "exiting"}

(* Where a spawned thread has not been given its start function, or has   *)
(* left it                                                                 *)
Past == {"none", "exit", "exiting", "ended"}

Places == Quiet \cup Preparing \cup Seeking \cup MainPlaces \cup SpawnedPlaces \cup
          ListHolders \cup ClusterHolders \cup {"run", "create_done", "await", "trap", "spread"}

ExecEnv == [terminate : BOOLEAN, handle : BOOLEAN, wait_count : Nat,
            thread_is_detached : BOOLEAN]

ThreadTypeOK ==
    /\ exec_env_list \subseteq Envs
    /\ list_lock \in Envs \cup {NoOne} /\ cluster_lock \in Envs \cup {NoOne}
    /\ env \in [Envs -> ExecEnv]
    /\ native \in [Envs -> {"none", "joinable", "detached", "ended", "released"}]
    /\ pc \in [Envs -> Places] /\ peer \in [Envs -> Envs \cup {NoOne}]
    /\ visit \in [Envs -> SUBSET Envs] /\ back \in [Envs -> {"run", "wait", "joined"}]
    /\ goal \in {"idle", "asked", "destroy"}

(* The mutexes are held by the threads at those places, by one at a time *)
LocksAreHeld ==
    /\ \A t \in Envs : list_lock = t <=> pc[t] \in ListHolders
    /\ \A t \in Envs : cluster_lock = t <=> pc[t] \in ClusterHolders

(* The list has the threads that are there, and what a thread has found in *)
(* it stays there for as long as the thread needs it                       *)
ListIsExact ==
    /\ \A e \in Envs : e \in exec_env_list <=> pc[e] \notin Quiet
    /\ \A t \in Envs : pc[t] \in {"created", "join_count", "cancel_flag"} =>
                           peer[t] \in exec_env_list
    /\ \A t \in Envs : pc[t] = "spreading" => visit[t] \subseteq exec_env_list
    /\ ~cluster_alive => \A t \in Envs : pc[t] \in Quiet

(* A thread without a handle has its creator waiting *)
HandlesAreSet ==
    \A e \in Envs :
        /\ pc[e] \notin Quiet \cup {"start"} => env[e].handle
        /\ pc[e] \in {"none", "new", "start"} => ~env[e].handle
        /\ pc[e] = "start" => \E t \in Envs : pc[t] = "created" /\ peer[t] = e

(* An exec_env has one creator, and who seeks a thread seeks one that was  *)
(* there                                                                   *)
PeersExist ==
    /\ \A t \in Envs : pc[t] \in Preparing => peer[t] \in Spawned /\ pc[peer[t]] = "new"
    /\ \A t, u \in Envs :
          pc[t] \in Preparing /\ pc[u] \in Preparing /\ peer[t] = peer[u] => t = u
    /\ \A t \in Envs : pc[t] = "created" => peer[t] \in Spawned
    /\ \A t \in Envs : pc[t] \in Seeking =>
          peer[t] \in Spawned /\ pc[peer[t]] \notin {"none", "new"}

MainIsAlone ==
    /\ pc[Main] \notin SpawnedPlaces
    /\ \A t \in Envs : pc[t] \in MainPlaces => t = Main
    /\ \A t \in Envs : pc[t] \in Joining => back[t] # "run" /\ (back[t] = "wait" => t = Main)

(* What the system keeps of a thread is what its exec_env says *)
NativesAgree ==
    /\ \A e \in exec_env_list :
          native[e] = IF env[e].thread_is_detached THEN "detached" ELSE "joinable"
    /\ \A e \in Envs : pc[e] \in {"none", "new"} => ~env[e].thread_is_detached
    /\ \A e \in Envs : native[e] = "ended" => pc[e] = "ended"
    /\ \A t \in Envs : pc[t] = "join_count" => ~env[peer[t]].thread_is_detached

ThreadInv == /\ ThreadTypeOK /\ LocksAreHeld /\ ListIsExact /\ HandlesAreSet
             /\ PeersExist /\ MainIsAlone /\ NativesAgree

(* While main is the only one that joins: a thread that main has counted   *)
(* itself for, and no other, ends joinable, and main waits for it          *)
JoinsAreCounted ==
    /\ \A t \in Envs : pc[t] \in Joining => t = Main
    /\ pc[Main] = "joining" =>
          \/ native[peer[Main]] = "ended"
          \/ native[peer[Main]] = "joinable" /\ env[peer[Main]].wait_count # 0
             /\ peer[Main] \in exec_env_list
    /\ \A e \in Envs : env[e].wait_count # 0 =>
          pc[Main] = "joining" /\ peer[Main] = e /\ e \in exec_env_list
    /\ \A e \in Spawned : native[e] = "ended" => pc[Main] = "joining" /\ peer[Main] = e

-----------------------------------------------------------------------------
(* What every library has in common: the steps of the thread manager, and  *)
(* those of guests and embedder that it knows of                           *)
Moves(t) == ThreadStep(t) \/ Trap(t) \/ Leave(t) \/ (t = Main /\ Embedder)

(* The fields of an exec_env keep their types. *)
LEMMA EnvTypes ==
    ASSUME ThreadInv, NEW t \in Envs, Moves(t)
    PROVE  env' \in [Envs -> ExecEnv]
  <1>0. env \in [Envs -> ExecEnv]
    BY Zenon DEF ThreadInv, ThreadTypeOK
  <1>1. ASSUME pc[t] \in Preparing \cup Seeking PROVE peer[t] \in Envs
    BY <1>1, SMTT(30) DEF ThreadInv, PeersExist, Spawned
  <1>2. CASE Create(t)
    <2>1. peer[t] \in Envs /\ env' = [env EXCEPT ![peer[t]].terminate = env[t].terminate]
      BY Zenon, <1>1, <1>2 DEF Create, At, Preparing
    <2> QED
      BY Zenon, <1>0, <2>1 DEF ExecEnv
  <1>3. CASE Start(t)
    BY <1>0, <1>3, Zenon DEF Start, ExecEnv
  <1>4. CASE JoinCount(t)
    <2>1. peer[t] \in Envs /\ env' = [env EXCEPT ![peer[t]].wait_count = @ + 1]
      BY Zenon, <1>1, <1>4 DEF JoinCount, At, Seeking, Joining
    <2> QED
      BY <1>0, <2>1 DEF ExecEnv
  <1>5. CASE CancelFlag(t)
    <2>1. peer[t] \in Envs /\ env' = [env EXCEPT ![peer[t]].terminate = TRUE]
      BY Zenon, <1>1, <1>5 DEF CancelFlag, At, Seeking
    <2> QED
      BY <1>0, <2>1, Zenon DEF ExecEnv
  <1>6. CASE Detach(t)
    <2>1. peer[t] \in Envs
      BY Zenon, <1>1, <1>6 DEF Detach, At, Seeking
    <2>2. CASE env' = [env EXCEPT ![peer[t]].thread_is_detached = TRUE]
      BY <1>0, <2>1, <2>2, Zenon DEF ExecEnv
    <2> QED
      BY Zenon, <1>0, <1>6, <2>2 DEF Detach
  <1>7. ASSUME NEW e \in Envs, SpreadTo(t, e) PROVE env' \in [Envs -> ExecEnv]
    <2>1. env' = [env EXCEPT ![e].terminate = TRUE]
      BY Zenon, <1>7 DEF SpreadTo
    <2> QED
      BY <1>0, <2>1, Zenon DEF ExecEnv
  <1>8. CASE Exit(t)
    BY Zenon, <1>0, <1>8 DEF Exit, Fresh, ExecEnv
  <1>9. ASSUME NEW e \in Envs, WaitVisit(t, e) PROVE env' \in [Envs -> ExecEnv]
    BY Zenon, <1>0, <1>9 DEF WaitVisit
  <1> QED
    BY Zenon, <1>0, <1>2, <1>3, <1>4, <1>5, <1>6, <1>7, <1>8, <1>9
       DEF Moves, ThreadStep, Joins, CreateFails, Created, TrapBegin, TrapSearch, SpreadBegin,
           SpreadEnd, ExitBegin, JoinBegin, JoinSearch, Join, DetachBegin, CancelBegin,
           CancelSearch, WaitEnd, Destroy, Trap, Leave, Embedder, WaitForAll

(* Every variable keeps its type. *)
LEMMA ThreadTypes ==
    ASSUME ThreadInv, NEW t \in Envs, Moves(t)
    PROVE  ThreadTypeOK'
  <1> USE ThreadManagerAssumption DEF ThreadInv, ThreadTypeOK, Places, Quiet, Preparing,
          Joining, Seeking, MainPlaces, SpawnedPlaces, ListHolders, ClusterHolders, At,
          Goto, cluster, locks
  <1>env. env' \in [Envs -> ExecEnv]
    BY Zenon, EnvTypes
  <1>1. CASE CreateFails(t) \/ Leave(t) \/ SpreadEnd(t) \/ TrapBegin(t)
    BY <1>1, <1>env, SMTT(30) DEF CreateFails, Leave, SpreadEnd, TrapBegin
  <1>2. CASE ExitBegin(t) \/ JoinBegin(t) \/ DetachBegin(t) \/ CancelBegin(t)
    BY <1>2, <1>env, SMTT(30) DEF ExitBegin, JoinBegin, DetachBegin, CancelBegin
  <1>3. CASE TrapSearch(t) \/ JoinSearch(t) \/ CancelSearch(t) \/ Join(t)
    BY <1>3, <1>env, SMTT(30) DEF TrapSearch, JoinSearch, CancelSearch, Join
  <1>4. CASE Created(t) \/ SpreadBegin(t)
    BY <1>4, <1>env, SMTT(30) DEF Created, SpreadBegin
  <1>5. CASE WaitEnd(t)
    BY <1>5, <1>env, SMTT(30) DEF WaitEnd
  <1>6. CASE Trap(t) \/ Destroy(t)
    BY <1>6, <1>env, SMTT(30) DEF Trap, Destroy, MayCall
  <1>7. CASE Exit(t)
    BY <1>7, <1>env, SMTT(30) DEF Exit
  <1>8. CASE Create(t)
    BY <1>8, <1>env, SMTT(30) DEF Create, PeersExist, Spawned
  <1>9. CASE Start(t)
    BY <1>9, <1>env, SMTT(30) DEF Start
  <1>10. CASE JoinCount(t) \/ CancelFlag(t)
    BY <1>10, <1>env, SMTT(30) DEF JoinCount, CancelFlag
  <1>11. CASE Detach(t)
    BY <1>11, <1>env, Zenon DEF Detach
  <1>12. ASSUME NEW e \in Envs, SpreadTo(t, e) PROVE ThreadTypeOK'
    BY <1>12, <1>env, SMTT(30) DEF SpreadTo
  <1>13. ASSUME NEW e \in Envs, WaitVisit(t, e) PROVE ThreadTypeOK'
    <2>1. CASE e = t
      BY <1>13, <1>env, <2>1 DEF WaitVisit
    <2>2. CASE e # t
      BY <1>13, <1>env, <2>2 DEF WaitVisit
    <2> QED
      BY Zenon, <2>1, <2>2
  <1>14. CASE t = Main /\ Embedder
    BY <1>14, <1>env, SMTT(30) DEF Embedder, WaitForAll
  <1> HIDE DEF ThreadInv, ThreadTypeOK
  <1> QED
    BY Zenon, <1>1, <1>2, <1>3, <1>4, <1>5, <1>6, <1>7, <1>8, <1>9, <1>10, <1>11, <1>12, <1>13,
       <1>14 DEF Moves, ThreadStep, Joins

(* A mutex is taken when it is free, and given back where its places end. *)
LEMMA ThreadLocks ==
    ASSUME ThreadInv, NEW t \in Envs, Moves(t)
    PROVE  LocksAreHeld'
  <1> USE ThreadManagerAssumption DEF ThreadInv, ThreadTypeOK, LocksAreHeld,
          ListHolders, ClusterHolders, At, Goto, Free, cluster, locks
  <1>1. CASE CreateFails(t) \/ Trap(t) \/ Leave(t) \/ SpreadEnd(t)
    BY <1>1, SMTT(30) DEF CreateFails, Trap, Leave, SpreadEnd, MayCall
  <1>2. CASE TrapBegin(t) \/ ExitBegin(t) \/ JoinBegin(t) \/ DetachBegin(t)
    BY <1>2, SMTT(30) DEF TrapBegin, ExitBegin, JoinBegin, DetachBegin
  <1>3. CASE CancelBegin(t) \/ CancelSearch(t) \/ CancelFlag(t)
    BY <1>3, SMTT(30) DEF CancelBegin, CancelSearch, CancelFlag
  <1>4. CASE TrapSearch(t) \/ JoinSearch(t) \/ Join(t) \/ Created(t)
    BY <1>4, SMTT(30) DEF TrapSearch, JoinSearch, Join, Created, MainIsAlone, Joining
  <1>5. CASE SpreadBegin(t) \/ WaitEnd(t) \/ Start(t) \/ JoinCount(t)
    BY <1>5, SMTT(30) DEF SpreadBegin, WaitEnd, Start, JoinCount
  <1>6. CASE Detach(t)
    BY <1>6, SMTT(30) DEF Detach
  <1>7. CASE Exit(t)
    BY <1>7, SMTT(30) DEF Exit
  <1>8. CASE Destroy(t)
    BY <1>8, SMTT(30) DEF Destroy
  <1>9. CASE Create(t)
    BY <1>9, SMTT(30) DEF Create, PeersExist, Preparing
  <1>10. ASSUME NEW e \in Envs, SpreadTo(t, e) PROVE LocksAreHeld'
    BY <1>10, SMTT(30) DEF SpreadTo
  <1>11. ASSUME NEW e \in Envs, WaitVisit(t, e) PROVE LocksAreHeld'
    BY <1>11, SMTT(30) DEF WaitVisit
  <1>12. CASE t = Main /\ Embedder
    BY <1>12, SMTT(30) DEF Embedder, WaitForAll
  <1> HIDE DEF ThreadInv, LocksAreHeld
  <1> QED
    BY Zenon, <1>1, <1>2, <1>3, <1>4, <1>5, <1>6, <1>7, <1>8, <1>9, <1>10, <1>11, <1>12
       DEF Moves, ThreadStep, Joins

(* Nobody leaves the list while somebody needs to find them there. *)
LEMMA ThreadList ==
    ASSUME ThreadInv, NEW t \in Envs, Moves(t),
           At(t, "destroy") => exec_env_list = {t} \/ \A u \in Envs : pc[u] # "spreading"
    PROVE  ListIsExact'
  <1> USE ThreadManagerAssumption DEF ThreadInv, ThreadTypeOK, ListIsExact, Quiet, At,
          Goto, cluster, locks
  <1>1. CASE CreateFails(t) \/ Trap(t) \/ Leave(t) \/ SpreadEnd(t)
    BY <1>1, SMTT(30) DEF CreateFails, Trap, Leave, SpreadEnd, MayCall
  <1>2. CASE TrapBegin(t) \/ ExitBegin(t) \/ JoinBegin(t) \/ DetachBegin(t)
    BY <1>2, SMTT(30) DEF TrapBegin, ExitBegin, JoinBegin, DetachBegin
  <1>3. CASE CancelBegin(t) \/ TrapSearch(t) \/ JoinSearch(t) \/ CancelSearch(t)
    BY <1>3, SMTT(30) DEF CancelBegin, TrapSearch, JoinSearch, CancelSearch
  <1>4. CASE Join(t) \/ Created(t) \/ SpreadBegin(t) \/ WaitEnd(t)
    BY <1>4, SMTT(30) DEF Join, Created, SpreadBegin, WaitEnd
  <1>5. CASE Detach(t)
    BY <1>5, SMTT(30) DEF Detach
  <1>6. CASE Start(t) \/ JoinCount(t)
    BY <1>6, SMTT(30) DEF Start, JoinCount
  <1>7. CASE CancelFlag(t)
    BY <1>7, SMTT(30) DEF CancelFlag
  <1>8. CASE Create(t)
    BY <1>8, SMTT(30) DEF Create
  <1>9. CASE Exit(t)
    BY <1>9, SMTT(30) DEF Exit, LocksAreHeld, ListHolders, ClusterHolders, Free
  <1>10. CASE Destroy(t)
    BY <1>10, SMTT(30) DEF Destroy, PeersExist, MainIsAlone, MainPlaces, Seeking,
        Joining, Spawned
  <1>11. ASSUME NEW e \in Envs, SpreadTo(t, e) PROVE ListIsExact'
    BY <1>11, SMTT(30) DEF SpreadTo
  <1>12. ASSUME NEW e \in Envs, WaitVisit(t, e) PROVE ListIsExact'
    BY <1>12, SMTT(30) DEF WaitVisit
  <1>13. CASE t = Main /\ Embedder
    BY <1>13, SMTT(30) DEF Embedder, WaitForAll
  <1> HIDE DEF ThreadInv, ListIsExact
  <1> QED
    BY Zenon, <1>1, <1>2, <1>3, <1>4, <1>5, <1>6, <1>7, <1>8, <1>9, <1>10, <1>11, <1>12,
       <1>13
       DEF Moves, ThreadStep, Joins

(* The creator waits for the handle with cluster->lock in its hands. *)
LEMMA ThreadHandles ==
    ASSUME ThreadInv, NEW t \in Envs, Moves(t)
    PROVE  HandlesAreSet'
  <1> USE ThreadManagerAssumption DEF ThreadInv, ThreadTypeOK, HandlesAreSet, Quiet, At,
          Goto, cluster, locks
  <1>1. CASE CreateFails(t) \/ Trap(t) \/ Leave(t) \/ SpreadEnd(t)
    BY <1>1, SMTT(30) DEF CreateFails, Trap, Leave, SpreadEnd, MayCall
  <1>2. CASE TrapBegin(t) \/ ExitBegin(t) \/ JoinBegin(t) \/ DetachBegin(t)
    BY <1>2, SMTT(30) DEF TrapBegin, ExitBegin, JoinBegin, DetachBegin
  <1>3. CASE CancelBegin(t) \/ TrapSearch(t) \/ JoinSearch(t) \/ CancelSearch(t)
    BY <1>3, SMTT(30) DEF CancelBegin, TrapSearch, JoinSearch, CancelSearch
  <1>4. CASE Join(t) \/ Created(t) \/ SpreadBegin(t) \/ WaitEnd(t)
    BY <1>4, SMTT(30) DEF Join, Created, SpreadBegin, WaitEnd
  <1>5. CASE Start(t)
    BY <1>5, SMTT(30) DEF Start, ExecEnv
  <1>6. CASE Exit(t)
    BY <1>6, SMTT(30) DEF Exit, Fresh
  <1>7. CASE JoinCount(t)
    BY <1>7, SMTT(30) DEF JoinCount, ExecEnv, PeersExist, Seeking, Joining, Spawned
  <1>8. CASE CancelFlag(t)
    BY <1>8, SMTT(30) DEF CancelFlag, ExecEnv, PeersExist, Seeking, Spawned
  <1>9. CASE Detach(t)
    <2>1. peer[t] \in Envs
      BY Zenon, <1>9 DEF Detach, PeersExist, Seeking, Spawned
    <2>2. CASE MayDetach(peer[t])
      <3>1. \A e \in Envs : env'[e].handle = env[e].handle
        BY <1>9, <2>1, <2>2 DEF Detach, ExecEnv
      <3> QED
        BY Zenon, <1>9, <3>1 DEF Detach
    <2>3. CASE ~MayDetach(peer[t])
      BY Zenon, <1>9, <2>3 DEF Detach
    <2> QED
      BY Zenon, <2>2, <2>3
  <1>10. CASE Create(t)
    <2>1. peer[t] \in Envs /\ pc[peer[t]] = "new" /\ pc[t] = "create"
      BY Zenon, <1>10 DEF Create, PeersExist, Preparing, Spawned
    <2>2. \A e \in Envs : env'[e].handle = env[e].handle
      BY <1>10, <2>1 DEF Create, ExecEnv
    <2>3. pc' = [pc EXCEPT ![t] = "created", ![peer[t]] = "start"] /\ UNCHANGED peer
      BY Zenon, <1>10 DEF Create
    <2> QED
      BY <2>1, <2>2, <2>3
  <1>11. CASE Destroy(t)
    BY <1>11, SMTT(30) DEF Destroy
  <1>12. ASSUME NEW e \in Envs, SpreadTo(t, e) PROVE HandlesAreSet'
    BY <1>12, SMTT(30) DEF SpreadTo, ExecEnv
  <1>13. ASSUME NEW e \in Envs, WaitVisit(t, e) PROVE HandlesAreSet'
    BY <1>13, SMTT(30) DEF WaitVisit
  <1>14. CASE t = Main /\ Embedder
    BY <1>14, SMTT(30) DEF Embedder, WaitForAll
  <1> HIDE DEF ThreadInv, HandlesAreSet
  <1> QED
    BY Zenon, <1>1, <1>2, <1>3, <1>4, <1>5, <1>6, <1>7, <1>8, <1>9, <1>10, <1>11, <1>12, <1>13,
       <1>14 DEF Moves, ThreadStep, Joins

(* A thread that is sought has begun, and one that is prepared has not. *)
LEMMA ThreadPeers ==
    ASSUME ThreadInv, NEW t \in Envs, Moves(t)
    PROVE  PeersExist'
  <1> USE ThreadManagerAssumption DEF ThreadInv, ThreadTypeOK, PeersExist, Preparing,
          Seeking, Joining, Spawned, At, Goto, cluster, locks
  <1>1. CASE CreateFails(t) \/ Trap(t) \/ Leave(t) \/ SpreadEnd(t)
    BY <1>1, SMTT(30) DEF CreateFails, Trap, Leave, SpreadEnd, MayCall
  <1>2. CASE TrapBegin(t) \/ ExitBegin(t)
    BY <1>2, SMTT(30) DEF TrapBegin, ExitBegin
  <1>3. CASE JoinBegin(t) \/ DetachBegin(t)
    BY <1>3, SMTT(30) DEF JoinBegin, DetachBegin
  <1>4. CASE CancelBegin(t) \/ TrapSearch(t) \/ Join(t) \/ Created(t)
    BY <1>4, SMTT(30) DEF CancelBegin, TrapSearch, Join, Created
  <1>5. CASE SpreadBegin(t) \/ WaitEnd(t) \/ Start(t) \/ JoinCount(t)
    BY <1>5, SMTT(30) DEF SpreadBegin, WaitEnd, Start, JoinCount
  <1>6. CASE CancelFlag(t)
    BY <1>6, SMTT(30) DEF CancelFlag
  <1>7. CASE Exit(t)
    BY <1>7, SMTT(30) DEF Exit
  <1>8. CASE Detach(t)
    BY <1>8, SMTT(30) DEF Detach
  <1>9. CASE Destroy(t)
    BY <1>9, SMTT(30) DEF Destroy
  <1>10. CASE JoinSearch(t)
    BY <1>10, SMTT(30) DEF JoinSearch, MainIsAlone
  <1>11. CASE CancelSearch(t)
    BY <1>11, SMTT(30) DEF CancelSearch
  <1>12. CASE Create(t)
    BY <1>12, SMTT(30) DEF Create
  <1>13. ASSUME NEW e \in Envs, SpreadTo(t, e) PROVE PeersExist'
    BY <1>13, SMTT(30) DEF SpreadTo
  <1>14. ASSUME NEW e \in Envs, WaitVisit(t, e) PROVE PeersExist'
    <2>1. CASE e = t
      BY <1>14, <2>1 DEF WaitVisit
    <2>2. CASE e # t
      BY <1>14, <2>2 DEF WaitVisit, ListIsExact, MainIsAlone, Quiet, MainPlaces
    <2> QED
      BY Zenon, <2>1, <2>2
  <1>15. CASE t = Main /\ Embedder
    BY <1>15, SMTT(30) DEF Embedder, WaitForAll
  <1> HIDE DEF ThreadInv, PeersExist
  <1> QED
    BY Zenon, <1>1, <1>2, <1>3, <1>4, <1>5, <1>6, <1>7, <1>8, <1>9, <1>10, <1>11, <1>12, <1>13,
       <1>14, <1>15 DEF Moves, ThreadStep, Joins

(* Only main waits for all. *)
LEMMA ThreadMain ==
    ASSUME ThreadInv, NEW t \in Envs, Moves(t)
    PROVE  MainIsAlone'
  <1> USE ThreadManagerAssumption DEF ThreadInv, ThreadTypeOK, MainIsAlone,
          SpawnedPlaces, MainPlaces, Joining, Spawned, At, Goto, cluster, locks
  <1>1. CASE CreateFails(t) \/ Trap(t) \/ Leave(t) \/ SpreadEnd(t)
    BY <1>1, SMTT(30) DEF CreateFails, Trap, Leave, SpreadEnd, MayCall
  <1>2. CASE TrapBegin(t) \/ ExitBegin(t) \/ JoinBegin(t) \/ DetachBegin(t)
    BY <1>2, SMTT(30) DEF TrapBegin, ExitBegin, JoinBegin, DetachBegin
  <1>3. CASE CancelBegin(t) \/ TrapSearch(t) \/ JoinSearch(t) \/ CancelSearch(t)
    BY <1>3, SMTT(30) DEF CancelBegin, TrapSearch, JoinSearch, CancelSearch
  <1>4. CASE Join(t) \/ Created(t) \/ SpreadBegin(t) \/ WaitEnd(t)
    BY <1>4, SMTT(30) DEF Join, Created, SpreadBegin, WaitEnd
  <1>5. CASE Start(t) \/ JoinCount(t) \/ CancelFlag(t) \/ Exit(t)
    BY <1>5, SMTT(30) DEF Start, JoinCount, CancelFlag, Exit
  <1>6. CASE Detach(t) \/ Destroy(t)
    BY <1>6, SMTT(30) DEF Detach, Destroy
  <1>7. CASE Create(t)
    BY <1>7, SMTT(30) DEF Create, PeersExist, Preparing
  <1>8. ASSUME NEW e \in Envs, SpreadTo(t, e) PROVE MainIsAlone'
    BY <1>8, SMTT(30) DEF SpreadTo
  <1>9. ASSUME NEW e \in Envs, WaitVisit(t, e) PROVE MainIsAlone'
    BY <1>9, SMTT(30) DEF WaitVisit
  <1>10. CASE t = Main /\ Embedder
    BY <1>10, SMTT(30) DEF Embedder, WaitForAll
  <1> HIDE DEF ThreadInv, MainIsAlone
  <1> QED
    BY Zenon, <1>1, <1>2, <1>3, <1>4, <1>5, <1>6, <1>7, <1>8, <1>9, <1>10
       DEF Moves, ThreadStep, Joins

(* The native thread is detached when its exec_env says so, and ends once. *)
LEMMA ThreadNatives ==
    ASSUME ThreadInv, NEW t \in Envs, Moves(t)
    PROVE  NativesAgree'
  <1> USE ThreadManagerAssumption DEF ThreadInv, ThreadTypeOK, NativesAgree,
          ListIsExact, Quiet, At, Goto, cluster, locks
  <1>1. CASE CreateFails(t) \/ Trap(t) \/ Leave(t) \/ SpreadEnd(t)
    BY <1>1, SMTT(30) DEF CreateFails, Trap, Leave, SpreadEnd, MayCall
  <1>2. CASE TrapBegin(t) \/ ExitBegin(t) \/ JoinBegin(t) \/ DetachBegin(t)
    BY <1>2, SMTT(30) DEF TrapBegin, ExitBegin, JoinBegin, DetachBegin
  <1>3. CASE CancelBegin(t) \/ TrapSearch(t) \/ JoinSearch(t) \/ CancelSearch(t)
    BY <1>3, SMTT(30) DEF CancelBegin, TrapSearch, JoinSearch, CancelSearch
  <1>4. CASE Join(t) \/ Created(t) \/ SpreadBegin(t) \/ WaitEnd(t)
    BY <1>4, SMTT(30) DEF Join, Created, SpreadBegin, WaitEnd
  <1>5. CASE Start(t)
    BY <1>5, SMTT(30) DEF Start, ExecEnv
  <1>6. CASE JoinCount(t)
    BY <1>6, SMTT(30) DEF JoinCount, ExecEnv
  <1>7. CASE CancelFlag(t)
    BY <1>7, SMTT(30) DEF CancelFlag, ExecEnv
  <1>8. CASE Exit(t)
    BY <1>8, SMTT(30) DEF Exit, ExecEnv, Fresh
  <1>9. CASE Destroy(t)
    BY <1>9, SMTT(30) DEF Destroy
  <1>10. CASE Create(t)
    BY <1>10, SMTT(30) DEF Create, PeersExist, Preparing, Spawned, ExecEnv
  <1>11. CASE Detach(t)
    <2>1. peer[t] \in Envs /\ \A u \in Envs : pc[u] # "join_count"
      BY <1>11 DEF Detach, PeersExist, Seeking, Spawned, LocksAreHeld, ListHolders
    <2>2. \A u \in Envs : pc'[u] # "join_count"
      BY <1>11, <2>1 DEF Detach
    <2>3. CASE MayDetach(peer[t])
      <3>1. /\ env'[peer[t]].thread_is_detached /\ native'[peer[t]] = "detached"
            /\ \A e \in Envs \ {peer[t]} : env'[e] = env[e] /\ native'[e] = native[e]
        BY <1>11, <2>1, <2>3 DEF Detach, ExecEnv
      <3>2. peer[t] \in exec_env_list
        BY Zenon, <2>3 DEF MayDetach
      <3> QED
        BY <1>11, <2>1, <2>2, <3>1, <3>2 DEF Detach
    <2>4. CASE ~MayDetach(peer[t])
      BY <1>11, <2>2, <2>4 DEF Detach
    <2> QED
      BY Zenon, <2>3, <2>4
  <1>12. ASSUME NEW e \in Envs, SpreadTo(t, e) PROVE NativesAgree'
    BY <1>12, SMTT(30) DEF SpreadTo, ExecEnv
  <1>13. ASSUME NEW e \in Envs, WaitVisit(t, e) PROVE NativesAgree'
    BY <1>13, SMTT(30) DEF WaitVisit
  <1>14. CASE t = Main /\ Embedder
    BY <1>14, SMTT(30) DEF Embedder, WaitForAll
  <1> HIDE DEF ThreadInv, NativesAgree
  <1> QED
    BY Zenon, <1>1, <1>2, <1>3, <1>4, <1>5, <1>6, <1>7, <1>8, <1>9, <1>10, <1>11, <1>12, <1>13,
       <1>14 DEF Moves, ThreadStep, Joins

(* Every step of the thread manager preserves the invariant. *)
LEMMA ThreadStepInv ==
    ASSUME ThreadInv, NEW t \in Envs, Moves(t),
           At(t, "destroy") => exec_env_list = {t} \/ \A u \in Envs : pc[u] # "spreading"
    PROVE  ThreadInv'
  BY Zenon, ThreadTypes, ThreadLocks, ThreadList, ThreadHandles, ThreadPeers, ThreadMain,
     ThreadNatives
     DEF ThreadInv

(* No thread comes to its start function, or ends it, but by its library. *)
LEMMA ThreadLives ==
    ASSUME ThreadInv, NEW t \in Envs, Moves(t)
    PROVE  \A e \in Spawned : pc'[e] \in Past <=> pc[e] \in Past
  <1> USE ThreadManagerAssumption DEF ThreadInv, ThreadTypeOK, At, Goto, Spawned, Past
  <1>1. CASE CreateFails(t) \/ Trap(t) \/ Leave(t) \/ SpreadEnd(t)
    BY <1>1, SMTT(30) DEF CreateFails, Trap, Leave, SpreadEnd, MayCall
  <1>2. CASE TrapBegin(t) \/ ExitBegin(t) \/ JoinBegin(t) \/ TrapSearch(t)
    BY <1>2, SMTT(30) DEF TrapBegin, ExitBegin, JoinBegin, TrapSearch
  <1>3. CASE DetachBegin(t) \/ Detach(t) \/ CancelBegin(t) \/ CancelSearch(t) \/ CancelFlag(t)
    BY <1>3, SMTT(30) DEF DetachBegin, Detach, CancelBegin, CancelSearch, CancelFlag
  <1>4. CASE JoinSearch(t) \/ Join(t)
    BY <1>4, SMTT(30) DEF JoinSearch, Join
  <1>5. CASE Created(t) \/ SpreadBegin(t) \/ WaitEnd(t)
    BY <1>5, SMTT(30) DEF Created, SpreadBegin, WaitEnd
  <1>6. CASE Destroy(t)
    BY <1>6, SMTT(30) DEF Destroy, MainIsAlone, MainPlaces
  <1>7. CASE Start(t) \/ JoinCount(t) \/ Exit(t)
    BY <1>7, SMTT(30) DEF Start, JoinCount, Exit
  <1>8. CASE Create(t)
    BY <1>8, SMTT(30) DEF Create, PeersExist, Preparing
  <1>9. ASSUME NEW e \in Envs, SpreadTo(t, e) PROVE \A f \in Spawned : pc'[f] \in Past <=> pc[f] \in Past
    BY <1>9, SMTT(30) DEF SpreadTo
  <1>10. ASSUME NEW e \in Envs, WaitVisit(t, e) PROVE \A f \in Spawned : pc'[f] \in Past <=> pc[f] \in Past
    BY <1>10, SMTT(30) DEF WaitVisit
  <1>11. CASE t = Main /\ Embedder
    BY <1>11, SMTT(30) DEF Embedder, WaitForAll
  <1> HIDE DEF ThreadInv, Past, Spawned
  <1> QED
    BY Zenon, <1>1, <1>2, <1>3, <1>4, <1>5, <1>6, <1>7, <1>8, <1>9, <1>10, <1>11
       DEF Moves, ThreadStep, Joins

(* Main runs, and no other thread is there. *)
LEMMA ThreadInitInv == Init => ThreadInv
  <1> SUFFICES ASSUME Init PROVE ThreadInv
    OBVIOUS
  <1> USE ThreadManagerAssumption DEF Init, Quiet
  <1>1. ThreadTypeOK
    BY Zenon DEF ThreadTypeOK, ExecEnv, Fresh, Places, SpawnedPlaces
  <1>2. LocksAreHeld /\ ListIsExact /\ PeersExist
    BY Zenon DEF LocksAreHeld, ListIsExact, PeersExist, ListHolders, ClusterHolders, Preparing,
       Seeking, Joining
  <1>3. HandlesAreSet /\ NativesAgree
    BY Zenon DEF HandlesAreSet, NativesAgree, Fresh
  <1>4. MainIsAlone
    BY Zenon DEF MainIsAlone, SpawnedPlaces, MainPlaces, Joining
  <1> QED
    BY Zenon, <1>1, <1>2, <1>3, <1>4 DEF ThreadInv

(* A step that leaves the threads alone preserves it. *)
LEMMA ThreadStutter == ThreadInv /\ UNCHANGED vars => ThreadInv'
  <1> SUFFICES ASSUME ThreadInv, UNCHANGED vars PROVE ThreadInv'
    OBVIOUS
  <1> USE DEF vars, cluster, locks, local, ThreadInv
  <1>1. ThreadTypeOK' /\ LocksAreHeld' /\ ListIsExact'
    BY Zenon DEF ThreadTypeOK, LocksAreHeld, ListIsExact
  <1>2. HandlesAreSet' /\ PeersExist'
    BY Zenon DEF HandlesAreSet, PeersExist
  <1>3. MainIsAlone' /\ NativesAgree'
    BY Zenon DEF MainIsAlone, NativesAgree
  <1> QED
    BY Zenon, <1>1, <1>2, <1>3

-----------------------------------------------------------------------------
(* A thread that main has counted itself for is not detached, and is released by main alone. *)
LEMMA JoinsMoves ==
    ASSUME ThreadInv, JoinsAreCounted, NEW t \in Envs, Moves(t)
    PROVE  JoinsAreCounted'
  <1> USE ThreadManagerAssumption DEF ThreadInv, ThreadTypeOK, At, Goto, cluster, locks,
          JoinsAreCounted, Joining, PeersExist, Seeking, Spawned
  <1>1. CASE CreateFails(t) \/ Leave(t) \/ Trap(t)
    BY <1>1, SMTT(30) DEF CreateFails, Leave, Trap, MayCall
  <1>2. CASE TrapBegin(t) \/ TrapSearch(t) \/ SpreadBegin(t) \/ SpreadEnd(t)
    BY <1>2, SMTT(30) DEF TrapBegin, TrapSearch, SpreadBegin, SpreadEnd
  <1>3. CASE ExitBegin(t) \/ JoinBegin(t) \/ DetachBegin(t) \/ CancelBegin(t)
    BY <1>3, SMTT(30) DEF ExitBegin, JoinBegin, DetachBegin, CancelBegin
  <1>4. CASE JoinSearch(t)
    BY <1>4, SMTT(30) DEF JoinSearch
  <1>5. CASE Join(t)
    BY <1>5, SMTT(30) DEF Join, NativesAgree, ListIsExact, Quiet, MainIsAlone
  <1>6. CASE CancelSearch(t)
    BY <1>6, SMTT(30) DEF CancelSearch
  <1>7. CASE CancelFlag(t)
    BY <1>7, SMTT(30) DEF CancelFlag, ExecEnv
  <1>8. CASE Detach(t)
    <2>1. peer[t] \in Envs
      BY Zenon, <1>8 DEF Detach
    <2>2. CASE MayDetach(peer[t])
      <3>1. /\ env' = [env EXCEPT ![peer[t]].thread_is_detached = TRUE]
            /\ native' = [native EXCEPT ![peer[t]] = "detached"]
            /\ pc[t] = "detach_search" /\ pc' = [pc EXCEPT ![t] = "run"]
            /\ UNCHANGED <<peer, exec_env_list>>
        BY Zenon, <1>8, <2>2 DEF Detach
      <3>2. env[peer[t]].wait_count = 0 /\ \A e \in Envs : env'[e].wait_count = env[e].wait_count
        BY <2>1, <2>2, <3>1 DEF ExecEnv, MayDetach
      <3>3. native[peer[t]] # "ended"
        BY Zenon, <2>2 DEF MayDetach, NativesAgree
      <3> QED
        BY <2>1, <3>1, <3>2, <3>3
    <2>3. CASE ~MayDetach(peer[t])
      BY <1>8, <2>3 DEF Detach
    <2> QED
      BY Zenon, <2>2, <2>3
  <1>9. CASE Created(t)
    BY <1>9, SMTT(30) DEF Created
  <1>10. CASE WaitEnd(t)
    BY <1>10, SMTT(30) DEF WaitEnd
  <1>11. CASE Destroy(t)
    BY <1>11, SMTT(30) DEF Destroy, MainIsAlone, MainPlaces
  <1>12. CASE Start(t)
    BY <1>12, SMTT(30) DEF Start, ExecEnv
  <1>13. CASE JoinCount(t)
    BY <1>13, SMTT(30) DEF JoinCount, ExecEnv, NativesAgree, ListIsExact
  <1>14. CASE Exit(t)
    BY <1>14, SMTT(30) DEF Exit, Fresh, ExecEnv, NativesAgree, ListIsExact, Quiet
  <1>15. CASE Create(t)
    BY <1>15, SMTT(30) DEF Create, Preparing, ExecEnv, NativesAgree
  <1>16. ASSUME NEW e \in Envs, SpreadTo(t, e) PROVE JoinsAreCounted'
    BY <1>16, SMTT(30) DEF SpreadTo, ExecEnv
  <1>17. ASSUME NEW e \in Envs, WaitVisit(t, e) PROVE JoinsAreCounted'
    BY <1>17, SMTT(30) DEF WaitVisit, MainIsAlone, MainPlaces
  <1>18. CASE t = Main /\ Embedder
    BY <1>18, SMTT(30) DEF Embedder, WaitForAll
  <1> HIDE DEF ThreadInv, JoinsAreCounted
  <1> QED
    BY Zenon, <1>1, <1>2, <1>3, <1>4, <1>5, <1>6, <1>7, <1>8, <1>9, <1>10, <1>11, <1>12, <1>13,
       <1>14, <1>15, <1>16, <1>17, <1>18 DEF Moves, ThreadStep, Joins

(* A native thread is released once while main alone joins. *)
LEMMA CountedReleases == ThreadInv /\ JoinsAreCounted => ThreadsReleasedOnce
  BY Zenon, ThreadManagerAssumption DEF ThreadInv, PeersExist, Seeking, JoinsAreCounted, Joining,
     ThreadsReleasedOnce, At

=============================================================================
