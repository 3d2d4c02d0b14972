--------------------------- MODULE PthreadProofs ----------------------------
(***************************************************************************)
(* The inductive invariant of the threads of a guest with lib-pthread,     *)
(* which its own steps and those of the thread manager preserve.           *)
(***************************************************************************)
EXTENDS Pthreads, ThreadProofs

(* The places of a thread that uses pthreads *)
PthreadPlaces == Quiet \cup MainPlaces \cup Preparing \cup Seeking \cup
                 {"run", "created", "create_done", "await", "start", "routine", "return",
                  "keep", "delete", "free_aux", "exit", "exiting"}

Returned == {"free_aux", "exit", "exiting", "ended"}

(* A thread that has claimed another, to join or to detach it *)
Claims(t) == \/ pc[t] \in {"joined", "detach", "detach_search"}
             \/ pc[t] \in Joining /\ back[t] = "joined"

(* Nobody detaches a thread that is being joined, so that a join that      *)
(* finds nothing to wait for finds a thread that has ended                 *)
ClaimsAreKept ==
    /\ \A t \in Envs : Claims(t) => peer[t] \in claimed
    /\ \A t, u \in Envs : Claims(t) /\ Claims(u) /\ peer[t] = peer[u] => t = u
    /\ \A e \in Envs : env[e].thread_is_detached => e \in claimed
    /\ \A t \in Envs : pc[t] \in Joining /\ back[t] = "joined" =>
                           ~env[peer[t]].thread_is_detached

NodesAreThere ==
    /\ pc \in [Envs -> PthreadPlaces]
    /\ status \in [Envs -> {"none", "init", "running", "cancelled", "exit", "gone"}]
    /\ parent \in [Envs -> Envs \cup {NoOne}]
    /\ \A e \in Envs : pc[e] = "none" => status[e] = "none"
    /\ \A e \in Envs : pc[e] = "new" =>
          parent[e] \in Envs /\ pc[parent[e]] \in Preparing /\ peer[parent[e]] = e
    /\ \A e \in Envs : status[e] = "exit" => pc[e] \in Returned

(* A thread holds its own wait_lock only while it creates another *)
OwnLocks ==
    /\ wait_lock \in [Envs -> Envs \cup {NoOne}]
    /\ \A t \in Envs : pc[t] \notin {"create", "created", "create_done", "create_failed"} =>
                           wait_lock[t] = NoOne

(* There are no more stacks than threads may be, and each is of a thread   *)
(* that is being prepared or has not come to its end                       *)
StacksAreCounted ==
    /\ IsFiniteSet(stacks) /\ Cardinality(stacks) <= cluster_max_thread_num
    /\ cluster_max_thread_num \in Nat

StacksAreOwned ==
    \A e \in stacks : e \in Spawned /\ pc[e] \notin {"none", "exit", "exiting", "ended"}

PthreadInv == /\ ThreadInv /\ ClaimsAreKept /\ NodesAreThere /\ OwnLocks
              /\ StacksAreCounted /\ StacksAreOwned /\ JoinedHaveReturned

-----------------------------------------------------------------------------
(* The steps of the thread manager in a guest that does not trap *)
PthreadMoves(t) == ThreadStep(t) \/ Leave(t) \/ (t = Main /\ Embedder)

(* The steps of the library alone: of a thread that creates another, ... *)
Creates(t) == AllocateAuxStack(t) \/ LockSelf(t) \/ UnlockSelf(t) \/ CreateReturns(t)

(* ... of one that begins, ends, or has joined, ... *)
Proceeds(t) == \/ pthread_start_routine(t) \/ ReadJoinable(t) \/ EndNode(t)
               \/ FreeAuxStack(t) \/ JoinReturns(t)

(* ... and of one that begins to create, fails to, or asks for another *)
Asks(t, e) == pthread_join(t, e) \/ pthread_detach(t, e) \/ pthread_cancel(t, e)

(* The thread manager begins no thread whose node is not filled in. *)
LEMMA NodesMoves ==
    ASSUME PthreadInv, NEW t \in Envs, PthreadMoves(t),
           UNCHANGED <<pthreadVars, cluster_max_thread_num>>
    PROVE  NodesAreThere'
  <1> USE ThreadManagerAssumption DEF PthreadInv, ThreadInv, ThreadTypeOK, At, Goto,
          cluster, locks, NodesAreThere, Returned, Preparing, PthreadPlaces, Quiet,
          MainPlaces, Seeking, Joining, pthreadVars
  <1>1. CASE CreateFails(t) \/ Leave(t)
    BY <1>1, SMTT(30) DEF CreateFails, Leave
  <1>2. CASE TrapBegin(t) \/ TrapSearch(t) \/ SpreadBegin(t) \/ SpreadEnd(t)
    BY <1>2, SMTT(30) DEF TrapBegin, TrapSearch, SpreadBegin, SpreadEnd
  <1>3. CASE ExitBegin(t) \/ JoinBegin(t) \/ DetachBegin(t) \/ CancelBegin(t)
    BY <1>3, SMTT(30) DEF ExitBegin, JoinBegin, DetachBegin, CancelBegin
  <1>4. CASE JoinSearch(t) \/ Join(t)
    BY <1>4, SMTT(30) DEF JoinSearch, Join, MainIsAlone
  <1>5. CASE CancelSearch(t) \/ CancelFlag(t) \/ Detach(t)
    BY <1>5, SMTT(30) DEF CancelSearch, CancelFlag, Detach
  <1>6. CASE Created(t)
    BY <1>6, SMTT(30) DEF Created
  <1>7. CASE WaitEnd(t)
    BY <1>7, SMTT(30) DEF WaitEnd
  <1>8. CASE Destroy(t)
    BY <1>8, SMTT(30) DEF Destroy
  <1>9. CASE Start(t) \/ JoinCount(t)
    BY <1>9, SMTT(30) DEF Start, JoinCount
  <1>10. CASE Exit(t)
    BY <1>10, SMTT(30) DEF Exit
  <1>11. CASE Create(t)
    BY <1>11, SMTT(30) DEF Create, PeersExist, Spawned
  <1>12. ASSUME NEW e \in Envs, SpreadTo(t, e) PROVE NodesAreThere'
    BY <1>12, SMTT(30) DEF SpreadTo
  <1>13. ASSUME NEW e \in Envs, WaitVisit(t, e) PROVE NodesAreThere'
    BY <1>13, SMTT(30) DEF WaitVisit
  <1>14. CASE t = Main /\ Embedder
    BY <1>14, SMTT(30) DEF Embedder, WaitForAll
  <1> HIDE DEF PthreadInv, ThreadInv, NodesAreThere
  <1> QED
    BY Zenon, <1>1, <1>2, <1>3, <1>4, <1>5, <1>6, <1>7, <1>8, <1>9, <1>10, <1>11, <1>12, <1>13,
       <1>14 DEF PthreadMoves, ThreadStep, Joins

(* A thread that is being joined is not detached. *)
LEMMA ClaimsMoves ==
    ASSUME PthreadInv, NEW t \in Envs, PthreadMoves(t),
           UNCHANGED <<pthreadVars, cluster_max_thread_num>>
    PROVE  ClaimsAreKept'
  <1> USE ThreadManagerAssumption DEF PthreadInv, ThreadInv, ThreadTypeOK, At, Goto,
          cluster, locks, ClaimsAreKept, Claims, Joining, pthreadVars
  <1>1. CASE CreateFails(t) \/ Leave(t)
    BY <1>1, SMTT(30) DEF CreateFails, Leave
  <1>2. CASE TrapBegin(t) \/ TrapSearch(t) \/ SpreadBegin(t) \/ SpreadEnd(t)
    BY <1>2, SMTT(30) DEF TrapBegin, TrapSearch, SpreadBegin, SpreadEnd, NodesAreThere,
        PthreadPlaces, Quiet, MainPlaces, Preparing, Seeking
  <1>3. CASE ExitBegin(t) \/ JoinBegin(t) \/ DetachBegin(t) \/ CancelBegin(t)
    BY <1>3, SMTT(30) DEF ExitBegin, JoinBegin, DetachBegin, CancelBegin
  <1>4. CASE JoinSearch(t) \/ Join(t)
    BY <1>4, SMTT(30) DEF JoinSearch, Join
  <1>5. CASE CancelSearch(t)
    BY <1>5, SMTT(30) DEF CancelSearch
  <1>6. CASE CancelFlag(t)
    BY <1>6, SMTT(30) DEF CancelFlag, ExecEnv
  <1>7. CASE Detach(t)
    <2>1. peer[t] \in Envs /\ peer[t] \in claimed
      BY Zenon, <1>7 DEF Detach, PeersExist, Seeking, Spawned
    <2>2. CASE MayDetach(peer[t])
      <3>1. env' = [env EXCEPT ![peer[t]].thread_is_detached = TRUE]
            /\ pc[t] = "detach_search" /\ pc' = [pc EXCEPT ![t] = "run"]
            /\ UNCHANGED <<peer, back, claimed>>
        BY Zenon, <1>7, <2>2 DEF Detach
      <3>2. \A e \in Envs \ {peer[t]} : env'[e] = env[e]
        BY Zenon, <2>1, <3>1 DEF ExecEnv
      <3> QED
        BY <2>1, <3>1, <3>2
    <2>3. CASE ~MayDetach(peer[t])
      BY <1>7, <2>3 DEF Detach
    <2> QED
      BY Zenon, <2>2, <2>3
  <1>8. CASE Created(t)
    BY <1>8, SMTT(30) DEF Created
  <1>9. CASE WaitEnd(t)
    BY <1>9, SMTT(30) DEF WaitEnd
  <1>10. CASE Destroy(t)
    BY <1>10, SMTT(30) DEF Destroy
  <1>11. CASE Start(t)
    BY <1>11, SMTT(30) DEF Start, ExecEnv
  <1>12. CASE JoinCount(t)
    BY <1>12, SMTT(30) DEF JoinCount, ExecEnv, PeersExist, Spawned, Seeking
  <1>13. CASE Exit(t)
    BY <1>13, SMTT(30) DEF Exit, Fresh, ExecEnv
  <1>14. CASE Create(t)
    <2>1. peer[t] \in Envs
      BY <1>14 DEF Create, PeersExist, Spawned, Preparing
    <2>2. /\ pc' = [pc EXCEPT ![t] = "created", ![peer[t]] = "start"]
          /\ env' = [env EXCEPT ![peer[t]].terminate = env[t].terminate]
          /\ UNCHANGED <<peer, back, claimed>>
      BY Zenon, <1>14 DEF Create
    <2>3. \A u \in Envs : pc'[u] = pc[u] \/ pc'[u] \in {"created", "start"}
      BY <2>1, <2>2
    <2>4. \A e \in Envs : env'[e].thread_is_detached = env[e].thread_is_detached
      BY <2>1, <2>2 DEF ExecEnv
    <2> QED
      BY <2>1, <2>2, <2>3, <2>4
  <1>15. ASSUME NEW e \in Envs, SpreadTo(t, e) PROVE ClaimsAreKept'
    BY <1>15, SMTT(30) DEF SpreadTo, ExecEnv
  <1>16. ASSUME NEW e \in Envs, WaitVisit(t, e) PROVE ClaimsAreKept'
    BY <1>16, SMTT(30) DEF WaitVisit
  <1>17. CASE t = Main /\ Embedder
    BY <1>17, SMTT(30) DEF Embedder, WaitForAll
  <1> HIDE DEF PthreadInv, ThreadInv, ClaimsAreKept
  <1> QED
    BY Zenon, <1>1, <1>2, <1>3, <1>4, <1>5, <1>6, <1>7, <1>8, <1>9, <1>10, <1>11, <1>12, <1>13,
       <1>14, <1>15, <1>16, <1>17 DEF PthreadMoves, ThreadStep, Joins

(* Whoever holds its own wait_lock is creating a thread. *)
LEMMA OwnLocksMoves ==
    ASSUME PthreadInv, NEW t \in Envs, PthreadMoves(t),
           UNCHANGED <<pthreadVars, cluster_max_thread_num>>
    PROVE  OwnLocks'
  <1> USE ThreadManagerAssumption DEF PthreadInv, ThreadInv, ThreadTypeOK, At, Goto,
          cluster, locks, OwnLocks, pthreadVars
  <1>1. CASE CreateFails(t) \/ Leave(t)
    BY <1>1, SMTT(30) DEF CreateFails, Leave
  <1>2. CASE TrapBegin(t) \/ TrapSearch(t) \/ SpreadBegin(t) \/ SpreadEnd(t)
    BY <1>2, SMTT(30) DEF TrapBegin, TrapSearch, SpreadBegin, SpreadEnd
  <1>3. CASE ExitBegin(t) \/ JoinBegin(t) \/ DetachBegin(t) \/ CancelBegin(t)
    BY <1>3, SMTT(30) DEF ExitBegin, JoinBegin, DetachBegin, CancelBegin
  <1>4. CASE JoinSearch(t) \/ Join(t)
    BY <1>4, SMTT(30) DEF JoinSearch, Join
  <1>5. CASE CancelSearch(t) \/ CancelFlag(t) \/ Detach(t)
    BY <1>5, SMTT(30) DEF CancelSearch, CancelFlag, Detach
  <1>6. CASE Created(t)
    BY <1>6, SMTT(30) DEF Created
  <1>7. CASE WaitEnd(t)
    BY <1>7, SMTT(30) DEF WaitEnd
  <1>8. CASE Destroy(t)
    BY <1>8, SMTT(30) DEF Destroy
  <1>9. CASE Start(t) \/ JoinCount(t)
    BY <1>9, SMTT(30) DEF Start, JoinCount
  <1>10. CASE Exit(t)
    BY <1>10, SMTT(30) DEF Exit
  <1>11. CASE Create(t)
    BY <1>11, SMTT(30) DEF Create, PeersExist, Preparing
  <1>12. ASSUME NEW e \in Envs, SpreadTo(t, e) PROVE OwnLocks'
    BY <1>12, SMTT(30) DEF SpreadTo
  <1>13. ASSUME NEW e \in Envs, WaitVisit(t, e) PROVE OwnLocks'
    BY <1>13, SMTT(30) DEF WaitVisit
  <1>14. CASE t = Main /\ Embedder
    BY <1>14, SMTT(30) DEF Embedder, WaitForAll
  <1> HIDE DEF PthreadInv, ThreadInv, OwnLocks
  <1> QED
    BY Zenon, <1>1, <1>2, <1>3, <1>4, <1>5, <1>6, <1>7, <1>8, <1>9, <1>10, <1>11, <1>12, <1>13,
       <1>14 DEF PthreadMoves, ThreadStep, Joins

(* Nobody leaves the cluster with a stack. *)
LEMMA StacksMoves ==
    ASSUME PthreadInv, NEW t \in Envs, PthreadMoves(t),
           UNCHANGED <<pthreadVars, cluster_max_thread_num>>
    PROVE  StacksAreOwned'
  <1> USE ThreadManagerAssumption DEF PthreadInv, ThreadInv, ThreadTypeOK, At, Goto,
          cluster, locks, StacksAreOwned, Spawned, pthreadVars
  <1>1. CASE CreateFails(t) \/ Leave(t)
    BY <1>1, SMTT(30) DEF CreateFails, Leave
  <1>2. CASE TrapBegin(t) \/ TrapSearch(t) \/ SpreadBegin(t) \/ SpreadEnd(t)
    BY <1>2, SMTT(30) DEF TrapBegin, TrapSearch, SpreadBegin, SpreadEnd
  <1>3. CASE ExitBegin(t) \/ JoinBegin(t) \/ DetachBegin(t) \/ CancelBegin(t)
    BY <1>3, SMTT(30) DEF ExitBegin, JoinBegin, DetachBegin, CancelBegin
  <1>4. CASE JoinSearch(t) \/ Join(t)
    BY <1>4, SMTT(30) DEF JoinSearch, Join, MainIsAlone, Joining
  <1>5. CASE CancelSearch(t) \/ CancelFlag(t) \/ Detach(t)
    BY <1>5, SMTT(30) DEF CancelSearch, CancelFlag, Detach
  <1>6. CASE Created(t)
    BY <1>6, SMTT(30) DEF Created
  <1>7. CASE WaitEnd(t)
    BY <1>7, SMTT(30) DEF WaitEnd
  <1>8. CASE Destroy(t)
    BY <1>8, SMTT(30) DEF Destroy, MainIsAlone, MainPlaces, Spawned
  <1>9. CASE Start(t) \/ JoinCount(t)
    BY <1>9, SMTT(30) DEF Start, JoinCount
  <1>10. CASE Exit(t)
    BY <1>10, SMTT(30) DEF Exit
  <1>11. CASE Create(t)
    BY <1>11, SMTT(30) DEF Create, PeersExist, Preparing, Spawned
  <1>12. ASSUME NEW e \in Envs, SpreadTo(t, e) PROVE StacksAreOwned'
    BY <1>12, SMTT(30) DEF SpreadTo
  <1>13. ASSUME NEW e \in Envs, WaitVisit(t, e) PROVE StacksAreOwned'
    BY <1>13, SMTT(30) DEF WaitVisit
  <1>14. CASE t = Main /\ Embedder
    BY <1>14, SMTT(30) DEF Embedder, WaitForAll
  <1> HIDE DEF PthreadInv, ThreadInv, StacksAreOwned
  <1> QED
    BY Zenon, <1>1, <1>2, <1>3, <1>4, <1>5, <1>6, <1>7, <1>8, <1>9, <1>10, <1>11, <1>12, <1>13,
       <1>14 DEF PthreadMoves, ThreadStep, Joins

(* A join that is over, or finds nothing to wait for, is of a thread that has ended. *)
LEMMA JoinedMoves ==
    ASSUME PthreadInv, NEW t \in Envs, PthreadMoves(t),
           UNCHANGED <<pthreadVars, cluster_max_thread_num>>
    PROVE  JoinedHaveReturned'
  <1> USE ThreadManagerAssumption DEF PthreadInv, ThreadInv, ThreadTypeOK, At, Goto,
          cluster, locks, JoinedHaveReturned, PeersExist, Seeking, Joining, Spawned,
          pthreadVars
  <1>1. CASE CreateFails(t) \/ Leave(t)
    BY <1>1, SMTT(30) DEF CreateFails, Leave
  <1>2. CASE TrapBegin(t) \/ TrapSearch(t) \/ SpreadBegin(t) \/ SpreadEnd(t)
    BY <1>2, SMTT(30) DEF TrapBegin, TrapSearch, SpreadBegin, SpreadEnd
  <1>3. CASE ExitBegin(t) \/ JoinBegin(t) \/ DetachBegin(t) \/ CancelBegin(t)
    BY <1>3, SMTT(30) DEF ExitBegin, JoinBegin, DetachBegin, CancelBegin
  <1>4. CASE JoinSearch(t)
    BY <1>4, SMTT(30) DEF JoinSearch, ClaimsAreKept, ListIsExact, Quiet
  <1>5. CASE Join(t)
    BY <1>5, SMTT(30) DEF Join, NativesAgree
  <1>6. CASE CancelSearch(t) \/ CancelFlag(t) \/ Detach(t)
    BY <1>6, SMTT(30) DEF CancelSearch, CancelFlag, Detach
  <1>7. CASE Created(t)
    BY <1>7, SMTT(30) DEF Created
  <1>8. CASE WaitEnd(t)
    BY <1>8, SMTT(30) DEF WaitEnd
  <1>9. CASE Destroy(t)
    BY <1>9, SMTT(30) DEF Destroy
  <1>10. CASE Start(t) \/ JoinCount(t)
    BY <1>10, SMTT(30) DEF Start, JoinCount
  <1>11. CASE Exit(t)
    BY <1>11, SMTT(30) DEF Exit
  <1>12. CASE Create(t)
    BY <1>12, SMTT(30) DEF Create, Preparing
  <1>13. ASSUME NEW e \in Envs, SpreadTo(t, e) PROVE JoinedHaveReturned'
    BY <1>13, SMTT(30) DEF SpreadTo
  <1>14. ASSUME NEW e \in Envs, WaitVisit(t, e) PROVE JoinedHaveReturned'
    BY <1>14, SMTT(30) DEF WaitVisit
  <1>15. CASE t = Main /\ Embedder
    BY <1>15, SMTT(30) DEF Embedder, WaitForAll
  <1> HIDE DEF PthreadInv, ThreadInv, JoinedHaveReturned
  <1> QED
    BY Zenon, <1>1, <1>2, <1>3, <1>4, <1>5, <1>6, <1>7, <1>8, <1>9, <1>10, <1>11, <1>12, <1>13,
       <1>14, <1>15 DEF PthreadMoves, ThreadStep, Joins

(* A handle that the guest has is of a thread that has begun. *)
LEMMA KnownHaveBegun ==
    ASSUME PthreadInv, NEW t \in Envs, NEW e \in Known(t)
    PROVE  e \in Spawned /\ e # t /\ pc[e] \notin {"none", "new"}
  BY Zenon DEF Known, PthreadInv, NodesAreThere, Preparing, Spawned

(* What pthread_create does to the threads *)
Prepares(t, e) ==
    /\ pc[t] = "run" /\ pc[e] = "none" /\ e # t
    /\ status' = [status EXCEPT ![e] = "init"] /\ parent' = [parent EXCEPT ![e] = t]
    /\ pc' = [pc EXCEPT ![t] = "aux", ![e] = "new"]
    /\ peer' = [peer EXCEPT ![t] = e]
    /\ UNCHANGED <<cluster, locks, env, native, visit, back, goal, stacks, claimed>>

(* pthread_create finds an exec_env that is not main's. *)
LEMMA CreateEffect ==
    ASSUME ThreadInv, NEW t \in Envs, pthread_create(t)
    PROVE  \E e \in Spawned : Prepares(t, e)
  <1> DEFINE e == CHOOSE u \in Unused : TRUE
  <1>1. e \in Unused
    BY Zenon DEF pthread_create
  <1>2. e \in Spawned /\ pc[e] = "none" /\ pc[t] = "run" /\ e # t
    BY <1>1, SMTT(30) DEF pthread_create, MayCall, At, Unused, Spawned, SpawnedPlaces,
        ThreadInv, MainIsAlone
  <1> QED
    BY <1>2, Zenon DEF pthread_create, Prepares

(* What a thread does that asks for another: it goes where it joins,       *)
(* detaches or cancels it, or finds that its node is gone and goes on      *)
AsksFor(t, e) ==
    /\ pc[t] = "run" /\ e \notin claimed
    /\ \/ /\ pc' = [pc EXCEPT ![t] = "join"] /\ back' = [back EXCEPT ![t] = "joined"]
          /\ peer' = [peer EXCEPT ![t] = e]
          /\ t \in Joiners /\ claimed' = claimed \cup {e} /\ UNCHANGED status
       \/ /\ pc' = [pc EXCEPT ![t] = "joined"] /\ back' = [back EXCEPT ![t] = "joined"]
          /\ peer' = [peer EXCEPT ![t] = e]
          /\ status[e] = "exit" /\ claimed' = claimed \cup {e} /\ UNCHANGED status
       \/ /\ pc' = [pc EXCEPT ![t] = "detach"] /\ UNCHANGED back
          /\ peer' = [peer EXCEPT ![t] = e]
          /\ claimed' = claimed \cup {e} /\ UNCHANGED status
       \/ /\ pc' = [pc EXCEPT ![t] = "cancel"] /\ UNCHANGED <<back, claimed>>
          /\ peer' = [peer EXCEPT ![t] = e]
          /\ status' = [status EXCEPT ![e] = "cancelled"]
       \/ UNCHANGED <<pc, peer, back, status>> /\ claimed' = claimed \cup {e}
    /\ UNCHANGED <<cluster, locks, env, native, visit, goal, parent, stacks>>

(* Joining, detaching and cancelling are nothing else. *)
LEMMA AskEffect ==
    ASSUME NEW t \in Envs, NEW e \in Spawned, Asks(t, e)
    PROVE  e \in Known(t) /\ AsksFor(t, e)
  <1>1. CASE pthread_join(t, e)
    <2>1. CASE status[e] = "gone"
      BY Zenon, <1>1, <2>1 DEF pthread_join, AsksFor, MayCall, At
    <2>2. CASE status[e] = "exit"
      BY Zenon, <1>1, <2>2 DEF pthread_join, AsksFor, MayCall, At, Goto
    <2>3. CASE status[e] \notin {"gone", "exit"}
      BY Zenon, <1>1, <2>3 DEF pthread_join, AsksFor, MayCall, At, Goto
    <2> QED
      BY Zenon, <2>1, <2>2, <2>3
  <1>2. CASE pthread_detach(t, e)
    BY <1>2, SMTT(30) DEF pthread_detach, AsksFor, MayCall, At, Goto
  <1>3. CASE pthread_cancel(t, e)
    BY <1>3, SMTT(30) DEF pthread_cancel, AsksFor, MayCall, At, Goto
  <1> QED
    BY Zenon, <1>1, <1>2, <1>3 DEF Asks

(* What a thread does that gives up creating another *)
GivesUp(t) ==
    /\ peer[t] \in Spawned /\ pc[t] = "fail" /\ pc[peer[t]] = "new" /\ peer[t] # t
    /\ pc' = [pc EXCEPT ![t] = "run", ![peer[t]] = "none"]
    /\ peer' = [peer EXCEPT ![t] = NoOne]
    /\ status' = [status EXCEPT ![peer[t]] = "none"]
    /\ stacks' = stacks \ {peer[t]}
    /\ UNCHANGED <<cluster, locks, env, native, visit, back, goal, parent, claimed>>

(* The exec_env it gives up has not begun. *)
LEMMA GiveUpEffect ==
    ASSUME ThreadInv, NEW t \in Envs, pthread_create_fail(t)
    PROVE  GivesUp(t)
  BY Zenon DEF ThreadInv, pthread_create_fail, GivesUp, At, PeersExist, Preparing, Seeking

(* pthread_create prepares an exec_env nobody else has. *)
LEMMA PrepareInv ==
    ASSUME PthreadInv, NEW t \in Envs, pthread_create(t)
    PROVE  ThreadInv' /\ ClaimsAreKept' /\ NodesAreThere' /\ OwnLocks' /\ StacksAreOwned'
           /\ JoinedHaveReturned'
  <1>0. ThreadInv
    BY Zenon DEF PthreadInv
  <1>1. PICK e \in Spawned : Prepares(t, e)
    BY Zenon, <1>0, CreateEffect
  <1> USE ThreadManagerAssumption DEF PthreadInv, ThreadInv, ThreadTypeOK, cluster, locks, pthreadVars, Prepares
  <1>2. ThreadTypeOK'
    BY <1>1, SMTT(30) DEF ThreadTypeOK, Places, SpawnedPlaces, Preparing, Seeking,
        Joining, Spawned
  <1>3. LocksAreHeld'
    BY <1>1, SMTT(30) DEF LocksAreHeld, ListHolders, ClusterHolders
  <1>4. ListIsExact'
    BY <1>1, SMTT(30) DEF ListIsExact, Quiet
  <1>5. HandlesAreSet'
    BY <1>1, SMTT(30) DEF HandlesAreSet, Quiet
  <1>6. PeersExist'
    BY <1>1, SMTT(30) DEF PeersExist, Preparing, Seeking, Joining, Spawned
  <1>7. MainIsAlone'
    BY <1>1, SMTT(30) DEF MainIsAlone, SpawnedPlaces, MainPlaces, Joining, Spawned
  <1>8. NativesAgree'
    BY <1>1, SMTT(30) DEF NativesAgree, ListIsExact, Quiet
  <1>9. ClaimsAreKept'
    BY <1>1, SMTT(30) DEF ClaimsAreKept, Claims, Joining, Spawned
  <1>10. NodesAreThere'
    BY <1>1, SMTT(30) DEF NodesAreThere, PthreadPlaces, Returned, Quiet, MainPlaces,
        Preparing, Seeking, Joining, Spawned
  <1>11. OwnLocks'
    BY <1>1, SMTT(30) DEF OwnLocks
  <1>12. StacksAreOwned'
    BY <1>1, SMTT(30) DEF StacksAreOwned, Spawned
  <1>13. JoinedHaveReturned'
    BY <1>1, SMTT(30) DEF JoinedHaveReturned, At, PeersExist, Seeking, Spawned
  <1> HIDE DEF PthreadInv, ThreadTypeOK
  <1> QED
    BY Zenon, <1>2, <1>3, <1>4, <1>5, <1>6, <1>7, <1>8, <1>9, <1>10, <1>11, <1>12, <1>13

(* Giving it up leaves nothing behind. *)
LEMMA GiveUpInv ==
    ASSUME PthreadInv, NEW t \in Envs, pthread_create_fail(t)
    PROVE  ThreadInv' /\ ClaimsAreKept' /\ NodesAreThere' /\ OwnLocks' /\ StacksAreOwned'
           /\ JoinedHaveReturned'
  <1>0. ThreadInv
    BY Zenon DEF PthreadInv
  <1>1. GivesUp(t)
    BY Zenon, <1>0, GiveUpEffect
  <1> USE ThreadManagerAssumption DEF PthreadInv, ThreadInv, ThreadTypeOK, cluster, locks, pthreadVars, GivesUp
  <1>2. ThreadTypeOK'
    BY <1>1, SMTT(30) DEF ThreadTypeOK, Places, SpawnedPlaces, Preparing, Seeking,
        Joining, Spawned
  <1>3. LocksAreHeld'
    BY <1>1, SMTT(30) DEF LocksAreHeld, ListHolders, ClusterHolders
  <1>4. ListIsExact'
    BY <1>1, SMTT(30) DEF ListIsExact, Quiet
  <1>5. HandlesAreSet'
    BY <1>1, SMTT(30) DEF HandlesAreSet, Quiet
  <1>6. PeersExist'
    BY <1>1, SMTT(30) DEF PeersExist, Preparing, Seeking, Joining, Spawned
  <1>7. MainIsAlone'
    BY <1>1, SMTT(30) DEF MainIsAlone, SpawnedPlaces, MainPlaces, Joining, Spawned
  <1>8. NativesAgree'
    BY <1>1, SMTT(30) DEF NativesAgree, ListIsExact, Quiet
  <1>9. ClaimsAreKept'
    BY <1>1, SMTT(30) DEF ClaimsAreKept, Claims, Joining, Spawned
  <1>10. NodesAreThere'
    BY <1>1, SMTT(30) DEF NodesAreThere, PthreadPlaces, Returned, Quiet, MainPlaces,
        Preparing, Seeking, Joining, Spawned
  <1>11. OwnLocks'
    BY <1>1, SMTT(30) DEF OwnLocks
  <1>12. StacksAreOwned'
    BY <1>1, SMTT(30) DEF StacksAreOwned, Spawned
  <1>13. JoinedHaveReturned'
    BY <1>1, SMTT(30) DEF JoinedHaveReturned, At, PeersExist, Seeking, Spawned
  <1> HIDE DEF PthreadInv, ThreadTypeOK
  <1> QED
    BY Zenon, <1>2, <1>3, <1>4, <1>5, <1>6, <1>7, <1>8, <1>9, <1>10, <1>11, <1>12, <1>13

(* Only a thread that has begun is asked for, and it is claimed once. *)
LEMMA AskInv ==
    ASSUME PthreadInv, NEW t \in Envs, NEW e \in Spawned, Asks(t, e)
    PROVE  ThreadInv' /\ ClaimsAreKept' /\ NodesAreThere' /\ OwnLocks' /\ StacksAreOwned'
           /\ JoinedHaveReturned'
  <1>0. ThreadInv
    BY Zenon DEF PthreadInv
  <1>1. AsksFor(t, e) /\ e \in Spawned /\ e # t /\ pc[e] \notin {"none", "new"}
    BY Zenon, AskEffect, KnownHaveBegun
  <1> USE ThreadManagerAssumption DEF PthreadInv, ThreadInv, ThreadTypeOK, cluster, locks, pthreadVars, AsksFor
  <1>2. ThreadTypeOK'
    BY <1>1, SMTT(30) DEF ThreadTypeOK, Places, SpawnedPlaces, Preparing, Seeking,
        Joining, Spawned
  <1>3. LocksAreHeld'
    BY <1>1, SMTT(30) DEF LocksAreHeld, ListHolders, ClusterHolders
  <1>4. ListIsExact'
    BY <1>1, SMTT(30) DEF ListIsExact, Quiet
  <1>5. HandlesAreSet'
    BY <1>1, SMTT(30) DEF HandlesAreSet, Quiet
  <1>6. PeersExist'
    BY <1>1, SMTT(30) DEF PeersExist, Preparing, Seeking, Joining, Spawned
  <1>7. MainIsAlone'
    BY <1>1, SMTT(30) DEF MainIsAlone, SpawnedPlaces, MainPlaces, Joining, Spawned
  <1>8. NativesAgree'
    BY <1>1, SMTT(30) DEF NativesAgree, ListIsExact, Quiet
  <1>9. ClaimsAreKept'
    BY <1>1, SMTT(30) DEF ClaimsAreKept, Claims, Joining, Spawned
  <1>10. NodesAreThere'
    BY <1>1, SMTT(30) DEF NodesAreThere, PthreadPlaces, Returned, Quiet, MainPlaces,
        Preparing, Seeking, Joining, Spawned
  <1>11. OwnLocks'
    BY <1>1, SMTT(30) DEF OwnLocks
  <1>12. StacksAreOwned'
    BY <1>1, SMTT(30) DEF StacksAreOwned, Spawned
  <1>13. JoinedHaveReturned'
    BY <1>1, SMTT(30) DEF JoinedHaveReturned, At, PeersExist, Seeking, Spawned,
        NodesAreThere, Returned
  <1> HIDE DEF PthreadInv, ThreadTypeOK
  <1> QED
    BY Zenon, <1>2, <1>3, <1>4, <1>5, <1>6, <1>7, <1>8, <1>9, <1>10, <1>11, <1>12, <1>13

(* A thread holds its wait_lock around the creation, and no other mutex. *)
LEMMA CreatesInv ==
    ASSUME PthreadInv, NEW t \in Envs, Creates(t)
    PROVE  ThreadInv' /\ ClaimsAreKept' /\ NodesAreThere' /\ OwnLocks' /\ StacksAreOwned'
           /\ JoinedHaveReturned'
  <1>0. ThreadInv
    BY Zenon DEF PthreadInv
  <1>1. /\ \/ pc[t] = "aux" /\ (pc' = [pc EXCEPT ![t] = "own_lock"] \/ pc' = [pc EXCEPT ![t] = "fail"])
              /\ UNCHANGED <<peer, wait_lock>> /\ stacks' \subseteq stacks \cup {peer[t]}
           \/ pc[t] = "own_lock" /\ pc' = [pc EXCEPT ![t] = "create"]
              /\ UNCHANGED <<peer, stacks>> /\ wait_lock' = [wait_lock EXCEPT ![t] = t]
           \/ pc[t] = "create_done" /\ pc' = [pc EXCEPT ![t] = "await"]
              /\ UNCHANGED <<peer, stacks>> /\ wait_lock' = [wait_lock EXCEPT ![t] = NoOne]
           \/ pc[t] = "create_failed" /\ pc' = [pc EXCEPT ![t] = "fail"]
              /\ UNCHANGED <<peer, stacks>> /\ wait_lock' = [wait_lock EXCEPT ![t] = NoOne]
           \/ pc[t] = "await" /\ pc' = [pc EXCEPT ![t] = "run"]
              /\ peer' = [peer EXCEPT ![t] = NoOne] /\ UNCHANGED <<wait_lock, stacks>>
        /\ UNCHANGED <<cluster, list_lock, cluster_lock, env, native, visit, back, goal, status, parent, claimed>>
    BY Zenon DEF Creates, AllocateAuxStack, LockSelf, UnlockSelf, CreateReturns, At, Goto, locks,
       pthreadVars
  <1> USE ThreadManagerAssumption DEF PthreadInv, ThreadInv, ThreadTypeOK, cluster, locks, pthreadVars
  <1>2. ThreadTypeOK'
    BY <1>1, SMTT(30) DEF ThreadTypeOK, Places, SpawnedPlaces, Preparing, Seeking,
        Joining, Spawned
  <1>3. LocksAreHeld'
    BY <1>1, SMTT(30) DEF LocksAreHeld, ListHolders, ClusterHolders
  <1>4. ListIsExact'
    BY <1>1, SMTT(30) DEF ListIsExact, Quiet
  <1>5. HandlesAreSet'
    BY <1>1, SMTT(30) DEF HandlesAreSet, Quiet
  <1>6. PeersExist'
    BY <1>1, SMTT(30) DEF PeersExist, Preparing, Seeking, Joining, Spawned
  <1>7. MainIsAlone'
    BY <1>1, SMTT(30) DEF MainIsAlone, SpawnedPlaces, MainPlaces, Joining, Spawned
  <1>8. NativesAgree'
    BY <1>1, SMTT(30) DEF NativesAgree, ListIsExact, Quiet
  <1>9. ClaimsAreKept'
    BY <1>1, SMTT(30) DEF ClaimsAreKept, Claims, Joining, Spawned
  <1>10. NodesAreThere'
    BY <1>1, SMTT(30) DEF NodesAreThere, PthreadPlaces, Returned, Quiet, MainPlaces,
        Preparing, Seeking, Joining, Spawned
  <1>11. OwnLocks'
    BY <1>1, SMTT(30) DEF OwnLocks
  <1>12. StacksAreOwned'
    BY <1>1, SMTT(30) DEF StacksAreOwned, Spawned, PeersExist, Preparing
  <1>13. JoinedHaveReturned'
    BY <1>1, SMTT(30) DEF JoinedHaveReturned, At, PeersExist, Seeking, Spawned
  <1> HIDE DEF PthreadInv, ThreadTypeOK
  <1> QED
    BY Zenon, <1>2, <1>3, <1>4, <1>5, <1>6, <1>7, <1>8, <1>9, <1>10, <1>11, <1>12, <1>13

(* A thread has left its guest when its node gets the result. *)
LEMMA ProceedsInv ==
    ASSUME PthreadInv, NEW t \in Envs, Proceeds(t)
    PROVE  ThreadInv' /\ ClaimsAreKept' /\ NodesAreThere' /\ OwnLocks' /\ StacksAreOwned'
           /\ JoinedHaveReturned'
  <1>0. ThreadInv
    BY Zenon DEF PthreadInv
  <1>1. /\ \/ /\ pc[t] = "routine" /\ UNCHANGED <<peer, stacks>>
              /\ \/ pc' = [pc EXCEPT ![t] = "run"] /\ status' = [status EXCEPT ![t] = "running"]
                 \/ pc' = [pc EXCEPT ![t] = "free_aux"] /\ status' = [status EXCEPT ![t] = "gone"]
           \/ /\ pc[t] = "return" /\ UNCHANGED <<peer, stacks, status>>
              /\ pc' = [pc EXCEPT ![t] = "keep"] \/ pc' = [pc EXCEPT ![t] = "delete"]
           \/ /\ pc[t] \in {"keep", "delete"} /\ pc' = [pc EXCEPT ![t] = "free_aux"]
              /\ \/ status' = [status EXCEPT ![t] = "exit"]
                 \/ status' = [status EXCEPT ![t] = "gone"]
              /\ UNCHANGED <<peer, stacks>>
           \/ pc[t] = "free_aux" /\ pc' = [pc EXCEPT ![t] = "exit"]
              /\ stacks' = stacks \ {t} /\ UNCHANGED <<peer, status>>
           \/ pc[t] = "joined" /\ pc' = [pc EXCEPT ![t] = "run"]
              /\ peer' = [peer EXCEPT ![t] = NoOne] /\ UNCHANGED <<stacks, status>>
        /\ UNCHANGED <<cluster, locks, env, native, visit, back, goal, parent, claimed>>
    BY Zenon
       DEF Proceeds, pthread_start_routine, ReadJoinable, EndNode, FreeAuxStack, JoinReturns, At, Goto, pthreadVars
  <1> USE ThreadManagerAssumption DEF PthreadInv, ThreadInv, ThreadTypeOK, cluster, locks, pthreadVars
  <1>2. ThreadTypeOK'
    BY <1>1, SMTT(30) DEF ThreadTypeOK, Places, SpawnedPlaces, Preparing, Seeking,
        Joining, Spawned
  <1>3. LocksAreHeld'
    BY <1>1, SMTT(30) DEF LocksAreHeld, ListHolders, ClusterHolders
  <1>4. ListIsExact'
    BY <1>1, SMTT(30) DEF ListIsExact, Quiet
  <1>5. HandlesAreSet'
    BY <1>1, SMTT(30) DEF HandlesAreSet, Quiet
  <1>6. PeersExist'
    BY <1>1, SMTT(30) DEF PeersExist, Preparing, Seeking, Joining, Spawned
  <1>7. MainIsAlone'
    BY <1>1, SMTT(30) DEF MainIsAlone, SpawnedPlaces, MainPlaces, Joining, Spawned
  <1>8. NativesAgree'
    BY <1>1, SMTT(30) DEF NativesAgree, ListIsExact, Quiet
  <1>9. ClaimsAreKept'
    BY <1>1, SMTT(30) DEF ClaimsAreKept, Claims, Joining, Spawned
  <1>10. NodesAreThere'
    BY <1>1, SMTT(30) DEF NodesAreThere, PthreadPlaces, Returned, Quiet, MainPlaces,
        Preparing, Seeking, Joining, Spawned
  <1>11. OwnLocks'
    BY <1>1, SMTT(30) DEF OwnLocks
  <1>12. StacksAreOwned'
    BY <1>1, SMTT(30) DEF StacksAreOwned, Spawned
  <1>13. JoinedHaveReturned'
    BY <1>1, SMTT(30) DEF JoinedHaveReturned, At, PeersExist, Seeking, Spawned
  <1> HIDE DEF PthreadInv, ThreadTypeOK
  <1> QED
    BY Zenon, <1>2, <1>3, <1>4, <1>5, <1>6, <1>7, <1>8, <1>9, <1>10, <1>11, <1>12, <1>13

(* A step that changes nothing preserves the invariant. *)
LEMMA PthreadStutter == PthreadInv /\ UNCHANGED <<vars, pthreadVars>> => PthreadInv'
  <1> SUFFICES ASSUME PthreadInv, UNCHANGED <<vars, pthreadVars>> PROVE PthreadInv'
    OBVIOUS
  <1>1. ThreadInv'
    BY ZenonT(30), ThreadStutter DEF PthreadInv
  <1> USE DEF vars, cluster, locks, local, pthreadVars, PthreadInv
  <1>2. ClaimsAreKept' /\ NodesAreThere'
    BY ZenonT(30) DEF ClaimsAreKept, Claims, NodesAreThere
  <1>3. OwnLocks' /\ StacksAreOwned'
    BY Zenon DEF OwnLocks, StacksAreOwned
  <1>4. StacksAreCounted' /\ JoinedHaveReturned'
    BY Zenon DEF StacksAreCounted, JoinedHaveReturned, At
  <1> QED
    BY Zenon, <1>1, <1>2, <1>3, <1>4

(* What a thread does in the library *)
PthreadOwn(t) == \/ pthread_create(t) \/ pthread_create_fail(t) \/ Creates(t) \/ Proceeds(t)
                 \/ \E e \in Spawned : Asks(t, e)

(* Every step of a guest with pthreads preserves the invariant, if it      *)
(* counts the segments of the stack.                                       *)
LEMMA PthreadStepInv == PthreadInv /\ StacksAreCounted' /\ PthreadNext => PthreadInv'
  <1> SUFFICES ASSUME PthreadInv, StacksAreCounted', PthreadNext PROVE PthreadInv'
    OBVIOUS
  <1>1. ASSUME NEW t \in Envs, PthreadMoves(t), UNCHANGED <<pthreadVars, cluster_max_thread_num>>
        PROVE  PthreadInv'
    <2>1. ThreadInv /\ \A u \in Envs : pc[u] # "spreading"
      BY DEF PthreadInv, NodesAreThere, PthreadPlaces, Quiet, MainPlaces, Preparing, Seeking,
         Joining
    <2>2. ThreadInv'
      BY Zenon, <1>1, <2>1, ThreadStepInv DEF PthreadMoves, Moves
    <2> QED
      BY Zenon, <1>1, <2>2, NodesMoves, ClaimsMoves, OwnLocksMoves, StacksMoves, JoinedMoves
         DEF PthreadInv
  <1>2. ASSUME NEW t \in Envs, PthreadOwn(t) PROVE PthreadInv'
    BY Zenon, <1>2, PrepareInv, GiveUpInv, CreatesInv, ProceedsInv, AskInv
       DEF PthreadInv, PthreadOwn
  <1>3. ASSUME UNCHANGED <<vars, pthreadVars>> PROVE PthreadInv'
    BY Zenon, <1>3, PthreadStutter
  <1> QED
    BY Zenon, <1>1, <1>2, <1>3, ThreadManagerAssumption
       DEF PthreadNext, PthreadGoes, PthreadGuest, PthreadMoves, PthreadOwn, Creates, Proceeds, Asks

(* The library's own steps take no part in a join, but for those of main   *)
(* when it alone joins.                                                    *)
LEMMA PthreadJoins ==
    ASSUME Joiners \subseteq {Main}, PthreadInv, JoinsAreCounted, NEW t \in Envs, PthreadOwn(t)
    PROVE  JoinsAreCounted'
  <1>0. ThreadInv
    BY Zenon DEF PthreadInv
  <1>1. CASE pthread_create(t)
    <2>1. PICK e \in Spawned : Prepares(t, e)
      BY ZenonT(30), <1>0, <1>1, CreateEffect
    <2> QED
      BY <2>1, <1>0, ThreadManagerAssumption
         DEF Prepares, ThreadInv, ThreadTypeOK, JoinsAreCounted, Joining, Spawned, cluster
  <1>2. CASE pthread_create_fail(t)
    <2>1. GivesUp(t)
      BY ZenonT(30), <1>0, <1>2, GiveUpEffect
    <2> QED
      BY <2>1, <1>0, ThreadManagerAssumption
         DEF GivesUp, ThreadInv, ThreadTypeOK, JoinsAreCounted, Joining, Spawned, cluster
  <1>3. ASSUME NEW e \in Spawned, Asks(t, e) PROVE JoinsAreCounted'
    <2>1. AsksFor(t, e)
      BY Zenon, <1>0, <1>3, AskEffect
    <2> QED
      BY <2>1, <1>0, ThreadManagerAssumption
         DEF AsksFor, ThreadInv, ThreadTypeOK, JoinsAreCounted, Joining, Spawned, cluster
  <1>4. CASE Creates(t) \/ Proceeds(t)
    <2>1. /\ pc[t] \notin Joining
          /\ \E there \in {"own_lock", "fail", "create", "await", "run", "free_aux", "keep", "delete", "exit"} :
                pc' = [pc EXCEPT ![t] = there]
          /\ peer' = [peer EXCEPT ![t] = NoOne] \/ UNCHANGED peer
          /\ UNCHANGED <<exec_env_list, env, native>>
      <3> USE <1>0 DEF ThreadInv, ThreadTypeOK, Joining, At, Goto, cluster
      <3>1. CASE Creates(t)
        BY Zenon, <3>1 DEF Creates, AllocateAuxStack, LockSelf, UnlockSelf, CreateReturns
      <3>2. CASE pthread_start_routine(t) \/ ReadJoinable(t)
        BY <3>2, Zenon DEF pthread_start_routine, ReadJoinable
      <3>3. CASE EndNode(t) \/ FreeAuxStack(t) \/ JoinReturns(t)
        BY Zenon, <3>3 DEF EndNode, FreeAuxStack, JoinReturns
      <3> QED
        BY Zenon, <1>4, <3>1, <3>2, <3>3 DEF Proceeds
    <2> QED
      BY <1>0, <2>1, ThreadManagerAssumption, SMTT(30)
         DEF ThreadInv, ThreadTypeOK, JoinsAreCounted, Joining, Spawned
  <1> QED
    BY Zenon, <1>1, <1>2, <1>3, <1>4 DEF PthreadOwn

=============================================================================
