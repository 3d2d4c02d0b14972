------------------------------ MODULE WatzHost ------------------------------
(***************************************************************************)
(* The normal-world program of WaTZ (watz/host/main.c): one session, the   *)
(* settings, one run of a guest, and the print of what it captured.  The   *)
(* process is blocked while a command runs.  When it leaves early, through *)
(* errx, the kernel closes its session.  The shared buffers it prints are  *)
(* left out.  Beside it, any other client of the trusted application.      *)
(***************************************************************************)
EXTENDS WatzTa

CONSTANT ClientBuilds   \* builds to check with a client other than the host program

ASSUME ClientAssumption == ClientBuilds \subseteq Builds

VARIABLES
    h_pc,         \* place in main, "other" when another client has the session
    status        \* exit status of the process, or "running"

hostVars == <<h_pc, status>>
vars == <<taVars, hostVars>>

Init ==
    /\ TaInit
    /\ h_pc \in {"prepare", "other"} /\ status = "running"
    /\ h_pc = "other" => build \in ClientBuilds

(* allocate_buffers, which does not fill them, and prepare_tee_session.    *)
prepare_tee_session ==
    /\ h_pc = "prepare"
    /\ \/ TA_OpenSessionEntryPoint /\ h_pc' = "heap" /\ UNCHANGED status
       \/ h_pc' = "exited" /\ status' = 1 /\ UNCHANGED taVars

(* A failure of a setting is printed and otherwise ignored.                *)
configure_heap_size ==
    /\ h_pc = "heap"
    /\ h_pc' = IF Tree(build) = "2.4.1" THEN "linear" ELSE "start"
    /\ \/ \E size \in HeapSizes : TA_SetHeapSize(size)
       \/ UNCHANGED taVars
    /\ UNCHANGED status

configure_linear_memory ==
    /\ h_pc = "linear" /\ h_pc' = "start"
    /\ \/ \E size \in LinearMemories : TA_SetLinearMemory(size)
       \/ UNCHANGED taVars
    /\ UNCHANGED status

(* start_wasm up to the invocation: the file cannot be opened, or the      *)
(* command is invoked.                                                     *)
start_wasm ==
    /\ h_pc = "start"
    /\ \/ h_pc' = "invoked" /\ TA_RunWasm /\ UNCHANGED status
       \/ h_pc' = "terminate" /\ status' = 1 /\ UNCHANGED taVars

(* Mutant: the result of the command is not checked.                       *)
invocationReturns_unchecked ==
    /\ h_pc = "invoked" /\ pc = "idle"
    /\ h_pc' = "terminate" /\ status' = 0
    /\ UNCHANGED taVars

(* start_wasm after the invocation: a failure ends the process.            *)
invocationReturns ==
    /\ h_pc = "invoked" /\ pc = "idle"
    /\ IF result = "success" THEN h_pc' = "terminate" /\ status' = 0
                             ELSE h_pc' = "exited" /\ status' = 1
    /\ UNCHANGED taVars

terminate_tee_session ==
    /\ h_pc = "terminate" /\ h_pc' = "print"
    /\ TA_CloseSessionEntryPoint
    /\ UNCHANGED status

(* print_buffers, free_buffers and the end of main.                        *)
print_buffers ==
    /\ h_pc = "print" /\ h_pc' = "exited"
    /\ UNCHANGED <<taVars, status>>

(* Mutant: the kernel leaves the session of a dead process open.           *)
KernelCloses_never == h_pc = "exited" /\ ta # "none" /\ UNCHANGED vars

(* The kernel closes the session of a process that has ended.              *)
KernelCloses ==
    /\ h_pc = "exited" /\ TA_CloseSessionEntryPoint
    /\ UNCHANGED hostVars

Finished == h_pc = "exited" /\ ta = "none" /\ UNCHANGED vars

main == \/ prepare_tee_session \/ configure_heap_size \/ configure_linear_memory
        \/ start_wasm \/ invocationReturns \/ terminate_tee_session \/ print_buffers

Step == main \/ (TaStep /\ UNCHANGED hostVars) \/ KernelCloses

(* Another client makes the calls in any order.                            *)
OtherClient == h_pc = "other" /\ Client /\ UNCHANGED hostVars

Next == Step \/ OtherClient \/ Finished

(* The process and the trusted application run whenever they can, the      *)
(* guest's main ends, and the kernel cleans up.                            *)
Spec == Init /\ [][Next]_vars /\ WF_vars(Step)

(* An exit status of 0 means that the guest was loaded, ran, and returned  *)
(* from its main without a trap, and that everything it used was released. *)
StatusIsTheGuests ==
    h_pc = "exited" /\ status = 0 => result = "success" /\ run = 1 /\ reported /\ live = {}

(* Whatever fails, the process ends and no session stays behind.           *)
HostFinishes == h_pc # "other" => <>[](h_pc = "exited" /\ ta = "none")
=============================================================================
