------------------------------ MODULE GuestIo ------------------------------
(***************************************************************************)
(* The services of the platform that a guest uses: receiving in chunks,    *)
(* its output, and the clock.  They share no variable, so that their steps *)
(* commute and a behaviour that uses one of them shows all it can do.      *)
(***************************************************************************)
EXTENDS ChunkedReceive, OutputBuffer, TzTime

VARIABLE service   \* the one used: "receive", "output" or "clock"

vars == <<service, receiveVars, outputVars, timeVars>>

Init == /\ service \in {"receive", "output", "clock"}
        /\ ReceiveInit /\ OutputInit /\ TimeInit
        /\ service # "receive" => peer_size = 0
        /\ service # "clock" => now = 0

Receives(A) == service = "receive" /\ A /\ UNCHANGED <<service, outputVars, timeVars>>

Next ==
    \/ Receives(ReceiveNext)
    \/ service = "output" /\ OutputNext /\ UNCHANGED <<service, receiveVars, timeVars>>
    \/ service = "clock" /\ TimeNext /\ UNCHANGED <<service, receiveVars, outputVars>>

(* The attester's thread runs and recv returns when it can, and the peer   *)
(* ends: the verifier's process closes its connection after msg3 or at its *)
(* first failure.  No error is owed.                                       *)
Spec == /\ Init /\ [][Next]_vars
        /\ WF_vars(Receives(recv \/ loopEnd)) /\ WF_vars(Receives(PeerCloses))

(* The loop of receive_socket_per_chunk ends, however the peer's bytes     *)
(* come and whenever it closes the connection.                             *)
Terminates == service = "receive" => <>(recv_pc # "loop")
=============================================================================
