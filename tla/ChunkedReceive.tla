--------------------------- MODULE ChunkedReceive ---------------------------
(***************************************************************************)
(* receive_socket_per_chunk (watz/ta/remote_attestation.c), through which  *)
(* the attester reads msg1 and msg3, against a peer that sends its bytes   *)
(* in pieces and may close the connection at any time.                     *)
(*                                                                         *)
(* recv takes the number of bytes wanted and overwrites it with the number *)
(* received, and the loop uses that same variable for its next request:    *)
(* after a short recv the following requests are as short.                 *)
(***************************************************************************)
EXTENDS Integers

CONSTANTS
    DataSize,     \* data_size, the size of the receiving buffer
    ChunkSize     \* the chunk_size argument

ASSUME ReceiveAssumption ==
    /\ DataSize \in Nat \ {0}
    /\ ChunkSize \in Nat \ {0}

VARIABLES
    recv_pc,           \* "loop", "done" (TEE_SUCCESS) or "error"
    chunk_size,
    transfered_data,
    peer_size,         \* what the peer means to send
    sent,              \* what it has sent
    peer               \* "open", or "closed" when it closed the connection

receiveVars == <<recv_pc, chunk_size, transfered_data, peer_size, sent, peer>>
peerVars == <<peer_size, sent, peer>>

(* The peer's message fits the buffer: msg1 has the size of the buffer,    *)
(* and the guest's buffer is at least as large as the secret.              *)
ReceiveInit ==
    /\ recv_pc = "loop" /\ chunk_size = ChunkSize /\ transfered_data = 0
    /\ peer_size \in 0..DataSize /\ sent = 0 /\ peer = "open"

PeerSends ==
    /\ peer = "open"
    /\ \E n \in 1..(peer_size - sent) : sent' = sent + n
    /\ UNCHANGED <<recv_pc, chunk_size, transfered_data, peer_size, peer>>

PeerCloses ==
    /\ peer = "open" /\ peer' = "closed"
    /\ UNCHANGED <<recv_pc, chunk_size, transfered_data, peer_size, sent>>

(* Mutants of the condition of the loop: it does not stop at the end of    *)
(* the stream, it stops at the first short recv.                           *)
LoopGuard_ignores_end == transfered_data < DataSize
LoopGuard_whole_chunks == chunk_size >= ChunkSize /\ transfered_data < DataSize
LoopGuard == chunk_size > 0 /\ transfered_data < DataSize

(* TEE_iSocket.recv: some of the bytes in flight, at most as many as asked *)
(* for; 0 at the end of the stream; it waits when there is neither.        *)
RecvGives(n) ==
    \/ n \in 1..(sent - transfered_data) /\ n <= chunk_size
    \/ n = 0 /\ peer = "closed" /\ sent = transfered_data

recv ==
    /\ recv_pc = "loop" /\ LoopGuard
    /\ \E n \in 0..(sent - transfered_data) :
          /\ RecvGives(n)
          /\ chunk_size' = n
          /\ transfered_data' = transfered_data + n
    /\ UNCHANGED <<recv_pc, peerVars>>

(* An error of recv, which may come at any time, is returned; the output   *)
(* parameter is not written.                                               *)
recvError ==
    /\ recv_pc = "loop" /\ LoopGuard
    /\ recv_pc' = "error"
    /\ UNCHANGED <<chunk_size, transfered_data, peerVars>>

loopEnd ==
    /\ recv_pc = "loop" /\ ~LoopGuard
    /\ recv_pc' = "done"
    /\ UNCHANGED <<chunk_size, transfered_data, peerVars>>

ReceiveFinished == recv_pc # "loop" /\ UNCHANGED receiveVars

receive_socket_per_chunk == recv \/ recvError \/ loopEnd

ReceiveNext == receive_socket_per_chunk \/ PeerSends \/ PeerCloses \/ ReceiveFinished

ReceiveSpec == ReceiveInit /\ [][ReceiveNext]_receiveVars

(* The counters keep to their types.                                       *)
ReceiveTypeOK ==
    /\ recv_pc \in {"loop", "done", "error"} /\ chunk_size \in Nat
    /\ transfered_data \in Nat /\ sent \in Nat
    /\ peer_size \in 0..DataSize /\ peer \in {"open", "closed"}

(* The bytes received never pass the end of the buffer, although a request *)
(* may be for more than the room that is left: the loop relies on a peer   *)
(* that sends no more than the buffer holds.                               *)
StaysInBuffer == transfered_data <= sent /\ sent <= peer_size /\ transfered_data <= DataSize

(* The loop ends with success only when the buffer is full, or when the    *)
(* peer closed and every byte it had sent has been received: a recv that   *)
(* returns less than was asked for never ends it.                          *)
NothingLost ==
    recv_pc = "done" => \/ transfered_data = DataSize
                        \/ peer = "closed" /\ transfered_data = sent

(* The loop never asks recv for 0 bytes, which would read as the end of    *)
(* the stream: chunk_size is 0 only once the peer has closed.              *)
ZeroOnlyAtEnd == chunk_size = 0 => peer = "closed" /\ transfered_data = sent
=============================================================================
