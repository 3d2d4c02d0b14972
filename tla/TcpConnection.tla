--------------------------- MODULE TcpConnection ----------------------------
(***************************************************************************)
(* The TCP connection between the attester and the verifier: the TEE       *)
(* socket API under the attester, the kernel's sockets under the verifier  *)
(* host.  Neither is part of the repository; this is the behaviour the     *)
(* code in it relies on and has to survive: bytes arrive in order, a read  *)
(* may return less than a message, a peer may vanish with data in flight,  *)
(* a connection made while the server is busy waits in the backlog of a    *)
(* server that accepts only once.                                          *)
(***************************************************************************)
EXTENDS RaMessages

CONSTANT Window     \* messages in flight before a send waits

ASSUME WindowAssumption == Window \in Nat \ {0}

VARIABLES
    conn,    \* the attester's socket: "none", "live", "backlog"
    srv,     \* the verifier's listening socket: "none", "listening", "busy"
    up,      \* bytes sent by the attester that the verifier has not read
    down     \* bytes sent by the verifier that the attester has not read

tcpVars == <<conn, srv, up, down>>

TcpInit == conn = "none" /\ srv = "none" /\ up = <<>> /\ down = <<>>

(* The kernel completes a connection for a listening server; while the     *)
(* server is serving, the connection stays in its backlog.                 *)
Connect ==
    \/ /\ srv = "listening"
       /\ conn' = "live" /\ srv' = "busy" /\ up' = <<>> /\ down' = <<>>
    \/ /\ srv = "busy"
       /\ conn' = "backlog"
       /\ UNCHANGED <<srv, up, down>>

HasData == conn = "live" /\ down # <<>>
PeerGone == srv # "busy"

(* What an attester in the backlog sends is never read, nor is what it     *)
(* sends to a verifier that is gone.  A send waits when the peer has       *)
(* Window messages to read.                                                *)
SendUp(m) ==
    /\ IF conn = "live" /\ ~PeerGone
       THEN Len(up) < Window /\ up' = Append(up, m)
       ELSE up' = up
    /\ UNCHANGED <<conn, srv, down>>

(* What is written to a connection the attester has closed is lost.        *)
SendDown(m) ==
    /\ down' = IF conn = "live" THEN Append(down, m) ELSE down
    /\ UNCHANGED <<conn, srv, up>>

(* The server reads: a whole message, a part of one (the rest stays in the *)
(* stream), or nothing once the attester's end is closed.                  *)
ReadUp(buffer, got) ==
    /\ \/ up # <<>> /\ got = Head(up) /\ up' = Tail(up)
       \/ up # <<>> /\ got = Fragment /\ up' = <<Fragment>> \o Tail(up)
       \/ conn # "live" /\ got = buffer /\ up' = up
    /\ UNCHANGED <<conn, srv, down>>

(* A message is damaged on the way.                                        *)
DamageUp ==
    /\ up # <<>>
    /\ \E m \in Damaged(Head(up)) : up' = <<m>> \o Tail(up) /\ m # Head(up)
    /\ UNCHANGED <<conn, srv, down>>

DamageDown ==
    /\ down # <<>>
    /\ \E m \in Damaged(Head(down)) : down' = <<m>> \o Tail(down) /\ m # Head(down)
    /\ UNCHANGED <<conn, srv, up>>
=============================================================================
