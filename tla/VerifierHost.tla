---------------------------- MODULE VerifierHost ----------------------------
(***************************************************************************)
(* The verifier's normal-world process (vedliot_verifier/host/main.c): it  *)
(* opens a session with the trusted application, gives it the secret,      *)
(* accepts one connection, relays the four messages and ends.  Any command *)
(* that fails ends the process (errx), which closes the connection and the *)
(* session.                                                                *)
(***************************************************************************)
EXTENDS TcpConnection, VerifierTa

CONSTANT SecretSizes    \* sizes of secret the process can be started with

ASSUME SizesAssumption == SecretSizes \subseteq Nat

VARIABLES
    h_pc,     \* the next step of handle_connection; "exited", "listening"
    h_buf,    \* what buff holds
    h_size    \* buff_size

hostVars == <<h_pc, h_buf, h_size>>

HostInit == h_pc = "exited" /\ h_buf = Fragment /\ h_size = 0

(* A step of the process: on to the next one, or to its end.               *)
Goes(from, ok, to) == h_pc = from /\ h_pc' = IF ok THEN to ELSE "terminate"

(* The process is launched, for the first time or again, with a secret of  *)
(* some size, which fixes the size of buff.  A session that cannot be      *)
(* opened ends it at once, as if it had not been launched.                 *)
prepare_tee_session ==
    /\ h_pc = "exited" /\ h_pc' = "bootstrap"
    /\ VerifierKeys \ v_used # {}
    /\ \E k \in ServiceKeys \ s_used, n \in SecretSizes :
          /\ h_size' = n + SizeofMsg3 + CiphertextOverhead
          /\ s_used' = s_used \cup {k}
          /\ vctx' = TA_OpenSession(k)
    /\ h_buf' = Fragment
    /\ UNCHANGED <<v_used, offered, accepted, released, tcpVars>>

bootstrap_secret ==
    \E ok \in BOOLEAN, secret \in Secrets :
        /\ Goes("bootstrap", ok, "listen")
        /\ vctx' = IF ok THEN TA_ConfigureCustomSecret(vctx, secret) ELSE vctx
        /\ UNCHANGED <<v_used, s_used, offered, accepted, released, h_buf, h_size, tcpVars>>

(* socket, bind and listen, any of which may fail; then one accept.        *)
start_verifier_server ==
    /\ \/ \E ok \in BOOLEAN :
             /\ Goes("listen", ok, "listening")
             /\ srv' = IF ok THEN "listening" ELSE srv
       \/ srv = "busy" /\ Goes("listening", TRUE, "read_msg0") /\ UNCHANGED srv
    /\ UNCHANGED <<h_buf, h_size, taVars, conn, up, down>>

(* One read(), whose result is ignored: what it did not overwrite is still *)
(* in the buffer.                                                          *)
read_msg(from, to) ==
    /\ Goes(from, TRUE, to)
    /\ ReadUp(h_buf, h_buf')
    /\ UNCHANGED <<h_size, taVars>>

receive_msg0 ==
    \E ok \in BOOLEAN :
        /\ Goes("msg0", ok, "prepare_msg1")
        /\ handle_msg0(h_buf, h_size, ok)
        /\ UNCHANGED <<h_buf, h_size, tcpVars>>

(* The message is prepared in the buffer and written.  Writing to a        *)
(* connection the attester has closed may kill the process (SIGPIPE).      *)
host_prepare_msg1 ==
    \E ok \in BOOLEAN, killed \in IF conn = "live" THEN {FALSE} ELSE BOOLEAN :
        /\ Goes("prepare_msg1", ok /\ ~killed, "read_msg2")
        /\ prepare_msg1(h_size, ok, h_buf')
        /\ IF ok THEN SendDown(h_buf') ELSE UNCHANGED tcpVars
        /\ UNCHANGED h_size

(* Mutant: the host goes on when the command failed.                       *)
receive_msg2_goes_on ==
    \E ok \in BOOLEAN :
        /\ Goes("msg2", TRUE, "prepare_msg3")
        /\ handle_msg2(h_buf, h_size, ok)
        /\ UNCHANGED <<h_buf, h_size, tcpVars>>

receive_msg2 ==
    \E ok \in BOOLEAN :
        /\ Goes("msg2", ok, "prepare_msg3")
        /\ handle_msg2(h_buf, h_size, ok)
        /\ UNCHANGED <<h_buf, h_size, tcpVars>>

host_prepare_msg3 ==
    \E ok \in BOOLEAN :
        /\ Goes("prepare_msg3", ok, "terminate")
        /\ prepare_msg3(h_size, ok, h_buf')
        /\ IF ok THEN SendDown(h_buf') ELSE UNCHANGED tcpVars
        /\ UNCHANGED h_size

(* Mutant: the connection stays open.                                      *)
terminate_tee_session_alone ==
    /\ h_pc = "terminate" /\ h_pc' = "exited"
    /\ TA_CloseSession
    /\ h_buf' = Fragment /\ h_size' = 0
    /\ UNCHANGED tcpVars

(* The end of the process, after msg3 (terminate_tee_session) or because a *)
(* command failed (errx): the session and the sockets are closed.          *)
terminate_tee_session ==
    /\ h_pc = "terminate" /\ h_pc' = "exited"
    /\ TA_CloseSession
    /\ srv' = "none" /\ up' = <<>> /\ h_buf' = Fragment /\ h_size' = 0
    /\ UNCHANGED <<conn, down>>

handle_connection ==
    \/ read_msg("read_msg0", "msg0")
    \/ receive_msg0
    \/ host_prepare_msg1
    \/ read_msg("read_msg2", "msg2")
    \/ receive_msg2
    \/ host_prepare_msg3
    \/ terminate_tee_session

HostNext ==
    \/ prepare_tee_session
    \/ bootstrap_secret
    \/ start_verifier_server
    \/ handle_connection
=============================================================================
