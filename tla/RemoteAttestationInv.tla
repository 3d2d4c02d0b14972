------------------------ MODULE RemoteAttestationInv ------------------------
(***************************************************************************)
(* The inductive invariant of the remote attestation.                      *)
(***************************************************************************)
EXTENDS RemoteAttestation

(* Where the attester is in its handshake, by what it has got so far.      *)
Sessioned == {"verify_mac", "anchor"}
Maced == {"derive_session_key"} \cup Sessioned
Keyed == {"derive_mac_key"} \cup Maced
Verified == {"derive_kdk"} \cup Keyed
Pinned == {"import_key", "verify_signature"} \cup Verified
Answered == {"verify_service_key"} \cup Pinned
Started == {"connect", "send_msg0", "receive_msg1"} \cup Answered
InHandshake == {"keygen"} \cup Started

(* What the context of the attester holds at each step of the handshake,   *)
(* and as long as the guest has a handle to it.                            *)
AttesterPhase ==
    /\ a_pc \in {"idle", "receive_msg3", "exit"} \cup InHandshake
    /\ g_ctx \in {"valid", "invalid"}
    /\ a_pc \in InHandshake \cup {"exit"} => g_ctx = "invalid"
    /\ a_pc = "receive_msg3" => g_ctx = "valid"
    /\ a_pc \in Started \/ g_ctx = "valid" => ctx.ga \in AttesterKeys
    /\ a_pc \in Answered \/ g_ctx = "valid" => ctx.msg1 \in Msg1s
    /\ a_pc \in Pinned => PinMatches(ctx.msg1)
    /\ a_pc \in Verified => SignatureMatches(ctx)
    /\ a_pc \in Keyed \/ g_ctx = "valid" => ctx.kdk = Exchange(ctx.ga, ctx.msg1.gv)
    /\ a_pc \in Maced \/ g_ctx = "valid" => ctx.mac = DerivedKey("SMK", ctx.kdk)
    /\ a_pc \in Sessioned \/ g_ctx = "valid" => ctx.session = DerivedKey("SK", ctx.kdk)
    /\ g_ctx = "valid" => ctx.kdk \in completed

(* Where the verifier's process is.                                        *)
Exchanging == {"prepare_msg1", "read_msg2", "msg2", "prepare_msg3"}
Serving == {"listen", "listening", "read_msg0", "msg0"} \cup Exchanging

(* What the context of the verifier holds, and that its key is new.        *)
VerifierPhase ==
    /\ h_pc \in {"exited", "bootstrap", "terminate"} \cup Serving
    /\ h_pc \in {"bootstrap"} \cup Serving => vctx.key \in ServiceKeys
    /\ h_pc \in Serving => vctx.secret \in Secrets
    /\ h_pc \in Exchanging =>
          /\ vctx.ga \in AnyGa /\ vctx.gv \in v_used
          /\ vctx.kdk = Exchange(vctx.ga, vctx.gv)
          /\ vctx.mac = DerivedKey("SMK", vctx.kdk)
          /\ vctx.session = DerivedKey("SK", vctx.kdk)
          /\ \A r \in released : r.ex[2] # vctx.gv
    /\ h_pc = "prepare_msg1" => \A o \in offered : o.ex[2] # vctx.gv
    /\ h_pc = "prepare_msg3" => Exchange(vctx.ga, vctx.gv) \in accepted
    /\ h_pc = "exited" => vctx.objs = {}

(* Terms come only from those who can make them: a signature from a        *)
(* verifier that offered the exchange, a quote from the board after the    *)
(* handshake, an encrypted secret from a verifier that released it.        *)
SignatureKnown(s) ==
    s \in Signatures => [ex |-> Exchange(s.over[2], s.over[1]), key |-> s.by] \in offered
QuoteKnown(q) ==
    q.by # Garbled => q.by = board /\ q.anchor \in attested \cup {Garbled}
BodyKnown(b) == b # Garbled => [ex |-> b.key.kdk, data |-> b.data] \in released
MessageKnown(m) ==
    /\ m.type = "msg1" => SignatureKnown(m.sig)
    /\ m.type = "msg2" => QuoteKnown(m.quote)
    /\ m.type = "msg3" => BodyKnown(m.body)
Known == {m \in Messages : MessageKnown(m)}

NetKnowledge == up \in Seq(Known) /\ down \in Seq(Known) /\ h_buf \in Known
AttesterKnowledge ==
    /\ a_pc \in Answered => SignatureKnown(ctx.msg1.sig)
    /\ QuoteKnown(quote)
    /\ anchor \in completed \cup {Garbled}

(* The stages of an exchange follow one another.                           *)
Stages ==
    /\ HandshakeIsWithTheService
    /\ AcceptedQuoteIsFresh
    /\ SecretOnlyToAttested
    /\ DeliveredAsReleased

(* Keys are used once.                                                     *)
AttesterFresh ==
    /\ \A e \in completed : e[1] \in a_used
    /\ a_pc \in Started => ctx.ga \in a_used /\ \A e \in completed : e[1] # ctx.ga
VerifierFresh ==
    /\ \A o \in offered : o.ex[2] \in v_used
    /\ \A o, p \in offered : o.ex[2] = p.ex[2] => o = p

AttesterInv == AttesterTypeOK /\ AttesterPhase /\ AttesterKnowledge /\ AttesterFresh
VerifierInv == VerifierTypeOK /\ VerifierPhase /\ VerifierFresh
NetworkInv == NetworkTypeOK /\ NetKnowledge
HistoryInv == HistoryTypeOK /\ Stages /\ KeysServeOneExchange
IInv == AttesterInv /\ VerifierInv /\ NetworkInv /\ HistoryInv

historyVars == <<offered, completed, attested, accepted, released, delivered, pin, board>>

=============================================================================
