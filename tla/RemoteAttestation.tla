------------------------- MODULE RemoteAttestation --------------------------
(***************************************************************************)
(* The remote attestation of WaTZ as a whole: a guest in the attesting     *)
(* trusted application, the verifier's process with its own trusted        *)
(* application, and the connection between them.  The verifier's process   *)
(* ends after one connection and may be launched again, with new keys.     *)
(***************************************************************************)
EXTENDS Attester, VerifierHost

vars == <<attVars, taVars, hostVars, tcpVars>>

Init == AttInit /\ TaInit /\ HostInit /\ TcpInit

AttesterStep == AttNext /\ UNCHANGED <<taVars, hostVars>>
VerifierStep == HostNext /\ UNCHANGED attVars
NetworkFault == (DamageUp \/ DamageDown) /\ UNCHANGED <<attVars, taVars, hostVars>>

(* Nothing is left to do: the guest has ended, and the verifier has ended  *)
(* or waits for a connection that nobody will make.                        *)
Finished == a_pc = "exit" /\ h_pc \in {"exited", "listening"} /\ UNCHANGED vars

Next ==
    \/ AttesterStep
    \/ VerifierStep
    \/ NetworkFault
    \/ Finished

Spec == Init /\ [][Next]_vars

(* Both worlds schedule a thread that can run.  A launch of the verifier   *)
(* is an operator's decision and nothing makes it happen.                  *)
FairSpec ==
    /\ Spec
    /\ WF_vars(AttesterStep)
    /\ WF_vars((start_verifier_server \/ handle_connection) /\ UNCHANGED attVars)

(***************************************************************************)
(* The types.                                                              *)
(***************************************************************************)
AttesterTypeOK ==
    /\ ctx \in [ga : AttesterKeys \cup {None}, msg1 : Msg1s \cup {None},
                kdk : Exchanges \cup {None}, mac : Derived("SMK") \cup {None},
                session : Derived("SK") \cup {None}, mac2 : Tags \cup {None},
                msg3 : {"none", "held", "empty"}, objs : SUBSET Objects]
    /\ a_used \subseteq AttesterKeys /\ pin \in Pins /\ board \in BoardKeys
    /\ anchor \in Exchanges \cup {Garbled} /\ quote \in Quotes
    /\ pta \in {"null", "open", "closed"}

VerifierTypeOK ==
    /\ vctx \in [key : ServiceKeys \cup {None}, secret : Secrets \cup {None},
                 ga : AnyGa \cup {None}, gv : VerifierKeys \cup {None},
                 kdk : Exchanges \cup {None}, mac : Derived("SMK") \cup {None},
                 session : Derived("SK") \cup {None}, sig : Signatures \cup {None},
                 valid : BOOLEAN, objs : SUBSET VObjects]
    /\ v_used \subseteq VerifierKeys /\ s_used \subseteq ServiceKeys
    /\ h_size \in Nat /\ h_buf \in Messages

NetworkTypeOK ==
    /\ up \in Seq(Messages) /\ down \in Seq(Messages)
    /\ conn \in {"none", "live", "backlog"} /\ srv \in {"none", "listening", "busy"}

HistoryTypeOK ==
    /\ offered \subseteq [ex : Exchanges, key : ServiceKeys]
    /\ completed \subseteq Exchanges /\ attested \subseteq Exchanges
    /\ accepted \subseteq Exchanges
    /\ released \subseteq Deliveries /\ delivered \subseteq Deliveries

(* Every variable keeps to the values the code gives it: in particular no  *)
(* message is ever made from a key or a tag that was not yet computed.     *)
TypeOK == AttesterTypeOK /\ VerifierTypeOK /\ NetworkTypeOK /\ HistoryTypeOK

(***************************************************************************)
(* Safety.                                                                 *)
(***************************************************************************)

(* ra_net_handshake succeeds only for an exchange that a verifier signed   *)
(* with these two keys in its prepare_msg1, and, when the guest named a    *)
(* service key, only for one signed with that key: neither a damaged msg0  *)
(* or msg1, nor a short read of msg0, nor a verifier launched anew between *)
(* two messages can end in a handshake the verifier did not take part in.  *)
HandshakeIsWithTheService ==
    \A e \in completed :
        \E o \in offered : o.ex = e /\ (pin # None => o.key = pin)

(* handle_msg2 accepts an exchange only if the attester completed the      *)
(* handshake of this very exchange and the trusted board signed its anchor *)
(* after that: a quote kept from an earlier handshake, collected with an   *)
(* anchor that was never written, or left over in the host's buffer is     *)
(* refused.                                                                *)
AcceptedQuoteIsFresh ==
    /\ accepted \subseteq attested /\ attested \subseteq completed
    /\ accepted # {} => board = ImxKey

(* A secret is encrypted only under the session key of an exchange that    *)
(* handle_msg2 accepted.  prepare_msg3 does not look at is_quote_valid,    *)
(* which a failed anchor check leaves TRUE: it is the host that stops at   *)
(* the first command that fails.                                           *)
SecretOnlyToAttested == \A r \in released : r.ex \in accepted

(* What ra_net_receive_data hands to the guest is the secret that the      *)
(* verifier released for the exchange of the guest's handshake.            *)
DeliveredAsReleased == delivered \subseteq released

(* A key of either side completes at most one exchange, and no key derived *)
(* from it is used for two: a context that is allocated anew, or a         *)
(* verifier that is launched anew, starts from new keys.                   *)
KeysServeOneExchange ==
    /\ \A d, e \in completed : d[1] = e[1] \/ d[2] = e[2] => d = e
    /\ \A q, r \in released : q.ex = r.ex => q = r

(* After ra_net_dispose no object of the context is left and its socket is *)
(* closed; the buffer of msg3 is gone too, unless the peer closed the      *)
(* connection before the first byte of msg3 (msg3_size is then 0).  This   *)
(* holds for every order of calls and after every failed call, as long as  *)
(* the handshake had succeeded.                                            *)
DisposedContextHoldsNothing ==
    [][ra_net_dispose => /\ ctx'.objs = {} /\ conn' = "none"
                         /\ ctx'.msg3 = "none" \/ ctx.msg3 = "empty"]_vars

(* Whatever function of whatever command failed, dispose_ra_context leaves *)
(* no object of the verifier's context behind when the process ends.       *)
VerifierLeavesNoObject == h_pc = "exited" => vctx.objs = {}

(* The protocol implements its specification: the stages of an exchange    *)
(* follow one another, whatever happens on the network.                    *)
Abs == INSTANCE AttestedDelivery WITH
           AKeys <- AttesterKeys, VKeys <- VerifierKeys, SKeys <- ServiceKeys,
           Blobs <- Secrets, Unknown <- Garbled
AbsSpec == Abs!AbsSpec

(***************************************************************************)
(* Liveness.                                                               *)
(***************************************************************************)

(* A guest that checks its results always gets to its end: no message that *)
(* is lost with its connection, no verifier that stops halfway, and no     *)
(* data buffer larger than the secret leaves it waiting for ever.          *)
GuestFinishes == <>(a_pc = "exit")

(* A verifier that accepted a connection always ends, and so do the        *)
(* connections in its backlog.                                             *)
ConnectionEnds == srv = "busy" ~> srv # "busy"
=============================================================================
