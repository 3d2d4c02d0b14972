--------------------------- MODULE AttesterProofs ---------------------------
(***************************************************************************)
(* The invariant holds initially, the steps of the attester and of its     *)
(* guest preserve it, and each is a stage of AttestedDelivery or none; and *)
(* the lemmas that the steps of both sides share.                          *)
(***************************************************************************)
EXTENDS RemoteAttestationInv, TLAPS

(***************************************************************************)
(* Messages and what is known of them.                                     *)
(***************************************************************************)

(* The field type tells the messages apart.                                *)
LEMMA MessageTypes ==
    ASSUME NEW m \in Messages
    PROVE  /\ m.type = "msg0" => m \in Msg0s
           /\ m.type = "msg1" => m \in Msg1s
           /\ m.type = "msg2" => m \in Msg2s
           /\ m.type = "msg3" => m \in Msg3s
  BY DEF Messages, Msg0s, Msg1s, Msg2s, Msg3s, Fragment

(* The types of an exchange and of the keys derived from it.               *)
LEMMA ExchangeTyped ==
    ASSUME NEW a \in AnyGa, NEW v \in AnyGv
    PROVE  Exchange(a, v) \in Exchanges
  BY Zenon DEF Exchange, Exchanges

(* A derived key has its label's type and remembers its exchange.          *)
LEMMA DerivedTyped ==
    ASSUME NEW label, NEW e \in Exchanges
    PROVE  DerivedKey(label, e) \in Derived(label) /\ DerivedKey(label, e).kdk = e
  BY Zenon DEF DerivedKey, Derived

(* A larger set has more sequences.                                        *)
LEMMA SeqGrows ==
    ASSUME NEW S, NEW T, S \subseteq T, NEW s \in Seq(S)
    PROVE  s \in Seq(T)
  OBVIOUS

(* Appending a member keeps a sequence over the set.                       *)
LEMMA AppendSeq ==
    ASSUME NEW S, NEW s \in Seq(S), NEW m \in S
    PROVE  Append(s, m) \in Seq(S)
  OBVIOUS

(* The empty sequence is one over every set.                               *)
LEMMA EmptySeq == ASSUME NEW S PROVE <<>> \in Seq(S)
  OBVIOUS

(* What is known stays known while the histories grow.                     *)
LEMMA KnownGrows ==
    ASSUME offered \subseteq offered', attested \subseteq attested',
           released \subseteq released', board' = board
    PROVE  Known \subseteq Known'
  BY Zenon DEF Known, MessageKnown, SignatureKnown, QuoteKnown, BodyKnown

(* An incomplete message says nothing.                                     *)
LEMMA FragmentKnown == Fragment \in Known /\ Fragment \in Known'
  BY Zenon DEF Known, MessageKnown, Fragment, Messages

(* A damaged field says nothing that was not known.                        *)
LEMMA DamagedKnown ==
    ASSUME NEW m \in Known, NEW d \in Damaged(m)
    PROVE  d \in Known
  <1>1. m \in Messages /\ MessageKnown(m)
    BY Zenon DEF Known
  <1>2. PICK f \in DOMAIN m \ {"type"} :
             d = [m EXCEPT ![f] = IF f = "quote" THEN GarbledQuote ELSE Garbled]
    BY Zenon DEF Damaged
  <1>3. CASE m \in Msg0s
    <2>1. d \in Msg0s
      BY Zenon, <1>2, <1>3 DEF Msg0s, AnyGa
    <2> QED
      BY Zenon, <2>1 DEF Known, MessageKnown, Messages, Msg0s
  <1>4. CASE m \in Msg1s
    <2>1. d \in Msg1s /\ d.sig \in {m.sig, Garbled}
      BY Zenon, <1>2, <1>4 DEF Msg1s, AnyGv
    <2>2. SignatureKnown(d.sig)
      BY Zenon, <1>1, <1>4, <2>1, TermsAssumption DEF MessageKnown, SignatureKnown, Msg1s
    <2> QED
      BY Zenon, <2>1, <2>2 DEF Known, MessageKnown, Messages, Msg1s
  <1>5. CASE m \in Msg2s
    <2>1. GarbledQuote \in Quotes
      BY Zenon DEF GarbledQuote, Quote, Quotes
    <2>2. d \in Msg2s /\ d.quote \in {m.quote, GarbledQuote}
      BY Zenon, <1>2, <1>5, <2>1 DEF Msg2s, AnyGa
    <2>3. QuoteKnown(d.quote)
      BY <1>1, <1>5, <2>2 DEF MessageKnown, QuoteKnown, GarbledQuote, Quote, Msg2s
    <2> QED
      BY Zenon, <2>2, <2>3 DEF Known, MessageKnown, Messages, Msg2s
  <1>6. CASE m \in Msg3s
    <2>1. d \in Msg3s /\ d.body = Garbled
      BY Zenon, <1>2, <1>6 DEF Msg3s
    <2> QED
      BY Zenon, <2>1 DEF Known, MessageKnown, BodyKnown, Messages, Msg3s
  <1>7. CASE m = Fragment
    BY Zenon, <1>2, <1>7 DEF Fragment
  <1> QED
    BY Zenon, <1>1, <1>3, <1>4, <1>5, <1>6, <1>7 DEF Messages

(***************************************************************************)
(* What a step that leaves variables alone preserves.                      *)
(***************************************************************************)

(* The verifier's part, when its application and its host take no step.    *)
LEMMA VerifierFrame ==
    VerifierInv /\ UNCHANGED <<taVars, hostVars>> => VerifierInv'
  BY Zenon DEF VerifierInv, VerifierTypeOK, VerifierPhase, VerifierFresh, taVars, hostVars

(* The part of the histories, when none of them changes.                   *)
LEMMA HistoryFrame ==
    HistoryInv /\ UNCHANGED historyVars => HistoryInv'
  BY DEF HistoryInv, HistoryTypeOK, Stages, KeysServeOneExchange, HandshakeIsWithTheService,
         AcceptedQuoteIsFresh, SecretOnlyToAttested, DeliveredAsReleased, historyVars

(* The network's part, when the streams and the buffer stay and the        *)
(* histories grow.                                                         *)
LEMMA NetworkFrame ==
    ASSUME NetworkInv, UNCHANGED <<tcpVars, h_buf>>,
           offered \subseteq offered', attested \subseteq attested',
           released \subseteq released', board' = board
    PROVE  NetworkInv'
  <1>1. Known \subseteq Known'
    BY Zenon, KnownGrows
  <1> QED
    BY Zenon, <1>1, SeqGrows DEF NetworkInv, NetworkTypeOK, NetKnowledge, tcpVars

(* The attester's part, when it takes no step and the offers grow.         *)
LEMMA AttesterFrame ==
    ASSUME AttesterInv, UNCHANGED attVars, offered \subseteq offered'
    PROVE  AttesterInv'
  BY DEF AttesterInv, AttesterTypeOK, AttesterPhase, AttesterKnowledge, AttesterFresh,
         SignatureKnown, QuoteKnown, PinMatches, SignatureMatches, attVars

(***************************************************************************)
(* Initially.                                                              *)
(***************************************************************************)

(* Before the first handshake and the first launch the invariant holds.    *)
LEMMA InitEstablishes == Init => IInv
  <1> SUFFICES ASSUME Init PROVE IInv
    OBVIOUS
  <1>1. AttesterInv
    BY Zenon, GuestAssumption
       DEF Init, AttInit, AttesterInv, AttesterTypeOK, AttesterPhase, AttesterKnowledge,
           AttesterFresh, alloc_ra_context, GarbledQuote, Quote, Quotes, QuoteKnown,
           InHandshake, Started, Answered, Pinned, Verified, Keyed, Maced, Sessioned
  <1>2. VerifierInv
    BY Zenon DEF Init, TaInit, HostInit, VerifierInv, VerifierTypeOK, VerifierPhase, VerifierFresh,
           context_singleton, Serving, Exchanging, Messages
  <1>3. NetworkInv
    BY FragmentKnown
       DEF Init, TcpInit, HostInit, NetworkInv, NetworkTypeOK, NetKnowledge
  <1>4. HistoryInv
    BY Zenon DEF Init, AttInit, TaInit, HistoryInv, HistoryTypeOK, Stages, KeysServeOneExchange,
           HandshakeIsWithTheService, AcceptedQuoteIsFresh, SecretOnlyToAttested,
           DeliveredAsReleased
  <1> QED
    BY Zenon, <1>1, <1>2, <1>3, <1>4 DEF IInv

(* Exchanges that were completed are of generated keys of both sides.      *)
LEMMA CompletedKeys ==
    ASSUME AttesterInv, VerifierInv, HistoryInv, NEW e \in completed
    PROVE  \E a \in AttesterKeys, v \in VerifierKeys : e = <<a, v>>
  <1>1. e[1] \in AttesterKeys
    BY Zenon DEF AttesterInv, AttesterFresh, AttesterTypeOK
  <1>2. PICK o \in offered : o.ex = e
    BY Zenon DEF HistoryInv, Stages, HandshakeIsWithTheService
  <1>3. e[2] \in VerifierKeys
    BY Zenon, <1>2 DEF VerifierInv, VerifierFresh, VerifierTypeOK
  <1>4. e = <<e[1], e[2]>>
    BY DEF HistoryInv, HistoryTypeOK, Exchanges
  <1> QED
    BY Zenon, <1>1, <1>3, <1>4

(***************************************************************************)
(* The network.                                                            *)
(***************************************************************************)

(* Damage in transit keeps the invariant and is no stage of an exchange.   *)
LEMMA FaultPreserves ==
    ASSUME IInv, NetworkFault
    PROVE  IInv' /\ UNCHANGED Abs!absVars
  <1>1. UNCHANGED <<attVars, taVars, hostVars>>
    BY Zenon DEF NetworkFault
  <1>2. AttesterInv' /\ VerifierInv' /\ HistoryInv' /\ UNCHANGED Abs!absVars
    BY Zenon, <1>1, AttesterFrame, VerifierFrame, HistoryFrame
       DEF IInv, attVars, taVars, historyVars, Abs!absVars
  <1>3. Known = Known' /\ Known \subseteq Messages
    BY ZenonT(30), <1>1
       DEF Known, MessageKnown, SignatureKnown, QuoteKnown, BodyKnown, attVars, taVars
  <1>4. /\ up \in Seq(Known) /\ down \in Seq(Known) /\ h_buf' \in Known
        /\ conn' = conn /\ srv' = srv
    BY Zenon, <1>1 DEF IInv, NetworkInv, NetKnowledge, NetworkFault, DamageUp, DamageDown, hostVars
  <1>5. up' \in Seq(Known) /\ down' \in Seq(Known)
    <2>1. CASE DamageUp
      <3>1. PICK m \in Damaged(Head(up)) : up' = <<m>> \o Tail(up)
        BY Zenon, <2>1 DEF DamageUp
      <3>2. up # <<>> /\ down' = down
        BY Zenon, <2>1 DEF DamageUp
      <3>3. Head(up) \in Known /\ Tail(up) \in Seq(Known)
        BY <1>4, <3>2
      <3>4. m \in Known
        BY Zenon, <3>3, DamagedKnown
      <3>5. <<m>> \o Tail(up) \in Seq(Known)
        BY <3>3, <3>4
      <3> QED
        BY Zenon, <1>4, <3>1, <3>2, <3>5
    <2>2. CASE DamageDown
      <3>1. PICK m \in Damaged(Head(down)) : down' = <<m>> \o Tail(down)
        BY Zenon, <2>2 DEF DamageDown
      <3>2. down # <<>> /\ up' = up
        BY Zenon, <2>2 DEF DamageDown
      <3>3. Head(down) \in Known /\ Tail(down) \in Seq(Known)
        BY <1>4, <3>2
      <3>4. m \in Known
        BY Zenon, <3>3, DamagedKnown
      <3>5. <<m>> \o Tail(down) \in Seq(Known)
        BY <3>3, <3>4
      <3> QED
        BY Zenon, <1>4, <3>1, <3>2, <3>5
    <2> QED
      BY Zenon, <2>1, <2>2 DEF NetworkFault
  <1>6. up' \in Seq(Messages) /\ down' \in Seq(Messages)
    BY Zenon, <1>3, <1>5, SeqGrows
  <1>7. NetworkInv'
    BY Zenon, <1>3, <1>4, <1>5, <1>6 DEF IInv, NetworkInv, NetKnowledge, NetworkTypeOK
  <1> QED
    BY Zenon, <1>2, <1>7 DEF IInv

(***************************************************************************)
(* The attester's handshake: each step adds to the context what the next   *)
(* one finds there.                                                        *)
(***************************************************************************)

(* A function that fails, whatever it had allocated.                       *)
LEMMA FailedHandshake ==
    ASSUME AttesterInv, NEW f \in InHandshake, NEW o \in SUBSET Objects,
           HandshakeFails(f, o),
           UNCHANGED <<a_used, pin, anchor, g_ctx, completed, quoteVars>>
    PROVE  AttesterInv'
  <1>1. g_ctx = "invalid" /\ a_pc' = "idle"
    BY Zenon DEF AttesterInv, AttesterPhase, HandshakeFails, Return
  <1>2. AttesterTypeOK'
    BY DEF AttesterInv, AttesterTypeOK, HandshakeFails, quoteVars
  <1>3. AttesterPhase' /\ AttesterFresh' /\ AttesterKnowledge'
    BY Zenon, <1>1 DEF AttesterInv, AttesterPhase, AttesterFresh, AttesterKnowledge, QuoteKnown,
         quoteVars, InHandshake, Started, Answered, Pinned, Verified, Keyed, Maced, Sessioned
  <1> QED
    BY Zenon, <1>2, <1>3 DEF AttesterInv

(* The call starts with an empty context, and the guest has no handle yet. *)
LEMMA Step_ra_net_handshake ==
    AttesterInv /\ ra_net_handshake => AttesterInv'
  <1> SUFFICES ASSUME AttesterInv, ra_net_handshake PROVE AttesterInv'
    OBVIOUS
  <1>1. AttesterTypeOK'
    BY Zenon DEF AttesterInv, AttesterTypeOK, ra_net_handshake, alloc_ra_context, quoteVars
  <1>2. AttesterPhase' /\ AttesterFresh' /\ AttesterKnowledge'
    BY Zenon DEF AttesterInv, AttesterPhase, AttesterFresh, AttesterKnowledge, QuoteKnown,
         ra_net_handshake, Runs, quoteVars,
         InHandshake, Started, Answered, Pinned, Verified, Keyed, Maced, Sessioned
  <1> QED
    BY Zenon, <1>1, <1>2 DEF AttesterInv

(* The key pair the attester generates was never used before.              *)
LEMMA Step_generate_ecdh_keypair ==
    AttesterInv /\ generate_ecdh_keypair => AttesterInv'
  <1> SUFFICES ASSUME AttesterInv, generate_ecdh_keypair PROVE AttesterInv'
    OBVIOUS
  <1> USE DEF InHandshake, Started, Answered, Pinned, Verified, Keyed, Maced, Sessioned
  <1>1. CASE HandshakeFails("keygen", {"ecdh"}) /\ UNCHANGED a_used
    BY Zenon, <1>1, FailedHandshake DEF generate_ecdh_keypair, Objects
  <1>2. CASE ~(HandshakeFails("keygen", {"ecdh"}) /\ UNCHANGED a_used)
    <2>1. PICK k \in AttesterKeys \ a_used :
              /\ Runs("keygen", "connect")
              /\ ctx' = [ctx EXCEPT !.ga = k, !.objs = @ \cup {"ecdh"}]
              /\ a_used' = a_used \cup {k}
      BY ZenonT(60), <1>2 DEF generate_ecdh_keypair
    <2>2. AttesterTypeOK' /\ ctx'.ga = k
      BY ZenonT(60), <2>1 DEF AttesterInv, AttesterTypeOK, generate_ecdh_keypair, Objects, quoteVars
    <2>3. AttesterPhase'
      BY Zenon, <2>1, <2>2 DEF AttesterInv, AttesterPhase, generate_ecdh_keypair, Runs
    <2>4. AttesterFresh'
      <3>1. a_used' = a_used \cup {k} /\ completed' = completed
        BY Zenon, <2>1 DEF generate_ecdh_keypair
      <3>2. \A e \in completed : e[1] \in a_used /\ e[1] # k
        BY Zenon DEF AttesterInv, AttesterFresh
      <3> QED
        BY Zenon, <2>2, <3>1, <3>2 DEF AttesterFresh
    <2>5. AttesterKnowledge'
      BY Zenon, <2>1 DEF AttesterInv, AttesterKnowledge, QuoteKnown, generate_ecdh_keypair,
           Runs, quoteVars
    <2> QED
      BY Zenon, <2>2, <2>3, <2>4, <2>5 DEF AttesterInv
  <1> QED
    BY Zenon, <1>1, <1>2

(* The steps that only send, receive or compare.                           *)
LEMMA Step_establish_tcp_connection ==
    AttesterInv /\ establish_tcp_connection => AttesterInv'
  <1> SUFFICES ASSUME AttesterInv, establish_tcp_connection PROVE AttesterInv'
    OBVIOUS
  <1> USE DEF InHandshake, Started, Answered, Pinned, Verified, Keyed, Maced, Sessioned
  <1>1. CASE HandshakeFails("connect", {}) /\ UNCHANGED tcpVars
    BY Zenon, <1>1, FailedHandshake DEF establish_tcp_connection
  <1>2. CASE Runs("connect", "send_msg0") /\ UNCHANGED ctx
    BY <1>2 DEF AttesterInv, AttesterTypeOK, AttesterPhase, AttesterFresh,
         AttesterKnowledge, QuoteKnown, establish_tcp_connection, Runs, quoteVars
  <1> QED
    BY Zenon, <1>1, <1>2 DEF establish_tcp_connection

(* Sending the attester's public key changes nothing the context holds.    *)
LEMMA Step_send_msg0 ==
    AttesterInv /\ send_msg0 => AttesterInv'
  <1> SUFFICES ASSUME AttesterInv, send_msg0 PROVE AttesterInv'
    OBVIOUS
  <1> USE DEF InHandshake, Started, Answered, Pinned, Verified, Keyed, Maced, Sessioned
  <1>1. CASE HandshakeFails("send_msg0", {}) /\ UNCHANGED tcpVars
    BY Zenon, <1>1, FailedHandshake DEF send_msg0
  <1>2. CASE Runs("send_msg0", "receive_msg1") /\ UNCHANGED ctx
    BY <1>2 DEF AttesterInv, AttesterTypeOK, AttesterPhase, AttesterFresh,
         AttesterKnowledge, QuoteKnown, send_msg0, Runs, quoteVars
  <1> QED
    BY Zenon, <1>1, <1>2 DEF send_msg0

(* msg1 comes from the stream, with what is known of its signature.        *)
LEMMA Step_receive_msg1 ==
    ASSUME AttesterInv, NetworkInv, receive_msg1, UNCHANGED offered
    PROVE  AttesterInv'
  <1> USE DEF InHandshake, Started, Answered, Pinned, Verified, Keyed, Maced, Sessioned
  <1>1. CASE HandshakeFails("receive_msg1", {})
    BY Zenon, <1>1, FailedHandshake DEF receive_msg1
  <1>2. CASE ~HandshakeFails("receive_msg1", {})
    <2>1. /\ down # <<>> /\ Head(down).type = "msg1"
          /\ Runs("receive_msg1", "verify_service_key")
          /\ ctx' = [ctx EXCEPT !.msg1 = Head(down)]
          /\ UNCHANGED <<a_used, pin, anchor, g_ctx, completed, quoteVars>>
      BY Zenon, <1>2 DEF receive_msg1, HasData
    <2>2. Head(down) \in Msg1s /\ SignatureKnown(Head(down).sig)
      <3>1. Head(down) \in Known
        BY <2>1 DEF NetworkInv, NetKnowledge
      <3> QED
        BY Zenon, <2>1, <3>1, MessageTypes DEF Known, MessageKnown
    <2>3. AttesterTypeOK' /\ ctx'.msg1 = Head(down) /\ ctx'.ga = ctx.ga
      BY Zenon, <2>1, <2>2 DEF AttesterInv, AttesterTypeOK, quoteVars
    <2>4. AttesterPhase'
      BY Zenon, <2>1, <2>2, <2>3 DEF AttesterInv, AttesterPhase, Runs
    <2>5. AttesterFresh'
      BY <2>1, <2>3 DEF AttesterInv, AttesterFresh, Runs
    <2>6. AttesterKnowledge'
      BY <2>1, <2>2, <2>3, SMTT(30)
         DEF AttesterInv, AttesterKnowledge, SignatureKnown, QuoteKnown, quoteVars
    <2> QED
      BY Zenon, <2>3, <2>4, <2>5, <2>6 DEF AttesterInv
  <1> QED
    BY Zenon, <1>1, <1>2

(* A step that passes on to the next without touching the key, msg1 or     *)
(* the histories keeps what is known and what is fresh.                    *)
LEMMA QuietHandshake ==
    ASSUME AttesterInv, UNCHANGED offered,
           UNCHANGED <<a_used, pin, anchor, g_ctx, completed, quoteVars>>,
           a_pc \in Answered, ctx'.ga = ctx.ga, ctx'.msg1 = ctx.msg1
    PROVE  AttesterFresh' /\ AttesterKnowledge'
  BY Zenon DEF AttesterInv, AttesterFresh, AttesterKnowledge, SignatureKnown, QuoteKnown,
         quoteVars, Started

(* Past this step msg1 carries the key the guest pinned, if it pinned one. *)
LEMMA Step_verify_service_public_key ==
    ASSUME AttesterInv, verify_service_public_key, UNCHANGED offered
    PROVE  AttesterInv'
  <1> USE DEF InHandshake, Started, Answered, Pinned, Verified, Keyed, Maced, Sessioned
  <1>1. CASE HandshakeFails("verify_service_key", {})
    BY Zenon, <1>1, FailedHandshake DEF verify_service_public_key
  <1>2. CASE ~HandshakeFails("verify_service_key", {})
    <2>1. /\ Runs("verify_service_key", "import_key") /\ PinMatches(ctx.msg1)
          /\ UNCHANGED <<ctx, a_used, pin, anchor, g_ctx, completed, quoteVars>>
      BY Zenon, <1>2 DEF verify_service_public_key
    <2>2. AttesterTypeOK'
      BY ZenonT(30), <2>1 DEF AttesterInv, AttesterTypeOK, quoteVars
    <2>3. AttesterPhase'
      BY Zenon, <2>1 DEF AttesterInv, AttesterPhase, PinMatches, Runs
    <2> QED
      BY Zenon, <2>1, <2>2, <2>3, QuietHandshake DEF AttesterInv, Runs
  <1> QED
    BY Zenon, <1>1, <1>2

(* The imported key becomes an object of the context.                      *)
LEMMA Step_import_verifier_attestation_key ==
    ASSUME AttesterInv, import_verifier_attestation_key, UNCHANGED offered
    PROVE  AttesterInv'
  <1> USE DEF InHandshake, Started, Answered, Pinned, Verified, Keyed, Maced, Sessioned
  <1>1. CASE HandshakeFails("import_key", {"ecdsa"})
    BY Zenon, <1>1, FailedHandshake DEF import_verifier_attestation_key, Objects
  <1>2. CASE ~HandshakeFails("import_key", {"ecdsa"})
    <2>1. /\ Runs("import_key", "verify_signature")
          /\ ctx' = [ctx EXCEPT !.objs = @ \cup {"ecdsa"}]
          /\ UNCHANGED <<a_used, pin, anchor, g_ctx, completed, quoteVars>>
      BY Zenon, <1>2 DEF import_verifier_attestation_key
    <2>2. AttesterTypeOK' /\ ctx'.ga = ctx.ga /\ ctx'.msg1 = ctx.msg1
      BY Zenon, <2>1 DEF AttesterInv, AttesterTypeOK, Objects, quoteVars
    <2>3. AttesterPhase'
      BY Zenon, <2>1, <2>2 DEF AttesterInv, AttesterPhase, PinMatches, Runs
    <2> QED
      BY Zenon, <2>1, <2>2, <2>3, QuietHandshake DEF AttesterInv, Runs
  <1> QED
    BY Zenon, <1>1, <1>2

(* Past this step the signature of msg1 is over the exchange of this       *)
(* context.                                                                *)
LEMMA Step_verify_ecdh_public_key_signature ==
    ASSUME AttesterInv, verify_ecdh_public_key_signature, UNCHANGED offered
    PROVE  AttesterInv'
  <1> USE DEF InHandshake, Started, Answered, Pinned, Verified, Keyed, Maced, Sessioned
  <1>1. CASE HandshakeFails("verify_signature", {})
    BY Zenon, <1>1, FailedHandshake DEF verify_ecdh_public_key_signature
  <1>2. CASE ~HandshakeFails("verify_signature", {})
    <2>1. /\ Runs("verify_signature", "derive_kdk") /\ SignatureMatches(ctx)
          /\ UNCHANGED <<ctx, a_used, pin, anchor, g_ctx, completed, quoteVars>>
      BY Zenon, <1>2 DEF verify_ecdh_public_key_signature
    <2>2. AttesterTypeOK'
      BY ZenonT(30), <2>1 DEF AttesterInv, AttesterTypeOK, quoteVars
    <2>3. AttesterPhase'
      BY Zenon, <2>1 DEF AttesterInv, AttesterPhase, PinMatches, SignatureMatches, Runs
    <2> QED
      BY Zenon, <2>1, <2>2, <2>3, QuietHandshake DEF AttesterInv, Runs
  <1> QED
    BY Zenon, <1>1, <1>2

(* The shared key is that of the attester's key and the key in msg1.       *)
LEMMA Step_derive_shared_key ==
    ASSUME AttesterInv, derive_shared_key, UNCHANGED offered
    PROVE  AttesterInv'
  <1> USE DEF InHandshake, Started, Answered, Pinned, Verified, Keyed, Maced, Sessioned
  <1>1. CASE HandshakeFails("derive_kdk", {"kdk"})
    BY Zenon, <1>1, FailedHandshake DEF derive_shared_key, Objects
  <1>2. CASE ~HandshakeFails("derive_kdk", {"kdk"})
    <2>1. /\ Runs("derive_kdk", "derive_mac_key")
          /\ ctx' = [ctx EXCEPT !.kdk = Exchange(ctx.ga, ctx.msg1.gv), !.objs = @ \cup {"kdk"}]
          /\ UNCHANGED <<a_used, pin, anchor, g_ctx, completed, quoteVars>>
      BY Zenon, <1>2 DEF derive_shared_key
    <2>2. Exchange(ctx.ga, ctx.msg1.gv) \in Exchanges
      BY Zenon, <2>1 DEF AttesterInv, AttesterPhase, Runs, Exchange, Exchanges, AnyGa, Msg1s
    <2>3. /\ AttesterTypeOK' /\ ctx'.ga = ctx.ga /\ ctx'.msg1 = ctx.msg1
          /\ ctx'.kdk = Exchange(ctx.ga, ctx.msg1.gv)
      BY Zenon, <2>1, <2>2 DEF AttesterInv, AttesterTypeOK, Objects, quoteVars
    <2>4. AttesterPhase'
      BY Zenon, <2>1, <2>3 DEF AttesterInv, AttesterPhase, PinMatches, SignatureMatches, Runs
    <2> QED
      BY Zenon, <2>1, <2>3, <2>4, QuietHandshake DEF AttesterInv, Runs
  <1> QED
    BY Zenon, <1>1, <1>2

(* The MAC key and the session key are derived from the shared key of this *)
(* context.                                                                *)
LEMMA Step_derive_shared_mac_key ==
    ASSUME AttesterInv, derive_shared_mac_key, UNCHANGED offered
    PROVE  AttesterInv'
  <1> USE DEF InHandshake, Started, Answered, Pinned, Verified, Keyed, Maced, Sessioned
  <1>1. CASE HandshakeFails("derive_mac_key", {"mac"})
    BY Zenon, <1>1, FailedHandshake DEF derive_shared_mac_key, Objects
  <1>2. CASE HandshakeFails("derive_session_key", {"session"})
    BY Zenon, <1>2, FailedHandshake DEF derive_shared_mac_key, Objects
  <1>3. /\ a_pc \in Keyed => ctx.kdk \in Exchanges
        /\ UNCHANGED <<a_used, pin, anchor, g_ctx, completed, quoteVars>>
    BY DEF AttesterInv, AttesterPhase, derive_shared_mac_key, Exchange, Exchanges, AnyGa, Msg1s
  <1>4. CASE /\ Runs("derive_mac_key", "derive_session_key")
             /\ ctx' = [ctx EXCEPT !.mac = DerivedKey("SMK", ctx.kdk), !.objs = @ \cup {"mac"}]
    <2>1. DerivedKey("SMK", ctx.kdk) \in Derived("SMK")
      BY Zenon, <1>3, <1>4 DEF DerivedKey, Derived, Runs
    <2>2. /\ AttesterTypeOK' /\ ctx'.ga = ctx.ga /\ ctx'.msg1 = ctx.msg1
          /\ ctx'.kdk = ctx.kdk /\ ctx'.mac = DerivedKey("SMK", ctx.kdk)
      BY Zenon, <1>3, <1>4, <2>1 DEF AttesterInv, AttesterTypeOK, Objects, quoteVars
    <2>3. AttesterPhase'
      BY Zenon, <1>3, <1>4, <2>2 DEF AttesterInv, AttesterPhase, PinMatches, SignatureMatches, Runs
    <2> QED
      BY Zenon, <1>3, <1>4, <2>2, <2>3, QuietHandshake DEF AttesterInv, Runs
  <1>5. CASE /\ Runs("derive_session_key", "verify_mac")
             /\ ctx' = [ctx EXCEPT !.session = DerivedKey("SK", ctx.kdk),
                                   !.objs = @ \cup {"session"}]
    <2>1. DerivedKey("SK", ctx.kdk) \in Derived("SK")
      BY Zenon, <1>3, <1>5 DEF DerivedKey, Derived, Runs
    <2>2. /\ AttesterTypeOK' /\ ctx'.ga = ctx.ga /\ ctx'.msg1 = ctx.msg1
          /\ ctx'.kdk = ctx.kdk /\ ctx'.mac = ctx.mac
          /\ ctx'.session = DerivedKey("SK", ctx.kdk)
      BY Zenon, <1>3, <1>5, <2>1 DEF AttesterInv, AttesterTypeOK, Objects, quoteVars
    <2>3. AttesterPhase'
      BY Zenon, <1>3, <1>5, <2>2 DEF AttesterInv, AttesterPhase, PinMatches, SignatureMatches, Runs
    <2> QED
      BY Zenon, <1>3, <1>5, <2>2, <2>3, QuietHandshake DEF AttesterInv, Runs
  <1> QED
    BY Zenon, <1>1, <1>2, <1>4, <1>5 DEF derive_shared_mac_key

(* Comparing the tag of msg1 only passes on or fails.                      *)
LEMMA Step_verify_msg1_mac ==
    ASSUME AttesterInv, verify_msg1_mac, UNCHANGED offered
    PROVE  AttesterInv'
  <1> USE DEF InHandshake, Started, Answered, Pinned, Verified, Keyed, Maced, Sessioned
  <1>1. CASE HandshakeFails("verify_mac", {})
    BY Zenon, <1>1, FailedHandshake DEF verify_msg1_mac
  <1>2. CASE ~HandshakeFails("verify_mac", {})
    <2>1. /\ Runs("verify_mac", "anchor")
          /\ UNCHANGED <<ctx, a_used, pin, anchor, g_ctx, completed, quoteVars>>
      BY Zenon, <1>2 DEF verify_msg1_mac
    <2>2. AttesterTypeOK'
      BY <2>1 DEF AttesterInv, AttesterTypeOK, quoteVars
    <2>3. AttesterPhase'
      BY Zenon, <2>1 DEF AttesterInv, AttesterPhase, PinMatches, SignatureMatches, Runs
    <2> QED
      BY Zenon, <2>1, <2>2, <2>3, QuietHandshake DEF AttesterInv, Runs
  <1> QED
    BY Zenon, <1>1, <1>2

(* At the end of the handshake the exchange is one a verifier offered,     *)
(* under the key the guest asked for, and its key is new.                  *)
LEMMA HandshakeOffered ==
    ASSUME AttesterInv, VerifierInv, HistoryInv, a_pc = "anchor"
    PROVE  \E o \in offered : /\ o.ex = Exchange(ctx.ga, ctx.msg1.gv)
                              /\ pin # None => o.key = pin
                              /\ ctx.msg1.gv \in VerifierKeys
  <1>1. /\ ctx.ga \in AttesterKeys /\ ctx.msg1 \in Msg1s
        /\ PinMatches(ctx.msg1) /\ SignatureMatches(ctx)
        /\ SignatureKnown(ctx.msg1.sig)
    BY Zenon DEF AttesterInv, AttesterPhase, AttesterKnowledge,
           Started, Answered, Pinned, Verified, Keyed, Maced, Sessioned
  <1>2. /\ ctx.msg1.sig = [by |-> ctx.msg1.key, over |-> <<ctx.msg1.gv, ctx.ga>>]
        /\ ctx.msg1.gv \in AnyGv /\ ctx.msg1.key \in ServiceKeys \cup {Garbled}
    BY Zenon, <1>1 DEF SignatureMatches, Sign, Msg1s
  <1>3. ctx.msg1.sig \in Signatures
    BY <1>1, <1>2 DEF Signatures, AnyGa
  <1> DEFINE o == [ex |-> Exchange(ctx.ga, ctx.msg1.gv), key |-> ctx.msg1.key]
  <1>4. o \in offered
    BY <1>1, <1>2, <1>3 DEF SignatureKnown
  <1>5. pin # None => o.key = pin
    BY Zenon, <1>1 DEF PinMatches
  <1>6. ctx.msg1.gv \in VerifierKeys
    <2>1. o.ex[2] = ctx.msg1.gv
      BY Zenon DEF Exchange
    <2> QED
      BY Zenon, <1>4, <2>1 DEF VerifierInv, VerifierFresh, VerifierTypeOK
  <1> QED
    BY Zenon, <1>4, <1>5, <1>6

(* The handshake completes an exchange that a verifier offered: the stage  *)
(* Complete.                                                               *)
LEMMA Step_generate_anchor ==
    ASSUME AttesterInv, VerifierInv, HistoryInv, generate_anchor, UNCHANGED taVars
    PROVE  /\ AttesterInv' /\ HistoryInv'
           /\ UNCHANGED Abs!absVars \/ \E a \in AttesterKeys, v \in VerifierKeys : Abs!Complete(a, v)
  <1> USE DEF InHandshake, Started, Answered, Pinned, Verified, Keyed, Maced, Sessioned
  <1>1. CASE HandshakeFails("anchor", {}) /\ UNCHANGED <<anchor, g_ctx, completed>>
    <2>1. AttesterInv'
      BY Zenon, <1>1, FailedHandshake DEF generate_anchor
    <2>2. HistoryInv' /\ UNCHANGED Abs!absVars
      BY Zenon, <1>1, HistoryFrame DEF generate_anchor, taVars, historyVars, quoteVars, Abs!absVars
    <2> QED
      BY Zenon, <2>1, <2>2
  <1>2. CASE ~(HandshakeFails("anchor", {}) /\ UNCHANGED <<anchor, g_ctx, completed>>)
    <2> DEFINE e == Exchange(ctx.ga, ctx.msg1.gv)
    <2>1. /\ a_pc = "anchor" /\ a_pc' = "idle"
          /\ anchor' = e /\ g_ctx' = "valid" /\ completed' = completed \cup {e}
          /\ UNCHANGED <<ctx, a_used, pin, quoteVars>>
      BY Zenon, <1>2 DEF generate_anchor, Return
    <2>2. PICK o \in offered : /\ o.ex = e /\ (pin # None => o.key = pin)
                               /\ ctx.msg1.gv \in VerifierKeys
      BY ZenonT(60), <2>1, HandshakeOffered
    <2>3. /\ ctx.ga \in AttesterKeys /\ ctx.ga \in a_used
          /\ \A d \in completed : d[1] # ctx.ga /\ d[1] \in a_used
          /\ e[1] = ctx.ga /\ e[2] = ctx.msg1.gv
      BY Zenon, <2>1 DEF AttesterInv, AttesterPhase, AttesterFresh, Exchange
    <2>4. e \in Exchanges
      BY Zenon, <2>2, <2>3 DEF Exchange, Exchanges, AnyGa, AnyGv
    <2>5. \A d \in completed : d[2] # e[2]
      <3>1. SUFFICES ASSUME NEW d \in completed, d[2] = e[2] PROVE FALSE
        OBVIOUS
      <3>2. PICK p \in offered : p.ex = d
        BY Zenon DEF HistoryInv, Stages, HandshakeIsWithTheService
      <3>3. p = o
        BY Zenon, <2>2, <3>1, <3>2 DEF VerifierInv, VerifierFresh
      <3> QED
        BY Zenon, <2>2, <2>3, <3>2, <3>3
    <2>6. AttesterInv'
      <3>1. AttesterTypeOK'
        BY ZenonT(60), <2>1, <2>4 DEF AttesterInv, AttesterTypeOK, quoteVars
      <3>2. AttesterPhase'
        BY ZenonT(60), <2>1 DEF AttesterInv, AttesterPhase, Exchange
      <3>3. AttesterFresh' /\ AttesterKnowledge'
        BY Zenon, <2>1, <2>3
           DEF AttesterInv, AttesterFresh, AttesterKnowledge, QuoteKnown, quoteVars
      <3> QED
        BY Zenon, <3>1, <3>2, <3>3 DEF AttesterInv
    <2>7. HistoryInv'
      <3>1. HistoryTypeOK'
        BY Zenon, <2>1, <2>4 DEF HistoryInv, HistoryTypeOK, taVars, quoteVars
      <3>2. HandshakeIsWithTheService'
        BY Zenon, <2>1, <2>2 DEF HistoryInv, Stages, HandshakeIsWithTheService, taVars
      <3>3. AcceptedQuoteIsFresh' /\ SecretOnlyToAttested' /\ DeliveredAsReleased'
        BY Zenon, <2>1 DEF HistoryInv, Stages, AcceptedQuoteIsFresh, SecretOnlyToAttested,
             DeliveredAsReleased, taVars, quoteVars
      <3>4. KeysServeOneExchange'
        BY <2>1, <2>3, <2>5 DEF HistoryInv, KeysServeOneExchange, taVars
      <3> QED
        BY Zenon, <3>1, <3>2, <3>3, <3>4 DEF HistoryInv, Stages
    <2>8. Abs!Complete(ctx.ga, ctx.msg1.gv)
      BY ZenonT(60), <2>1, <2>2, <2>3, <2>5 DEF Abs!Complete, Exchange, taVars, quoteVars
    <2> QED
      BY Zenon, <2>2, <2>3, <2>6, <2>7, <2>8
  <1> QED
    BY Zenon, <1>1, <1>2

(***************************************************************************)
(* The other calls of the guest.                                           *)
(***************************************************************************)

(* A call with a handle that is not valid returns before it touches the    *)
(* context.                                                                *)
LEMMA Step_InvalidHandle ==
    AttesterInv /\ InvalidHandle => AttesterInv'
  <1> SUFFICES ASSUME AttesterInv, InvalidHandle PROVE AttesterInv'
    OBVIOUS
  <1>1. /\ a_pc = "idle" /\ a_pc' = "idle"
        /\ UNCHANGED <<ctx, a_used, pin, anchor, g_ctx, completed, quoteVars>>
    BY Zenon DEF InvalidHandle, Calls, Return
  <1> QED
    BY <1>1 DEF AttesterInv, AttesterTypeOK, AttesterPhase, AttesterFresh, AttesterKnowledge,
         QuoteKnown, quoteVars, InHandshake, Started, Answered, Pinned, Verified, Keyed,
         Maced, Sessioned

(* The board signs the anchor the guest holds, which is that of a          *)
(* completed handshake or of none.                                         *)
LEMMA Step_ra_quote_collect ==
    ASSUME AttesterInv, VerifierInv, HistoryInv, ra_quote_collect, UNCHANGED taVars
    PROVE  /\ AttesterInv' /\ HistoryInv'
           /\ \/ UNCHANGED Abs!absVars
              \/ \E a \in AttesterKeys, v \in VerifierKeys : Abs!Attest(a, v)
  <1> USE DEF InHandshake, Started, Answered, Pinned, Verified, Keyed, Maced, Sessioned
  <1>1. /\ a_pc = "idle" /\ a_pc' = "idle"
        /\ UNCHANGED <<ctx, a_used, pin, board, anchor, g_ctx, completed, delivered>>
        /\ pta' \in {pta, "open"}
    BY Zenon DEF ra_quote_collect, Calls, Return, ensure_attestation_service_up
  <1>2. \/ UNCHANGED <<quote, attested>>
        \/ quote' = Quote(anchor, board) /\ attested' = attested \cup ({anchor} \ {Garbled})
    BY ZenonT(60) DEF ra_quote_collect
  <1>3. attested \subseteq attested' /\ attested' \subseteq completed
    BY ZenonT(60), <1>1, <1>2
       DEF AttesterInv, AttesterKnowledge, HistoryInv, Stages, AcceptedQuoteIsFresh
  <1>4. QuoteKnown(quote)' /\ quote' \in Quotes
    BY <1>1, <1>2 DEF AttesterInv, AttesterKnowledge, AttesterTypeOK, QuoteKnown, Quote, Quotes
  <1>5. AttesterInv'
    <2>1. AttesterTypeOK'
      BY ZenonT(60), <1>1, <1>4 DEF AttesterInv, AttesterTypeOK
    <2>2. AttesterPhase' /\ AttesterFresh' /\ AttesterKnowledge'
      BY ZenonT(60), <1>1, <1>4 DEF AttesterInv, AttesterPhase, AttesterFresh, AttesterKnowledge
    <2> QED
      BY Zenon, <2>1, <2>2 DEF AttesterInv
  <1>6. HistoryInv'
    BY Zenon, <1>1, <1>3 DEF HistoryInv, HistoryTypeOK, Stages, KeysServeOneExchange,
         HandshakeIsWithTheService, AcceptedQuoteIsFresh, SecretOnlyToAttested,
         DeliveredAsReleased, taVars
  <1>7. CASE attested' = attested
    BY Zenon, <1>1, <1>5, <1>6, <1>7 DEF Abs!absVars, taVars
  <1>8. CASE attested' # attested
    <2>1. anchor \in completed /\ attested' = attested \cup {anchor}
      BY Zenon, <1>2, <1>8 DEF AttesterInv, AttesterKnowledge
    <2>2. PICK a \in AttesterKeys, v \in VerifierKeys : anchor = <<a, v>>
      BY ZenonT(60), <2>1, CompletedKeys
    <2>3. Abs!Attest(a, v)
      BY ZenonT(60), <1>1, <2>1, <2>2 DEF Abs!Attest, taVars
    <2> QED
      BY Zenon, <1>5, <1>6, <2>3
  <1> QED
    BY Zenon, <1>7, <1>8

(* While the guest holds the context, only mac2, msg3 and the objects of   *)
(* the context change.                                                     *)
LEMMA HeldContext ==
    ASSUME AttesterInv, g_ctx = "valid", AttesterTypeOK',
           UNCHANGED <<a_used, pin, board, anchor, quote, attested, completed>>,
           \/ a_pc' = "idle" /\ g_ctx' \in {"valid", "invalid"}
           \/ a_pc' = "receive_msg3" /\ g_ctx' = "valid",
           ctx'.ga = ctx.ga, ctx'.msg1 = ctx.msg1, ctx'.kdk = ctx.kdk,
           ctx'.mac = ctx.mac, ctx'.session = ctx.session
    PROVE  AttesterInv'
  <1> USE DEF InHandshake, Started, Answered, Pinned, Verified, Keyed, Maced, Sessioned
  <1>1. AttesterPhase'
    BY ZenonT(60) DEF AttesterInv, AttesterPhase
  <1>2. AttesterFresh' /\ AttesterKnowledge'
    BY Zenon DEF AttesterInv, AttesterFresh, AttesterKnowledge, QuoteKnown
  <1> QED
    BY ZenonT(60), <1>1, <1>2 DEF AttesterInv

(* msg2 carries the quote as it is, under a tag of this context or an      *)
(* earlier one.                                                            *)
LEMMA Step_ra_net_send_quote ==
    ASSUME AttesterInv, ra_net_send_quote
    PROVE  AttesterInv' /\ Msg2(ctx.ga, quote, ctx'.mac2) \in Known
  <1>1. /\ g_ctx = "valid" /\ a_pc' = "idle"
        /\ UNCHANGED <<a_used, pin, anchor, g_ctx, completed, quoteVars>>
    BY ZenonT(60) DEF ra_net_send_quote, HandleIsValid, Return
  <1>2. /\ ctx.ga \in AttesterKeys /\ ctx.mac = DerivedKey("SMK", ctx.kdk)
        /\ ctx.kdk = Exchange(ctx.ga, ctx.msg1.gv) /\ ctx.msg1 \in Msg1s
    BY ZenonT(60), <1>1 DEF AttesterInv, AttesterPhase
  <1>3. ctx.mac \in Derived("SMK")
    <2>1. ctx.ga \in AnyGa /\ ctx.msg1.gv \in AnyGv
      BY Zenon, <1>2 DEF AnyGa, Msg1s
    <2> QED
      BY Zenon, <1>2, <2>1, ExchangeTyped, DerivedTyped
  <1>4. MacTag(ctx.mac, <<ctx.ga, quote>>) \in Tags
    BY Zenon, <1>2, <1>3 DEF AttesterInv, AttesterTypeOK, MacTag, Tags, AnyGa
  <1>5. PICK tag \in Tags \cup {None} : ctx' = [ctx EXCEPT !.mac2 = tag]
    BY Zenon, <1>4 DEF ra_net_send_quote, prepare_msg2, AttesterInv, AttesterTypeOK
  <1>6. /\ AttesterTypeOK'
        /\ ctx'.ga = ctx.ga /\ ctx'.msg1 = ctx.msg1 /\ ctx'.kdk = ctx.kdk
        /\ ctx'.mac = ctx.mac /\ ctx'.session = ctx.session /\ ctx'.mac2 = tag
    BY Zenon, <1>1, <1>5 DEF AttesterInv, AttesterTypeOK, quoteVars
  <1>7. AttesterInv'
    BY ZenonT(60), <1>1, <1>6, HeldContext DEF AttesterInv, AttesterPhase, quoteVars
  <1>8. Msg2(ctx.ga, quote, tag) \in Msg2s /\ QuoteKnown(quote)
    BY Zenon, <1>2 DEF AttesterInv, AttesterTypeOK, AttesterKnowledge, Msg2, Msg2s, AnyGa
  <1> QED
    BY Zenon, <1>6, <1>7, <1>8 DEF Known, MessageKnown, Messages, Msg2

(* Allocating the buffer of msg3 leaves the keys of the context alone.     *)
LEMMA Step_ra_net_receive_data ==
    AttesterInv /\ ra_net_receive_data => AttesterInv'
  <1> SUFFICES ASSUME AttesterInv, ra_net_receive_data PROVE AttesterInv'
    OBVIOUS
  <1>1. /\ g_ctx = "valid" /\ a_pc' = "receive_msg3"
        /\ ctx' = [ctx EXCEPT !.msg3 = "held"]
        /\ UNCHANGED <<a_used, pin, board, pta, anchor, quote, g_ctx, completed, attested>>
    BY Zenon DEF ra_net_receive_data, HandleIsValid, Runs
  <1>2. /\ AttesterTypeOK'
        /\ ctx'.ga = ctx.ga /\ ctx'.msg1 = ctx.msg1 /\ ctx'.kdk = ctx.kdk
        /\ ctx'.mac = ctx.mac /\ ctx'.session = ctx.session
    BY Zenon, <1>1 DEF AttesterInv, AttesterTypeOK
  <1> QED
    BY Zenon, <1>1, <1>2, HeldContext

(* What is delivered was encrypted under the session key of this exchange, *)
(* hence released for it.                                                  *)
LEMMA Step_receive_msg3 ==
    ASSUME AttesterInv, VerifierInv, NetworkInv, HistoryInv, receive_msg3, UNCHANGED taVars
    PROVE  /\ AttesterInv' /\ HistoryInv'
           /\ \/ UNCHANGED Abs!absVars
              \/ \E a \in AttesterKeys, v \in VerifierKeys, d \in Secrets : Abs!Deliver(a, v, d)
  <1>1. /\ g_ctx = "valid" /\ a_pc' = "idle"
        /\ UNCHANGED <<a_used, pin, board, pta, anchor, quote, g_ctx, completed, attested>>
        /\ ctx' \in {ctx, [ctx EXCEPT !.msg3 = "empty"]}
    BY Zenon DEF receive_msg3, AttesterInv, AttesterPhase, Return
  <1>2. /\ AttesterTypeOK'
        /\ ctx'.ga = ctx.ga /\ ctx'.msg1 = ctx.msg1 /\ ctx'.kdk = ctx.kdk
        /\ ctx'.mac = ctx.mac /\ ctx'.session = ctx.session
    BY ZenonT(60), <1>1 DEF AttesterInv, AttesterTypeOK
  <1>3. AttesterInv'
    BY Zenon, <1>1, <1>2, HeldContext DEF AttesterInv, AttesterPhase
  <1>4. CASE delivered' = delivered
    <2>1. UNCHANGED historyVars
      BY Zenon, <1>1, <1>4 DEF historyVars, taVars
    <2> QED
      BY Zenon, <1>3, <2>1, HistoryFrame DEF historyVars, Abs!absVars
  <1>5. CASE delivered' # delivered
    <2> DEFINE m == Head(down)
    <2> DEFINE r == [ex |-> ctx.kdk, data |-> Plaintext(m)]
    <2>1. /\ down # <<>> /\ m.type = "msg3"
          /\ decrypt_msg3(ctx, m) /\ delivered' = delivered \cup {r}
      BY ZenonT(60), <1>5 DEF receive_msg3, HasData
    <2>2. m \in Msg3s /\ BodyKnown(m.body)
      <3>1. m \in Known
        BY <2>1 DEF NetworkInv, NetKnowledge
      <3> QED
        BY Zenon, <2>1, <3>1, MessageTypes DEF Known, MessageKnown
    <2>3. m.body.key.kdk = ctx.kdk
      BY <1>1, <2>1 DEF decrypt_msg3, AttesterInv, AttesterPhase, DerivedKey
    <2>4. m.body # Garbled /\ Plaintext(m) = m.body.data
      BY Zenon, <2>1 DEF decrypt_msg3, Plaintext
    <2>5. r \in released
      BY Zenon, <2>2, <2>3, <2>4 DEF BodyKnown
    <2>6. HistoryInv'
      BY Zenon, <1>1, <2>1, <2>5 DEF HistoryInv, HistoryTypeOK, Stages, KeysServeOneExchange,
           HandshakeIsWithTheService, AcceptedQuoteIsFresh, SecretOnlyToAttested,
           DeliveredAsReleased, taVars
    <2>7. ctx.kdk \in completed /\ Plaintext(m) \in Secrets
      BY Zenon, <1>1, <2>2, <2>4 DEF AttesterInv, AttesterPhase, Msg3s
    <2>8. PICK a \in AttesterKeys, v \in VerifierKeys : ctx.kdk = <<a, v>>
      BY Zenon, <2>7, CompletedKeys
    <2>9. Abs!Deliver(a, v, Plaintext(m))
      BY Zenon, <1>1, <2>1, <2>5, <2>8 DEF Abs!Deliver, taVars
    <2> QED
      BY Zenon, <1>3, <2>6, <2>7, <2>9
  <1> QED
    BY Zenon, <1>4, <1>5

(* Disposing frees the context and invalidates its handle; the histories   *)
(* stay.                                                                   *)
LEMMA Step_ra_net_dispose ==
    AttesterInv /\ ra_net_dispose => AttesterInv'
  <1> SUFFICES ASSUME AttesterInv, ra_net_dispose PROVE AttesterInv'
    OBVIOUS
  <1>1. /\ g_ctx = "valid" /\ g_ctx' = "invalid" /\ a_pc' = "idle"
        /\ ctx' = free_ra_context(ctx)
        /\ UNCHANGED <<a_used, pin, anchor, completed, quoteVars>>
    BY Zenon DEF ra_net_dispose, HandleIsValid, Return
  <1>2. /\ AttesterTypeOK'
        /\ ctx'.ga = ctx.ga /\ ctx'.msg1 = ctx.msg1 /\ ctx'.kdk = ctx.kdk
        /\ ctx'.mac = ctx.mac /\ ctx'.session = ctx.session
    BY ZenonT(60), <1>1 DEF AttesterInv, AttesterTypeOK, free_ra_context, quoteVars
  <1> QED
    BY Zenon, <1>1, <1>2, HeldContext DEF quoteVars

(* Disposing a quote leaves the context and the histories alone.           *)
LEMMA Step_ra_quote_dispose ==
    AttesterInv /\ ra_quote_dispose => AttesterInv'
  <1> SUFFICES ASSUME AttesterInv, ra_quote_dispose PROVE AttesterInv'
    OBVIOUS
  <1>1. /\ a_pc = "idle" /\ a_pc' = "idle" /\ quote' = GarbledQuote /\ pta' = "closed"
        /\ UNCHANGED <<ctx, a_used, pin, board, anchor, g_ctx, completed, attested>>
    BY Zenon DEF ra_quote_dispose, Calls, Return
  <1>2. AttesterTypeOK'
    BY <1>1, ZenonT(30) DEF AttesterInv, AttesterTypeOK, GarbledQuote, Quote, Quotes
  <1>3. AttesterPhase'
    BY Zenon, <1>1 DEF AttesterInv, AttesterPhase, InHandshake, Started, Answered, Pinned, Verified,
         Keyed, Maced, Sessioned
  <1>4. AttesterFresh' /\ AttesterKnowledge'
    BY Zenon, <1>1
       DEF AttesterInv, AttesterFresh, AttesterKnowledge, QuoteKnown, GarbledQuote, Quote,
         InHandshake, Started, Answered, Pinned, Verified, Keyed, Maced, Sessioned
  <1> QED
    BY Zenon, <1>2, <1>3, <1>4 DEF AttesterInv

(* When the guest ends its session, nothing of the context is held any     *)
(* more.                                                                   *)
LEMMA Step_GuestExit ==
    AttesterInv /\ GuestExit => AttesterInv'
  <1> SUFFICES ASSUME AttesterInv, GuestExit PROVE AttesterInv'
    OBVIOUS
  <1>1. /\ a_pc' = "exit" /\ g_ctx' = "invalid"
        /\ ctx' = [ctx EXCEPT !.objs = {}, !.msg3 = "none"]
        /\ UNCHANGED <<a_used, pin, board, pta, anchor, quote, completed, attested>>
    BY Zenon DEF GuestExit
  <1>2. AttesterTypeOK'
    BY Zenon, <1>1 DEF AttesterInv, AttesterTypeOK
  <1>3. AttesterPhase' /\ AttesterFresh' /\ AttesterKnowledge'
    BY Zenon, <1>1 DEF AttesterInv, AttesterPhase, AttesterFresh, AttesterKnowledge, QuoteKnown,
         InHandshake, Started, Answered, Pinned, Verified, Keyed, Maced, Sessioned
  <1> QED
    BY Zenon, <1>2, <1>3 DEF AttesterInv

(***************************************************************************)
(* The network under the attester's steps.                                 *)
(***************************************************************************)

(* A message made of known terms keeps the stream to the verifier known.   *)
LEMMA SendUpKnown ==
    ASSUME NetworkInv, NEW m \in Known, SendUp(m),
           UNCHANGED <<h_buf, offered, attested, released, board>>
    PROVE  NetworkInv'
  <1>1. Known = Known' /\ Known \subseteq Messages
    BY ZenonT(60) DEF Known, MessageKnown, SignatureKnown, QuoteKnown, BodyKnown
  <1>2. up' \in Seq(Known)
    <2>1. up' \in {up, Append(up, m)}
      BY Zenon DEF SendUp
    <2>2. up \in Seq(Known)
      BY Zenon DEF NetworkInv, NetKnowledge
    <2> QED
      BY Zenon, <2>1, <2>2, AppendSeq
  <1>3. up' \in Seq(Messages)
    BY Zenon, <1>1, <1>2, SeqGrows
  <1> QED
    BY Zenon, <1>1, <1>2, <1>3 DEF NetworkInv, NetKnowledge, NetworkTypeOK, SendUp

(* Taking a message from the stream to the attester keeps the network      *)
(* known.                                                                  *)
LEMMA ReceiveKnown ==
    ASSUME NetworkInv, down # <<>>, down' = Tail(down),
           UNCHANGED <<conn, srv, up, h_buf, offered, attested, released, board>>
    PROVE  NetworkInv'
  <1>1. Known = Known' /\ Known \subseteq Messages
    BY ZenonT(60) DEF Known, MessageKnown, SignatureKnown, QuoteKnown, BodyKnown
  <1>2. down' \in Seq(Known)
    BY DEF NetworkInv, NetKnowledge
  <1>3. down' \in Seq(Messages)
    BY Zenon, <1>1, <1>2, SeqGrows
  <1> QED
    BY ZenonT(60), <1>1, <1>2, <1>3 DEF NetworkInv, NetKnowledge, NetworkTypeOK

(* Whatever the attester does, both streams and the host's buffer stay     *)
(* known.                                                                  *)
LEMMA AttesterKeepsNetwork ==
    ASSUME AttesterInv, NetworkInv, HistoryInv, AttNext, UNCHANGED <<taVars, hostVars>>
    PROVE  NetworkInv'
  <1>1. UNCHANGED <<h_buf, offered, released>>
    BY Zenon DEF taVars, hostVars
  <1>2. CASE establish_tcp_connection
    <2>1. UNCHANGED <<attested, board>>
      BY Zenon, <1>2 DEF establish_tcp_connection, quoteVars
    <2>2. CASE UNCHANGED tcpVars
      BY Zenon, <1>1, <2>1, <2>2, NetworkFrame
    <2>3. CASE Connect
      <3>1. Known = Known'
        BY <1>1, <2>1 DEF Known, MessageKnown, SignatureKnown, QuoteKnown, BodyKnown
      <3>2. up' \in {up, <<>>} /\ down' \in {down, <<>>}
        BY Zenon, <2>3 DEF Connect
      <3>3. up' \in Seq(Known) /\ down' \in Seq(Known)
        BY <3>2, EmptySeq, Zenon DEF NetworkInv, NetKnowledge
      <3>4. up' \in Seq(Messages) /\ down' \in Seq(Messages)
        BY <3>2, EmptySeq, Zenon DEF NetworkInv, NetworkTypeOK
      <3>5. conn' \in {"live", "backlog"} /\ srv' = "busy"
        BY Zenon, <2>3 DEF Connect
      <3> QED
        BY ZenonT(60), <1>1, <3>1, <3>3, <3>4, <3>5 DEF NetworkInv, NetKnowledge, NetworkTypeOK
    <2> QED
      BY Zenon, <1>2, <2>2, <2>3 DEF establish_tcp_connection
  <1>3. CASE send_msg0
    <2>1. UNCHANGED <<attested, board>>
      BY Zenon, <1>3 DEF send_msg0, quoteVars
    <2>2. CASE UNCHANGED tcpVars
      BY Zenon, <1>1, <2>1, <2>2, NetworkFrame
    <2>3. CASE Runs("send_msg0", "receive_msg1") /\ SendUp(Msg0(ctx.ga))
      <3>1. ctx.ga \in AttesterKeys
        BY Zenon, <2>3 DEF Runs, AttesterInv, AttesterPhase, Started
      <3>2. Msg0(ctx.ga) \in Known
        BY Zenon, <3>1 DEF Known, MessageKnown, Messages, Msg0, Msg0s, AnyGa
      <3> QED
        BY Zenon, <1>1, <2>1, <2>3, <3>2, SendUpKnown
    <2> QED
      BY Zenon, <1>3, <2>2, <2>3 DEF send_msg0
  <1>4. CASE receive_msg1
    <2>1. UNCHANGED <<attested, board>>
      BY Zenon, <1>4 DEF receive_msg1, quoteVars
    <2>2. CASE UNCHANGED tcpVars
      BY Zenon, <1>1, <2>1, <2>2, NetworkFrame
    <2> QED
      BY Zenon, <1>1, <1>4, <2>1, <2>2, ReceiveKnown DEF receive_msg1, HasData
  <1>5. CASE ra_net_send_quote
    <2>1. UNCHANGED <<attested, board>>
      BY Zenon, <1>5 DEF ra_net_send_quote, quoteVars
    <2>2. CASE UNCHANGED tcpVars
      BY Zenon, <1>1, <2>1, <2>2, NetworkFrame
    <2> QED
      BY Zenon, <1>1, <1>5, <2>1, <2>2, SendUpKnown, Step_ra_net_send_quote DEF ra_net_send_quote
  <1>6. CASE receive_msg3
    <2>1. UNCHANGED <<attested, board, conn, srv, up>>
      BY Zenon, <1>6 DEF receive_msg3
    <2>2. CASE UNCHANGED down
      BY Zenon, <1>1, <2>1, <2>2, NetworkFrame DEF tcpVars
    <2> QED
      BY Zenon, <1>1, <1>6, <2>1, <2>2, ReceiveKnown DEF receive_msg3, HasData
  <1>7. CASE ra_net_dispose \/ GuestExit
    <2>1. conn' = "none" /\ UNCHANGED <<attested, board, srv, up, down>>
      BY ZenonT(60), <1>7 DEF ra_net_dispose, GuestExit, quoteVars
    <2>2. Known = Known'
      BY ZenonT(30), <1>1, <2>1 DEF Known, MessageKnown, SignatureKnown, QuoteKnown, BodyKnown
    <2> QED
      BY Zenon, <1>1, <2>1, <2>2 DEF NetworkInv, NetKnowledge, NetworkTypeOK
  <1>8. CASE ra_quote_collect
    <2>1. attested \subseteq attested' /\ UNCHANGED <<board, tcpVars>>
      BY Zenon, <1>8 DEF ra_quote_collect
    <2> QED
      BY Zenon, <1>1, <2>1, NetworkFrame
  <1>9. CASE UNCHANGED <<attested, board, tcpVars>>
    BY Zenon, <1>1, <1>9, NetworkFrame
  <1> QED
    BY Zenon, <1>2, <1>3, <1>4, <1>5, <1>6, <1>7, <1>8, <1>9
       DEF AttNext, Handshake, ra_net_handshake, generate_ecdh_keypair,
           verify_service_public_key, import_verifier_attestation_key,
           verify_ecdh_public_key_signature, derive_shared_key, derive_shared_mac_key,
           verify_msg1_mac, generate_anchor, InvalidHandle, ra_net_receive_data,
           ra_quote_dispose, quoteVars

(* A step of the attester, put together.                                   *)
LEMMA AttesterPreserves ==
    ASSUME IInv, AttesterStep
    PROVE  IInv' /\ (UNCHANGED Abs!absVars \/ Abs!AbsNext)
  <1> USE DEF IInv
  <1>1. AttNext /\ UNCHANGED <<taVars, hostVars>> /\ UNCHANGED <<taVars>> /\ UNCHANGED offered
    BY Zenon DEF AttesterStep, taVars
  <1>2. VerifierInv' /\ NetworkInv'
    BY Zenon, <1>1, VerifierFrame, AttesterKeepsNetwork
  <1>3. CASE generate_anchor
    BY Zenon, <1>1, <1>2, <1>3, Step_generate_anchor DEF Abs!AbsNext
  <1>4. CASE ra_quote_collect
    BY Zenon, <1>1, <1>2, <1>4, Step_ra_quote_collect DEF Abs!AbsNext
  <1>5. CASE receive_msg3
    <2>1. AttesterInv' /\ HistoryInv'
      BY Zenon, <1>1, <1>5, Step_receive_msg3
    <2>2. \/ UNCHANGED Abs!absVars
          \/ \E a \in AttesterKeys, v \in VerifierKeys, d \in Secrets : Abs!Deliver(a, v, d)
      BY Zenon, <1>1, <1>5, Step_receive_msg3
    <2> QED
      BY Zenon, <1>2, <2>1, <2>2 DEF Abs!AbsNext
  <1>6. CASE ~generate_anchor /\ ~ra_quote_collect /\ ~receive_msg3
    <2>1. UNCHANGED <<pin, board, completed, attested, delivered>>
      BY Zenon, <1>1, <1>6
         DEF AttNext, Handshake, ra_net_handshake, generate_ecdh_keypair,
             establish_tcp_connection, send_msg0, receive_msg1, verify_service_public_key,
             import_verifier_attestation_key, verify_ecdh_public_key_signature,
             derive_shared_key, derive_shared_mac_key, verify_msg1_mac, InvalidHandle,
             ra_net_send_quote, ra_net_receive_data, ra_net_dispose, ra_quote_dispose,
             GuestExit, quoteVars
    <2>2. HistoryInv' /\ UNCHANGED Abs!absVars
      BY Zenon, <1>1, <2>1, HistoryFrame DEF historyVars, taVars, Abs!absVars
    <2>3. AttesterInv'
      BY Zenon, <1>1, <1>6, Step_ra_net_handshake, Step_generate_ecdh_keypair,
         Step_establish_tcp_connection, Step_send_msg0, Step_receive_msg1,
         Step_verify_service_public_key, Step_import_verifier_attestation_key,
         Step_verify_ecdh_public_key_signature, Step_derive_shared_key,
         Step_derive_shared_mac_key, Step_verify_msg1_mac, Step_InvalidHandle,
         Step_ra_net_send_quote, Step_ra_net_receive_data, Step_ra_net_dispose,
         Step_ra_quote_dispose, Step_GuestExit
         DEF AttNext, Handshake
    <2> QED
      BY Zenon, <1>2, <2>2, <2>3
  <1> QED
    BY Zenon, <1>3, <1>4, <1>5, <1>6

=============================================================================
