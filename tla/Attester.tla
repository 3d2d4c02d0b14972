------------------------------ MODULE Attester ------------------------------
(***************************************************************************)
(* The attester: the remote attestation functions of the WaTZ trusted      *)
(* application (watz/ta/remote_attestation.c), called by a Wasm guest      *)
(* through the WASI-RA host functions (ra_wasi.h).                         *)
(*                                                                         *)
(* One action per function of the handshake, in the order ra_net_handshake *)
(* calls them, so that the verifier, the network and the guest's other     *)
(* calls interleave with every one of them.  Every call into the TEE may   *)
(* fail: a failed function returns at once and leaves behind what it had   *)
(* allocated.                                                              *)
(***************************************************************************)
EXTENDS TcpConnection

CONSTANT Guest      \* "checked": a guest that looks at every result, as the
                    \* message3-time benchmark; "any": calls in any order
CONSTANT Pins       \* service keys a guest may ask for; None: no key,
                    \* Garbled: a key of a wrong size

ASSUME GuestAssumption ==
    /\ Guest \in {"checked", "any"}
    /\ Pins \subseteq ServiceKeys \cup {None, Garbled}

VARIABLES
    a_pc,        \* the function that runs next, "idle" between guest calls
    ctx,         \* ra_context
    a_used,      \* ECDH key pairs generated so far
    pin,         \* the ecdsa_service_public_key argument of the handshake
    board,       \* the attestation key of the board the TA runs on
    pta,         \* attestation_session: "null", "open", "closed"
    anchor,      \* the guest's anchor buffer
    quote,       \* the runtime's ra_quote
    more,        \* the guest's data buffer is larger than the secret
    g_ctx,       \* the guest's context handle: "valid" or "invalid"
    g_quote,     \* the guest's quote handle, likewise
    g_next,      \* the next call of a "checked" guest
    completed,   \* history: exchanges for which the handshake succeeded
    attested,    \* history: exchanges whose anchor the board has signed
    delivered    \* history: data handed to the guest, with the exchange

attVars == <<a_pc, ctx, a_used, pin, board, pta, anchor, quote, more,
             g_ctx, g_quote, g_next, completed, attested, delivered>>
(* The variables that only the calls outside the handshake change.         *)
quoteVars == <<board, pta, quote, more, g_quote, attested, delivered>>

Objects == {"ecdh", "ecdsa", "kdk", "mac", "session"}

(* alloc_ra_context: TEE_MemFill(ctx, 0, sizeof(ra_context)).  The field   *)
(* msg3 tells whether the buffer of msg3 is allocated and msg3_size is     *)
(* positive ("held"), allocated while msg3_size is 0 ("empty"), or neither.*)
alloc_ra_context ==
    [ga |-> None, msg1 |-> None, kdk |-> None, mac |-> None, session |-> None,
     mac2 |-> None, msg3 |-> "none", objs |-> {}]

AttInit ==
    /\ a_pc = "idle" /\ ctx = alloc_ra_context /\ a_used = {}
    /\ pin \in Pins /\ board \in BoardKeys
    /\ pta = "null" /\ anchor = Garbled /\ quote = GarbledQuote
    /\ more = FALSE /\ g_ctx = "invalid" /\ g_quote = "invalid" /\ g_next = "handshake"
    /\ completed = {} /\ attested = {} /\ delivered = {}

(***************************************************************************)
(* The guest.                                                              *)
(***************************************************************************)
Calls(op) == a_pc = "idle" /\ (Guest = "checked" => g_next = op)

AfterSuccess == [handshake |-> "collect", collect |-> "send", send |-> "receive",
                 receive |-> "dispose", dispose |-> "dispose_quote",
                 dispose_quote |-> "exit"]

(* A call returns to the guest, which goes to its cleanup when it failed.  *)
Return(op, ok) ==
    /\ a_pc' = "idle"
    /\ g_next' = IF ok \/ op \in {"dispose", "dispose_quote"}
                 THEN AfterSuccess[op] ELSE "dispose"

HandleIsValid(op) ==
    CASE op = "send" -> g_ctx = "valid" /\ g_quote = "valid"
      [] op \in {"receive", "dispose"} -> g_ctx = "valid"
      [] op = "dispose_quote" -> g_quote = "valid"
      [] OTHER -> TRUE

(* INVALID_RA_CONTEXT_HANDLE, INVALID_QUOTE_HANDLE: the call has no effect.*)
InvalidHandle ==
    \E op \in DOMAIN AfterSuccess :
        /\ Guest = "checked" /\ Calls(op) /\ ~HandleIsValid(op)
        /\ Return(op, FALSE)
        /\ UNCHANGED <<ctx, a_used, pin, anchor, g_ctx, completed, quoteVars, tcpVars>>

(***************************************************************************)
(* The handshake.                                                          *)
(***************************************************************************)
Runs(f, next) == a_pc = f /\ a_pc' = next /\ UNCHANGED g_next

(* A function of the handshake fails, possibly after it allocated object o.*)
(* Nothing is released.                                                    *)
HandshakeFails(f, o) ==
    /\ a_pc = f /\ Return("handshake", FALSE)
    /\ ctx' \in {ctx, [ctx EXCEPT !.objs = @ \cup o]}

(* No guest of the repository shakes hands again after a failure that left *)
(* objects behind, or while it holds a context.                            *)
ra_net_handshake ==
    /\ Calls("handshake") /\ g_ctx = "invalid" /\ ctx.objs = {}
    /\ AttesterKeys \ a_used # {}
    /\ Runs("idle", "keygen")
    /\ ctx' = alloc_ra_context
    /\ UNCHANGED <<a_used, pin, anchor, g_ctx, completed, quoteVars, tcpVars>>

(* Mutant: a key pair that was generated before is used again.             *)
generate_ecdh_keypair_again ==
    /\ \E k \in AttesterKeys :
          /\ Runs("keygen", "connect")
          /\ ctx' = [ctx EXCEPT !.ga = k, !.objs = @ \cup {"ecdh"}]
          /\ a_used' = a_used \cup {k}
    /\ UNCHANGED <<pin, anchor, g_ctx, completed, quoteVars, tcpVars>>

generate_ecdh_keypair ==
    /\ \/ \E k \in AttesterKeys \ a_used :
            /\ Runs("keygen", "connect")
            /\ ctx' = [ctx EXCEPT !.ga = k, !.objs = @ \cup {"ecdh"}]
            /\ a_used' = a_used \cup {k}
       \/ HandshakeFails("keygen", {"ecdh"}) /\ UNCHANGED a_used
    /\ UNCHANGED <<pin, anchor, g_ctx, completed, quoteVars, tcpVars>>

establish_tcp_connection ==
    /\ \/ Runs("connect", "send_msg0") /\ Connect /\ UNCHANGED ctx
       \/ HandshakeFails("connect", {}) /\ UNCHANGED tcpVars
    /\ UNCHANGED <<a_used, pin, anchor, g_ctx, completed, quoteVars>>

send_msg0 ==
    /\ \/ Runs("send_msg0", "receive_msg1") /\ SendUp(Msg0(ctx.ga)) /\ UNCHANGED ctx
       \/ HandshakeFails("send_msg0", {}) /\ UNCHANGED tcpVars
    /\ UNCHANGED <<a_used, pin, anchor, g_ctx, completed, quoteVars>>

(* A message that ends early (size < sizeof(msg1_t)) fails, as does a      *)
(* receive error.  Without data and without a peer that is gone, it waits. *)
receive_msg1 ==
    /\ \/ /\ HasData /\ Head(down).type = "msg1"
          /\ Runs("receive_msg1", "verify_service_key")
          /\ ctx' = [ctx EXCEPT !.msg1 = Head(down)]
          /\ down' = Tail(down) /\ UNCHANGED <<conn, srv, up>>
       \/ (HasData \/ PeerGone) /\ HandshakeFails("receive_msg1", {}) /\ UNCHANGED tcpVars
    /\ UNCHANGED <<a_used, pin, anchor, g_ctx, completed, quoteVars>>

(* Mutant: a key is asked for and not compared.                            *)
PinMatches_any(m) == pin # Garbled

(* No key to compare with when both sizes are 0 (None); a key of another   *)
(* size (Garbled) is never equal.                                          *)
PinMatches(m) == pin = None \/ (pin # Garbled /\ m.key = pin)
verify_service_public_key ==
    /\ \/ Runs("verify_service_key", "import_key") /\ PinMatches(ctx.msg1) /\ UNCHANGED ctx
       \/ HandshakeFails("verify_service_key", {}) /\ ~PinMatches(ctx.msg1)
    /\ UNCHANGED <<a_used, pin, anchor, g_ctx, completed, quoteVars, tcpVars>>

import_verifier_attestation_key ==
    /\ \/ /\ Runs("import_key", "verify_signature")
          /\ ctx' = [ctx EXCEPT !.objs = @ \cup {"ecdsa"}]
       \/ HandshakeFails("import_key", {"ecdsa"})
    /\ UNCHANGED <<a_used, pin, anchor, g_ctx, completed, quoteVars, tcpVars>>

(* The signature of the verifier covers the hash of (Gv, Ga).              *)
SignatureMatches(c) == c.msg1.sig = Sign(c.msg1.key, <<c.msg1.gv, c.ga>>)
verify_ecdh_public_key_signature ==
    /\ \/ Runs("verify_signature", "derive_kdk") /\ SignatureMatches(ctx) /\ UNCHANGED ctx
       \/ HandshakeFails("verify_signature", {})
    /\ UNCHANGED <<a_used, pin, anchor, g_ctx, completed, quoteVars, tcpVars>>

derive_shared_key ==
    /\ \/ /\ Runs("derive_kdk", "derive_mac_key")
          /\ ctx' = [ctx EXCEPT !.kdk = Exchange(ctx.ga, ctx.msg1.gv),
                                !.objs = @ \cup {"kdk"}]
       \/ HandshakeFails("derive_kdk", {"kdk"})
    /\ UNCHANGED <<a_used, pin, anchor, g_ctx, completed, quoteVars, tcpVars>>

(* Called twice: for the MAC key, then for the session key.                *)
derive_shared_mac_key ==
    /\ \/ /\ Runs("derive_mac_key", "derive_session_key")
          /\ ctx' = [ctx EXCEPT !.mac = DerivedKey("SMK", ctx.kdk),
                                !.objs = @ \cup {"mac"}]
       \/ /\ Runs("derive_session_key", "verify_mac")
          /\ ctx' = [ctx EXCEPT !.session = DerivedKey("SK", ctx.kdk),
                                !.objs = @ \cup {"session"}]
       \/ HandshakeFails("derive_mac_key", {"mac"})
       \/ HandshakeFails("derive_session_key", {"session"})
    /\ UNCHANGED <<a_used, pin, anchor, g_ctx, completed, quoteVars, tcpVars>>

Mac1Matches(c) == c.msg1.mac = MacTag(c.mac, <<c.msg1.gv, c.msg1.key, c.msg1.sig>>)
verify_msg1_mac ==
    /\ \/ Runs("verify_mac", "anchor") /\ Mac1Matches(ctx) /\ UNCHANGED ctx
       \/ HandshakeFails("verify_mac", {})
    /\ UNCHANGED <<a_used, pin, anchor, g_ctx, completed, quoteVars, tcpVars>>

(* The last step: the handshake succeeds and the guest gets its handle.    *)
generate_anchor ==
    /\ \/ /\ a_pc = "anchor" /\ Return("handshake", TRUE)
          /\ anchor' = Exchange(ctx.ga, ctx.msg1.gv)
          /\ g_ctx' = "valid"
          /\ completed' = completed \cup {anchor'}
          /\ UNCHANGED ctx
       \/ HandshakeFails("anchor", {}) /\ UNCHANGED <<anchor, g_ctx, completed>>
    /\ UNCHANGED <<a_used, pin, quoteVars, tcpVars>>

Handshake ==
    \/ ra_net_handshake
    \/ generate_ecdh_keypair
    \/ establish_tcp_connection
    \/ send_msg0
    \/ receive_msg1
    \/ verify_service_public_key
    \/ import_verifier_attestation_key
    \/ verify_ecdh_public_key_signature
    \/ derive_shared_key
    \/ derive_shared_mac_key
    \/ verify_msg1_mac
    \/ generate_anchor

(***************************************************************************)
(* The calls of an established context, and the quotes.                    *)
(***************************************************************************)

(* The session with the attestation service is opened when the handle is   *)
(* null; the handle of a closed session is not null and is used as it is.  *)
ensure_attestation_service_up == pta' = IF pta = "null" THEN "open" ELSE pta

(* The attestation service signs the anchor it is given with the key of    *)
(* the board.                                                              *)
ra_quote_collect ==
    /\ Calls("collect") /\ g_quote = "invalid"
    /\ \/ /\ ensure_attestation_service_up /\ pta' = "open"
          /\ quote' = Quote(anchor, board)
          /\ g_quote' = "valid"
          /\ attested' = attested \cup ({anchor} \ {Garbled})
          /\ Return("collect", TRUE)
       \/ /\ ensure_attestation_service_up \/ UNCHANGED pta
          /\ UNCHANGED <<quote, g_quote, attested>>
          /\ Return("collect", FALSE)
    /\ UNCHANGED <<ctx, a_used, pin, board, anchor, more, g_ctx, completed, delivered, tcpVars>>

(* prepare_msg2 reports success even when the MAC could not be computed:   *)
(* the message then carries whatever ctx->msg2.mac held before.            *)
prepare_msg2(c) ==
    {[c EXCEPT !.mac2 = tag] : tag \in {c.mac2, MacTag(c.mac, <<c.ga, quote>>)}}

ra_net_send_quote ==
    /\ Calls("send") /\ HandleIsValid("send")
    /\ ctx' \in prepare_msg2(ctx)
    /\ \/ SendUp(Msg2(ctx.ga, quote, ctx'.mac2)) /\ Return("send", TRUE)
       \/ UNCHANGED tcpVars /\ Return("send", FALSE)
    /\ UNCHANGED <<a_used, pin, anchor, g_ctx, completed, quoteVars>>

(* allocate_msg3, then the function waits in receive_msg3.                 *)
ra_net_receive_data ==
    /\ Calls("receive") /\ HandleIsValid("receive")
    /\ Runs("idle", "receive_msg3")
    /\ ctx' = [ctx EXCEPT !.msg3 = "held"]
    /\ more' \in BOOLEAN
    /\ UNCHANGED <<a_used, pin, board, pta, anchor, quote, g_ctx, g_quote, completed,
                   attested, delivered, tcpVars>>

(* decrypt_msg3: AES-GCM accepts a message encrypted under the session key *)
(* and nothing else.                                                       *)
decrypt_msg3(c, m) == m.body # Garbled /\ m.body.key = c.session
Plaintext(m) == IF m.body = Garbled THEN Garbled ELSE m.body.data

(* The chunks of msg3 are read until the buffer is full or the peer closes:*)
(* with a buffer larger than the message only the second ends the loop.    *)
(* msg3_size is then what was read, 0 included.  The decryption follows.   *)
receive_msg3 ==
    /\ a_pc = "receive_msg3"
    /\ \/ /\ HasData /\ (more => PeerGone) /\ Head(down).type = "msg3"
          /\ decrypt_msg3(ctx, Head(down))
          /\ delivered' = delivered \cup {[ex |-> ctx.kdk, data |-> Plaintext(Head(down))]}
          /\ Return("receive", TRUE)
          /\ down' = Tail(down) /\ UNCHANGED ctx
       \/ /\ HasData
          /\ Return("receive", FALSE)
          /\ down' = Tail(down) /\ UNCHANGED <<ctx, delivered>>
       \/ /\ ~HasData /\ PeerGone
          /\ Return("receive", FALSE)
          /\ ctx' \in {ctx, [ctx EXCEPT !.msg3 = "empty"]}
          /\ UNCHANGED <<down, delivered>>
    /\ UNCHANGED <<a_used, pin, board, pta, anchor, quote, more, g_ctx, g_quote,
                   completed, attested, conn, srv, up>>

(* Mutant: the session key is forgotten.                                   *)
free_ra_context_partial(c) ==
    [c EXCEPT !.objs = @ \ {"ecdh", "kdk", "mac", "ecdsa"},
              !.msg3 = IF @ = "held" THEN "none" ELSE @]

(* The five objects and the socket go; msg3 only when msg3_size > 0.       *)
free_ra_context(c) ==
    [c EXCEPT !.objs = @ \ Objects,
              !.msg3 = IF @ = "held" THEN "none" ELSE @]

ra_net_dispose ==
    /\ Calls("dispose") /\ HandleIsValid("dispose")
    /\ Return("dispose", TRUE)
    /\ ctx' = free_ra_context(ctx)
    /\ conn' = "none" /\ g_ctx' = "invalid"
    /\ UNCHANGED <<a_used, pin, anchor, completed, quoteVars, srv, up, down>>

(* The session is closed and the quote erased; the handle is not reset.    *)
ra_quote_dispose ==
    /\ Calls("dispose_quote") /\ HandleIsValid("dispose_quote")
    /\ Return("dispose_quote", TRUE)
    /\ pta' = "closed" /\ quote' = GarbledQuote /\ g_quote' = "invalid"
    /\ UNCHANGED <<ctx, a_used, pin, board, anchor, more, g_ctx, completed, attested,
                   delivered, tcpVars>>

(* Mutant: the socket outlives the guest.                                  *)
GuestExit_keeps_socket ==
    /\ Calls("exit")
    /\ a_pc' = "exit"
    /\ ctx' = [ctx EXCEPT !.objs = {}, !.msg3 = "none"]
    /\ g_ctx' = "invalid" /\ g_quote' = "invalid"
    /\ UNCHANGED <<a_used, pin, board, pta, anchor, quote, more, g_next, completed,
                   attested, delivered, tcpVars>>

(* The guest ends, and with it the instance of the trusted application:    *)
(* the TEE releases its objects and closes its socket.                     *)
GuestExit ==
    /\ Calls("exit")
    /\ a_pc' = "exit" /\ conn' = "none"
    /\ ctx' = [ctx EXCEPT !.objs = {}, !.msg3 = "none"]
    /\ g_ctx' = "invalid" /\ g_quote' = "invalid"
    /\ UNCHANGED <<a_used, pin, board, pta, anchor, quote, more, g_next, completed,
                   attested, delivered, srv, up, down>>

AttNext ==
    \/ Handshake
    \/ InvalidHandle
    \/ ra_quote_collect
    \/ ra_net_send_quote
    \/ ra_net_receive_data
    \/ receive_msg3
    \/ ra_net_dispose
    \/ ra_quote_dispose
    \/ GuestExit
=============================================================================
