----------------------------- MODULE VerifierTa -----------------------------
(***************************************************************************)
(* The verifier's trusted application: the commands of                     *)
(* vedliot_verifier/ta/main.c over the context of ta/verifier.c.           *)
(*                                                                         *)
(* The functions of verifier.c are operators from context to context, the  *)
(* commands are actions with their result as a parameter.  A command stops *)
(* at the first function that fails and keeps the changes of the functions *)
(* before it.                                                              *)
(***************************************************************************)
EXTENDS RaMessages

VARIABLES
    vctx,       \* context_singleton, of the instance that serves the session
    v_used,     \* ECDH key pairs generated so far, by all instances
    s_used,     \* ECDSA key pairs generated so far, by all instances
    offered,    \* history: exchanges signed by a verifier, with its key
    accepted,   \* history: exchanges whose quote was found valid
    released    \* history: secrets encrypted, with the exchange of the key

taVars == <<vctx, v_used, s_used, offered, accepted, released>>

VObjects == {"ecdsa_attester", "ecdh_attester", "ecdsa_local", "ecdh_local",
             "kdk", "mac", "session"}

(* A static variable of a new instance is zero.                            *)
context_singleton ==
    [key |-> None, secret |-> None, ga |-> None, gv |-> None, kdk |-> None,
     mac |-> None, session |-> None, sig |-> None, valid |-> FALSE, objs |-> {}]

TaInit ==
    /\ vctx = context_singleton /\ v_used = {} /\ s_used = {}
    /\ offered = {} /\ accepted = {} /\ released = {}

(***************************************************************************)
(* The session.                                                            *)
(***************************************************************************)
import_attester_attestation_key(c) == [c EXCEPT !.objs = @ \cup {"ecdsa_attester"}]
generate_ecdsa_keypair(c, k) == [c EXCEPT !.key = k, !.objs = @ \cup {"ecdsa_local"}]

TA_OpenSession(k) ==
    generate_ecdsa_keypair(import_attester_attestation_key(context_singleton), k)

TA_ConfigureCustomSecret(c, secret) == [c EXCEPT !.secret = secret]

(* Mutant: the public key of the attester is forgotten.                    *)
dispose_ra_context_partial(c) ==
    [c EXCEPT !.objs = @ \ (VObjects \ {"ecdh_attester"}), !.secret = None]

dispose_ra_context(c) == [c EXCEPT !.objs = @ \ VObjects, !.secret = None]

(* The instance ends with its session; objs is what dispose_ra_context has *)
(* left for the TEE to reclaim.                                            *)
TA_CloseSession ==
    /\ vctx' = [context_singleton EXCEPT !.objs = dispose_ra_context(vctx).objs]
    /\ UNCHANGED <<v_used, s_used, offered, accepted, released>>

(***************************************************************************)
(* COMMAND_HANDLE_MSG0.                                                    *)
(***************************************************************************)
verifier_generate_ecdh_keypair(c, k) == [c EXCEPT !.gv = k, !.objs = @ \cup {"ecdh_local"}]

store_msg0(c, buffer) == [c EXCEPT !.ga = AsMsg0(buffer).ga]
populate_attester_key(c) == [c EXCEPT !.objs = @ \cup {"ecdh_attester"}]
verifier_derive_shared_key(c) ==
    [c EXCEPT !.kdk = Exchange(c.ga, c.gv), !.objs = @ \cup {"kdk"}]
derive_mac_key(c) == [c EXCEPT !.mac = DerivedKey("SMK", c.kdk), !.objs = @ \cup {"mac"}]
derive_session_key(c) ==
    [c EXCEPT !.session = DerivedKey("SK", c.kdk), !.objs = @ \cup {"session"}]

(* Mutant: the key pair is one that was generated before.                  *)
handle_msg0_again(buffer, size, ok) ==
    \E k \in VerifierKeys :
        /\ vctx' = derive_session_key(derive_mac_key(verifier_derive_shared_key(
                        populate_attester_key(store_msg0(
                            verifier_generate_ecdh_keypair(vctx, k), buffer)))))
        /\ ok /\ size >= SizeofMsg0
        /\ UNCHANGED <<v_used, s_used, offered, accepted, released>>

handle_msg0(buffer, size, ok) ==
    \E k \in VerifierKeys \ v_used :
        LET c1 == verifier_generate_ecdh_keypair(vctx, k)
            c2 == store_msg0(c1, buffer)
            c3 == populate_attester_key(c2)
            c4 == verifier_derive_shared_key(c3)
            c5 == derive_mac_key(c4)
            c6 == derive_session_key(c5)
        IN  /\ v_used' = v_used \cup {k}
            /\ IF ok
               THEN size >= SizeofMsg0 /\ vctx' = c6
               ELSE vctx' \in {vctx, c1} \cup
                              (IF size < SizeofMsg0 THEN {} ELSE {c2, c3, c4, c5, c6})
            /\ UNCHANGED <<s_used, offered, accepted, released>>

(***************************************************************************)
(* COMMAND_PREPARE_MSG1.                                                   *)
(***************************************************************************)

(* Signs (Gv, Ga) with the key of this instance.                           *)
append_ecdh_public_keys_signature(c) == [c EXCEPT !.sig = Sign(c.key, <<c.gv, c.ga>>)]
append_mac(c) == MacTag(c.mac, <<c.gv, c.key, c.sig>>)

prepare_msg1(size, ok, out) ==
    LET c1 == append_ecdh_public_keys_signature(vctx)
    IN  /\ \/ /\ ok /\ size >= SizeofMsg1
              /\ vctx' = c1
              /\ out = Msg1(c1.gv, c1.key, c1.sig, append_mac(c1))
              /\ offered' = offered \cup {[ex |-> Exchange(c1.ga, c1.gv), key |-> c1.key]}
           \/ /\ ~ok /\ vctx' \in {vctx, c1} /\ out = Fragment
              /\ UNCHANGED offered
        /\ UNCHANGED <<v_used, s_used, accepted, released>>

(* Mutant: the signature of the quote is not verified.                     *)
verify_quote_signature_any(c, m) == TRUE
(***************************************************************************)
(* COMMAND_HANDLE_MSG2.                                                    *)
(***************************************************************************)
verify_mac_msg2(c, m) == m.mac = MacTag(c.mac, <<m.ga, m.quote>>)
verify_public_key_msg2_matches_msg0(c, m) == m.ga = c.ga
verify_quote_signature(c, m) == m.quote.by = ImxKey
verify_anchor(c, m) == m.quote.anchor = Exchange(c.ga, c.gv)

(* is_quote_valid is set by verify_quote_signature, before the anchor is   *)
(* looked at; the command reports it only together with its own success.   *)
handle_msg2(buffer, size, ok) ==
    LET m == AsMsg2(buffer)
        signed == /\ size >= SizeofMsg2
                  /\ verify_mac_msg2(vctx, m)
                  /\ verify_public_key_msg2_matches_msg0(vctx, m)
                  /\ verify_quote_signature(vctx, m)
    IN  /\ \/ /\ ok /\ signed /\ verify_anchor(vctx, m)
              /\ vctx' = [vctx EXCEPT !.valid = TRUE]
              /\ accepted' = accepted \cup {Exchange(vctx.ga, vctx.gv)}
           \/ /\ ~ok
              /\ \E valid \in IF signed THEN BOOLEAN ELSE {FALSE} :
                    vctx' = [vctx EXCEPT !.valid = valid]
              /\ UNCHANGED accepted
        /\ UNCHANGED <<v_used, s_used, offered, released>>

(***************************************************************************)
(* COMMAND_PREPARE_MSG3.  The session key encrypts the secret, whatever    *)
(* is_quote_valid says: the host asks for it only after a valid msg2.      *)
(***************************************************************************)
encrypt_msg3(c) == Msg3(c.session, c.secret)

prepare_msg3(size, ok, out) ==
    /\ \/ /\ ok /\ size >= SizeofMsg3
          /\ out = encrypt_msg3(vctx)
          /\ released' = released \cup {[ex |-> vctx.session.kdk, data |-> vctx.secret]}
       \/ ~ok /\ out = Fragment /\ UNCHANGED released
    /\ UNCHANGED <<vctx, v_used, s_used, offered, accepted>>
=============================================================================
