----------------------------- MODULE RaMessages -----------------------------
(***************************************************************************)
(* The data of the WaTZ remote attestation protocol, shared by the         *)
(* attester (watz/ta/remote_attestation.c) and by the verifier             *)
(* (vedliot_verifier/ta/verifier.c): keys, tags, signatures, quotes and    *)
(* the four messages.                                                      *)
(*                                                                         *)
(* Cryptography is symbolic.  A key pair is named by its public value, a   *)
(* tag or a signature is the record of the key it was made with and of     *)
(* what it covers, and verifying one is comparing it with the record the   *)
(* verifying side recomputes.  Garbled stands for bytes that are not what  *)
(* a peer sent: a field damaged on the way, the missing end of a short     *)
(* read, or memory that was never written.                                 *)
(***************************************************************************)
EXTENDS Naturals, Sequences

CONSTANTS
    AttesterKeys,   \* ECDH key pairs the attester can generate (Ga)
    VerifierKeys,   \* ECDH key pairs the verifier can generate (Gv)
    ServiceKeys,    \* ECDSA key pairs the verifier can generate
    BoardKeys,      \* attestation keys of the boards
    ImxKey,         \* RA_IMX_TEST_PUBLIC_KEY, the key the verifier trusts
    Secrets,        \* blobs the verifier can be given to provision
    Garbled,        \* bytes nobody sent
    None            \* a NULL handle, an empty field

ASSUME KeysAssumption ==
    /\ AttesterKeys \cap VerifierKeys = {}
    /\ ImxKey \in BoardKeys
    /\ {Garbled, None} \cap (AttesterKeys \cup VerifierKeys \cup ServiceKeys
                               \cup BoardKeys \cup Secrets) = {}
    /\ Garbled # None

(***************************************************************************)
(* An exchange is the pair of ECDH public values (Ga, Gv) that one side    *)
(* works with.  The x-coordinate of G_av, hence the KDK, is a function of  *)
(* the pair that both sides can compute, and so is the anchor, the hash of *)
(* (Ga, Gv): the pair stands for all three.                                *)
(***************************************************************************)
Exchange(ga, gv) == <<ga, gv>>

(* AES-CMAC(KDK, label) for the labels RA_SHARED_MAC_DATA "SMK" and        *)
(* RA_SHARED_SESSION_DATA "SK".                                            *)
DerivedKey(label, kdk) == [label |-> label, kdk |-> kdk]

MacTag(key, over) == [key |-> key, over |-> over]
Sign(key, over) == [by |-> key, over |-> over]

(* A quote of the attestation service: the anchor it was asked to bind and *)
(* the board that signed it.                                               *)
Quote(anchor, board) == [anchor |-> anchor, by |-> board]
GarbledQuote == Quote(Garbled, Garbled)

Msg0(ga) == [type |-> "msg0", ga |-> ga]
Msg1(gv, key, sig, mac) ==
    [type |-> "msg1", gv |-> gv, key |-> key, sig |-> sig, mac |-> mac]
Msg2(ga, quote, mac) ==
    [type |-> "msg2", ga |-> ga, quote |-> quote, mac |-> mac]
Msg3(key, data) == [type |-> "msg3", body |-> [key |-> key, data |-> data]]

(* Bytes that are no message: a zeroed buffer, a piece of a message.       *)
Fragment == [type |-> "bytes"]

(* What a buffer holds when it is parsed as a msg0, as a msg2.             *)
AsMsg0(buffer) == IF buffer.type = "msg0" THEN buffer ELSE Msg0(Garbled)
AsMsg2(buffer) ==
    IF buffer.type = "msg2" THEN buffer ELSE Msg2(Garbled, GarbledQuote, Garbled)

(* The forms a message can take when one of its fields is damaged.         *)
Damaged(m) ==
    {[m EXCEPT ![f] = IF f = "quote" THEN GarbledQuote ELSE Garbled] :
        f \in DOMAIN m \ {"type"}}

(***************************************************************************)
(* The sets these terms range over.                                        *)
(***************************************************************************)
AnyGa == AttesterKeys \cup {Garbled}
AnyGv == VerifierKeys \cup {Garbled}
Exchanges == AnyGa \X AnyGv

Derived(label) == [label : {label}, kdk : Exchanges]
Signatures == [by : ServiceKeys \cup {Garbled}, over : AnyGv \X AnyGa]
Quotes == [anchor : Exchanges \cup {Garbled}, by : BoardKeys \cup {Garbled}]
Tags == [key : Derived("SMK"),
         over : (AnyGv \X ServiceKeys \X Signatures) \cup (AnyGa \X Quotes)]

Msg0s == [type : {"msg0"}, ga : AnyGa]
Msg1s == [type : {"msg1"}, gv : AnyGv, key : ServiceKeys \cup {Garbled},
          sig : Signatures \cup {Garbled}, mac : Tags \cup {Garbled}]
Msg2s == [type : {"msg2"}, ga : AnyGa, quote : Quotes, mac : Tags \cup {Garbled, None}]
Msg3s == [type : {"msg3"}, body : [key : Derived("SK"), data : Secrets] \cup {Garbled}]
Messages == Msg0s \cup Msg1s \cup Msg2s \cup Msg3s \cup {Fragment}
Deliveries == [ex : Exchanges, data : Secrets]

(* Bytes nobody sent are no signature and no hash of two keys.             *)
ASSUME TermsAssumption == Garbled \notin Signatures /\ Garbled \notin Exchanges

(* sizeof of the messages in a 64-bit build (verifier.h); the size of      *)
(* ra_quote comes from attestation.h, which is not part of the repository. *)
SizeofQuote == 196
SizeofMsg0 == 80
SizeofMsg1 == 240
SizeofMsg2 == 80 + SizeofQuote + 16 + 4
SizeofMsg3 == 56
CiphertextOverhead == 16
=============================================================================
