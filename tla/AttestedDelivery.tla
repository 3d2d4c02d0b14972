-------------------------- MODULE AttestedDelivery --------------------------
(***************************************************************************)
(* What WaTZ's remote attestation promises, with no message in sight.      *)
(*                                                                         *)
(* An exchange is a pair of fresh keys, one of the attester and one of the *)
(* verifier.  It goes through six stages, never skipping one: the verifier *)
(* offers it under its identity key, the attester completes the handshake, *)
(* the board attests it, the verifier accepts the quote, the verifier      *)
(* releases the secret, the attester delivers it to the guest.  A key of   *)
(* either side completes at most one exchange.                             *)
(***************************************************************************)
CONSTANTS AKeys, VKeys, SKeys, Blobs, Unknown

VARIABLES offered, completed, attested, accepted, released, delivered

absVars == <<offered, completed, attested, accepted, released, delivered>>

AbsInit ==
    /\ offered = {} /\ completed = {} /\ attested = {} /\ accepted = {}
    /\ released = {} /\ delivered = {}

(* A verifier uses its key for one exchange only; it cannot know whether   *)
(* the key it was sent is an attester's.                                   *)
Offer(a, v, s) ==
    /\ \A o \in offered : o.ex[2] # v
    /\ offered' = offered \cup {[ex |-> <<a, v>>, key |-> s]}
    /\ UNCHANGED <<completed, attested, accepted, released, delivered>>

Complete(a, v) ==
    /\ \E o \in offered : o.ex = <<a, v>>
    /\ \A e \in completed : e[1] # a /\ e[2] # v
    /\ completed' = completed \cup {<<a, v>>}
    /\ UNCHANGED <<offered, attested, accepted, released, delivered>>

Attest(a, v) ==
    /\ <<a, v>> \in completed
    /\ attested' = attested \cup {<<a, v>>}
    /\ UNCHANGED <<offered, completed, accepted, released, delivered>>

Accept(a, v) ==
    /\ <<a, v>> \in attested
    /\ accepted' = accepted \cup {<<a, v>>}
    /\ UNCHANGED <<offered, completed, attested, released, delivered>>

(* One secret per exchange.                                                *)
Release(a, v, d) ==
    /\ <<a, v>> \in accepted
    /\ \A r \in released : r.ex # <<a, v>>
    /\ released' = released \cup {[ex |-> <<a, v>>, data |-> d]}
    /\ UNCHANGED <<offered, completed, attested, accepted, delivered>>

Deliver(a, v, d) ==
    /\ [ex |-> <<a, v>>, data |-> d] \in released
    /\ delivered' = delivered \cup {[ex |-> <<a, v>>, data |-> d]}
    /\ UNCHANGED <<offered, completed, attested, accepted, released>>

AbsNext ==
    \/ \E a \in AKeys \cup {Unknown}, v \in VKeys, s \in SKeys : Offer(a, v, s)
    \/ \E a \in AKeys, v \in VKeys :
          \/ Complete(a, v)
          \/ Attest(a, v)
          \/ Accept(a, v)
          \/ \E d \in Blobs : Release(a, v, d) \/ Deliver(a, v, d)

AbsSpec == AbsInit /\ [][AbsNext]_absVars
=============================================================================
