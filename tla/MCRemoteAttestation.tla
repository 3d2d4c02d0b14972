------------------------ MODULE MCRemoteAttestation -------------------------
(* Instances of RemoteAttestation for TLC: the symmetry of the keys.       *)
EXTENDS RemoteAttestation, TLC

KeySymmetry == Permutations(AttesterKeys) \cup Permutations(VerifierKeys)
=============================================================================
