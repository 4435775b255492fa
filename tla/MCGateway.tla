------------------------------ MODULE MCGateway -----------------------------
(* Small instances of the gateway; the .cfg files give the bounds.         *)
EXTENDS ProofGateway

CONSTANTS r1, r2

ReplicaSymmetry == Permutations(Replicas)

=============================================================================
