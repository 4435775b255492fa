----------------------------- MODULE MCReplicas -----------------------------
(* Small instances of the indexers on one database.                        *)
EXTENDS IndexerReplicas, TLC

CONSTANTS A, B

\* Two replicas and a reorganization; one of them, with room for two.
TwoAndOne ==
    {[indexers |-> {A, B}, maxBlocks |-> 3, maxReorgs |-> 1],
     [indexers |-> {A}, maxBlocks |-> 5, maxReorgs |-> 2]}

\* Which of the two runs alone makes no difference.
ReplicaSymmetry == Permutations({A, B})

=============================================================================
