CONSTANTS
    A = A
    B = B
    Deployments <- TwoAndOne
SPECIFICATION Spec
INVARIANTS
    OutcomesAreFinal
    NothingIsLost
SYMMETRY ReplicaSymmetry
CHECK_DEADLOCK FALSE
