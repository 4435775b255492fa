SPECIFICATION Spec
CONSTANTS
    r1 = r1
    r2 = r2
    Owners = {}
    Bridge = bridge
    NoOwner = nobody
    MaxJobs = 1
    MaxReservations = 1
    Replicas = {r1, r2}
    NoReplica = none
    RequireApproval = TRUE
    LossyNetwork = TRUE
    MaxFaults = 3
INVARIANTS
    OnePurchase
    OneTransaction
    NothingSignedIsDropped
SYMMETRY ReplicaSymmetry
CHECK_DEADLOCK FALSE
