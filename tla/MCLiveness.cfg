SPECIFICATION FairSpec
CONSTANTS
    r1 = r1
    r2 = r2
    Owners = {seq1}
    Bridge = bridge
    NoOwner = nobody
    MaxJobs = 2
    MaxReservations = 2
    Replicas = {r1}
    NoReplica = none
    RequireApproval = FALSE
    LossyNetwork = FALSE
    MaxFaults = 1
PROPERTIES
    EveryJobEnds
CHECK_DEADLOCK FALSE
