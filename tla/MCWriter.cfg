SPECIFICATION LoadSpec
CONSTANTS
    Owners = {1, 2}
    Bridge = 0
    NoOwner = 3
    MaxJobs = 2
    MaxReservations = 3
    Replicas = {r1}
    NoReplica = none
    RequireApproval = FALSE
    LossyNetwork = TRUE
    MaxFaults = 2
INVARIANTS
    SingleWriter
    CheckpointHeld
    PendingKept
    RecordsAreFinal
CHECK_DEADLOCK FALSE
