SPECIFICATION Spec
CONSTANTS
    w1 = w1
    w2 = w2
    Native = eth
    Gwei = 2
    MaxUint64 = 10
    VkHashes = {vk1}
    InitialVkHash = vk1
    Addresses = {bridge1}
    NoAddress = none
    InitialLength = 1
    InitialInnerLength = 1
    MaxUint32 = 9
    AssetRegistryCapacity = 1
    GenesisTimestamp = 0
    SlotDuration = 1
    ForkSlot = 0
    Tokens = {}
    Recipients = {w1, w2}
    ThisBridge = bridge1
    NoRecord = none
    InitialWithdrawalDelay = 1
    Identities = {}
    InventoryCaps = {}
    DepositValues = {1, 2, 4}
    WithdrawalAmounts = {1}
    Versions = {1, 2}
    SlotRanges <- TwoRanges
    AdminOperations = {}
    Delays = {0, 1}
    MaxDeposits = 2
    MaxSettlements = 2
    MaxBatch = 1
    MaxTimestamp = 2
    MaxBalance = 6
INVARIANTS
    CheckpointsArePrefixes
    DepositsBridgedOnce
    BatchesMatchInnerLog
    ClaimedOnce
    WithdrawalsCovered
PROPERTIES
    HistoryOnlyGrows
    DelayRunsFromAcceptance
SYMMETRY RecipientSymmetry
CHECK_DEADLOCK FALSE
