SPECIFICATION Spec
CONSTANTS
    w1 = w1
    w2 = w2
    Native = eth
    Gwei = 2
    MaxUint64 = 10
    VkHashes = {vk1, vk2}
    InitialVkHash = vk1
    Addresses = {bridge1, bridge2}
    NoAddress = none
    InitialLength = 1
    InitialInnerLength = 1
    MaxUint32 = 9
    AssetRegistryCapacity = 2
    GenesisTimestamp = 0
    SlotDuration = 1
    ForkSlot = 0
    Tokens = {t1, t2}
    Recipients = {w1}
    ThisBridge = bridge1
    NoRecord = none
    InitialWithdrawalDelay = 0
    Identities = {i1, i2}
    InventoryCaps = {2}
    DepositValues = {1}
    WithdrawalAmounts = {1}
    Versions = {3, 4}
    SlotRanges <- OneRange
    AdminOperations = {}
    Delays = {0}
    MaxDeposits = 1
    MaxSettlements = 2
    MaxBatch = 0
    MaxTimestamp = 0
    MaxBalance = 0
INVARIANTS
    RegistryConsistent
    ActivatedRecordsSettled
SYMMETRY AssetSymmetry
CHECK_DEADLOCK FALSE
