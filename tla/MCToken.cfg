SPECIFICATION Spec
CONSTANTS
    w1 = w1
    w2 = w2
    Native = eth
    Gwei = 2
    MaxUint64 = 10
    VkHashes = {vk1}
    InitialVkHash = vk1
    Addresses = {bridge1}
    NoAddress = none
    InitialLength = 1
    InitialInnerLength = 1
    MaxUint32 = 9
    AssetRegistryCapacity = 1
    GenesisTimestamp = 0
    SlotDuration = 1
    ForkSlot = 0
    Tokens = {t1}
    Recipients = {w1, w2}
    ThisBridge = bridge1
    NoRecord = none
    InitialWithdrawalDelay = 0
    Identities = {i1}
    InventoryCaps = {2}
    DepositValues = {1}
    WithdrawalAmounts = {1}
    Versions = {2, 3}
    SlotRanges <- OneRange
    AdminOperations = {"pause", "emergency"}
    Delays = {0}
    MaxDeposits = 2
    MaxSettlements = 3
    MaxBatch = 1
    MaxTimestamp = 0
    MaxBalance = 2
INVARIANTS
    TypeOK
    ClaimsMatchInnerLog
    EscrowBacked
PROPERTIES
    ImplementsLedger
SYMMETRY RecipientSymmetry
CHECK_DEADLOCK FALSE
