CONSTANTS
    s1 = s1
    s2 = s2
    Txs <- SomeTxs
    Lists <- EveryList
    Limits <- SomeLimits
    MaxKey = 4
    MaxLimit = 2
    Ann = Ann
    Eth = Eth
    Gold = Gold
    Silver = Silver
    Tab1 = Tab1
    Tab2 = Tab2
    Native = Eth
    Recipients <- People
    Assets <- Coins
    Clienteles <- TabsOfAnn
    Delays <- OneOrTwo
    MaxBatches = 2
    MaxBatch = 1
    MaxLifetime = 1
    MaxSlot = 3
    MaxDelayChanges = 1
    Limit = 1
SPECIFICATION FairSpec
INVARIANTS
    WalkIsExact
    ClaimableIsAccepted
PROPERTIES
    EveryWithdrawalIsPaid
CHECK_DEADLOCK FALSE
