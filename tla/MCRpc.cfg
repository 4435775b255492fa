SPECIFICATION FairSpec
CONSTANTS
    Callers = {c1, c2}
    MaxConcurrent = 1
    MaxRetries = 2
    InitialBackoff = 1
    MaxBackoff = 2
    OperationTimeout = 3
    RetryHints = {0, 3}
    HintCap = 2
    MaxCost = 2
INVARIANTS
    PermitsConserved
    PostedAtMost
PROPERTIES
    EveryCallReturns
