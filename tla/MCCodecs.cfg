CONSTANTS
    MaxActions = 2
    MaxCut = 1
    Depth = 3
    Recipients <- SomeRecipients
    Tokens <- SomeTokens
    Start = 3
    MaxBatch = 5
    MaxOld = 4
    Nibble = 4
    Ten = 10
    Base58 = 11
    Width = 2
    FieldOrder = 97
    MaxText <- Lengths
SPECIFICATION Spec
INVARIANTS
    ReceiptsAgree
    OnlyCommittedClaims
    ProofsAgree
    TextsAgree
CHECK_DEADLOCK FALSE
