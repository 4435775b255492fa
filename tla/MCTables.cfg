CONSTANTS
    Alice = Alice
    Bob = Bob
    Setups <- SafetySetups
SPECIFICATION Spec
INVARIANTS
    OneBatchPerDeposit
    AccountIsTrue
    DepositStatusTrue
    RowsMatchChain
    ServedBatchAccepted
CHECK_DEADLOCK FALSE
