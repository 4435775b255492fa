CONSTANTS
    Alice = Alice
    Bob = Bob
    Setups <- LivenessSetups
SPECIFICATION FairSpec
PROPERTIES
    DepositsAreProven
    BatchesAreServed
CHECK_DEADLOCK FALSE
