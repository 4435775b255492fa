------------------------------ MODULE MCTables ------------------------------
(***************************************************************************)
(* Instances of GatewayTables for TLC.                                     *)
(***************************************************************************)
EXTENDS GatewayTables, TLC

CONSTANTS Alice, Bob

\* One depositor and a quiet chain in finalized mode.
Quiet ==
    [depositors |-> {Alice}, batchers |-> {}, maxBlocks |-> 2, maxDeposits |-> 1,
     maxReorgs |-> 0, staleProvider |-> FALSE, confirmations |-> 0,
     maxJobs |-> 2, maxSettlements |-> 0, maxInner |-> 0, maxLosses |-> 0]

\* Two deposits, which the loop and an operator batch through a reorganization.
TwoDeposits ==
    [Quiet EXCEPT !.depositors = {Alice, Bob}, !.batchers = {"loop", "operator"},
                  !.maxBlocks = 3, !.maxDeposits = 2, !.maxReorgs = 1]

\* A batch and a settlement in confirmation mode.
Confirming ==
    [Quiet EXCEPT !.batchers = {"loop"}, !.maxBlocks = 5, !.maxReorgs = 1,
                  !.confirmations = 1, !.maxSettlements = 1]

\* A batch and two settlements; the endpoint returns to a fork it had left.
StaleAnswers ==
    [Quiet EXCEPT !.batchers = {"loop"}, !.maxBlocks = 4, !.maxReorgs = 1,
                  !.staleProvider = TRUE, !.maxSettlements = 2]

\* A settlement with two inner actions, and a claim.
InnerActions ==
    [Quiet EXCEPT !.maxBlocks = 3, !.maxReorgs = 1, !.maxSettlements = 1,
                  !.maxInner = 2]

\* Two deposits in confirmation mode: a confirmed batch is opened again.
Reopened ==
    [Quiet EXCEPT !.batchers = {"loop"}, !.maxBlocks = 4, !.maxDeposits = 2,
                  !.maxReorgs = 1, !.confirmations = 1]

SafetySetups == {TwoDeposits, Confirming, StaleAnswers, InnerActions, Reopened}

\* A deposit whose batches may fail; a settlement and a lost database.
RetriedDeposit ==
    [Quiet EXCEPT !.batchers = {"loop", "operator"}, !.maxBlocks = 3]
LostDatabase ==
    [Quiet EXCEPT !.maxJobs = 1, !.maxSettlements = 1, !.maxInner = 1,
                  !.maxLosses = 1]

LivenessSetups == {RetriedDeposit, LostDatabase}

=============================================================================
