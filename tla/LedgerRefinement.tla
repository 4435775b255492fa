-------------------------- MODULE LedgerRefinement --------------------------
(* The contracts implement EscrowLedger: what of their state is the ledger. *)
EXTENDS ZekoContracts

\* The deposit accumulator without its nonces.
LedgerDeposits ==
    [i \in DOMAIN currentDepositState |->
        [token |-> currentDepositState[i].token, amount |-> currentDepositState[i].amount]]

\* Claims name the global index of what they paid.
LedgerPaid == {claims[i].index - InitialInnerLength + 1 : i \in DOMAIN claims}

Ledger == INSTANCE EscrowLedger WITH
    deposited <- LedgerDeposits,
    credited <- bridgedDepositNonce,
    requested <- outerState.innerActionState,
    paid <- LedgerPaid

\* Every transaction of the three contracts is a step of the ledger or leaves
\* it alone, whatever stale or mislabelled receipts the provers submit:
\* deposits reach the L2 in order and together, the L2's requests are covered
\* by credited deposits, and a claim pays one request that was not paid.
ImplementsLedger == Ledger!Spec

=============================================================================
