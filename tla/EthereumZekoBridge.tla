------------------------- MODULE EthereumZekoBridge -------------------------
(***************************************************************************)
(* contracts/src/EthereumZekoBridge.sol: custody of native ETH and of the  *)
(* registered ERC-20 tokens, the deposit accumulator, the submission of    *)
(* proved deposit batches to the settlement contract, and claims of        *)
(* withdrawals against settled inner-action roots.                         *)
(*                                                                         *)
(* Everything activateAssetRecordFromRegistry stores for a token (asset    *)
(* id, L2 owner, cap, index, commitment) is one record, canonicalRecord;   *)
(* canonicalTokenRegistered is canonicalRecord # NoRecord.                 *)
(***************************************************************************)
EXTENDS ZekoSettlement

CONSTANTS
    Tokens,                  \* ERC-20 contracts
    Recipients,              \* Ethereum recipients of withdrawals
    ThisBridge,              \* address(this)
    NoRecord,                \* the zero record
    InitialWithdrawalDelay   \* withdrawalDelaySlots after initialize (20)

Assets == Tokens \cup {Native}

VARIABLES
    depositNonce,
    currentDepositState,      \* the deposit accumulator: leaves in order
    depositStateByNonce,
    bridgedDepositNonce,
    processedActionState,
    allowedToken,             \* asset -> deposits admitted
    canonicalRecord,          \* token -> registry record, or NoRecord
    totalDepositedByToken,
    nativeEscrowLiability,
    escrowLiabilityByToken,
    nextWithdrawalIndex,      \* recipient -> first unclaimed global index
    nextTokenWithdrawalIndex, \* token -> recipient -> first unclaimed index
    withdrawalDelaySlots,
    paused,
    balance,                  \* what the asset contracts say the bridge owns
    claims                    \* history: one entry per accepted claim

bridgeVars ==
    <<depositNonce, currentDepositState, depositStateByNonce, bridgedDepositNonce,
      processedActionState, allowedToken, canonicalRecord, totalDepositedByToken,
      nativeEscrowLiability, escrowLiabilityByToken, nextWithdrawalIndex,
      nextTokenWithdrawalIndex, withdrawalDelaySlots, paused, balance, claims>>

depositVars ==
    <<depositNonce, currentDepositState, depositStateByNonce>>
transitionVars == <<bridgedDepositNonce, processedActionState>>
assetVars == <<allowedToken, canonicalRecord>>
custodyVars ==
    <<totalDepositedByToken, nativeEscrowLiability, escrowLiabilityByToken, balance>>
withdrawalVars == <<nextWithdrawalIndex, nextTokenWithdrawalIndex, claims>>
controlVars == <<withdrawalDelaySlots, paused>>

BridgeInit ==
    /\ depositNonce = 0
    /\ currentDepositState = << >>
    /\ depositStateByNonce = [n \in {0} |-> << >>]
    /\ bridgedDepositNonce = 0
    /\ processedActionState = {}
    /\ allowedToken = [a \in Assets |-> a = Native]
    /\ canonicalRecord = [t \in Tokens |-> NoRecord]
    /\ totalDepositedByToken = [a \in Assets |-> 0]
    /\ nativeEscrowLiability = 0
    /\ escrowLiabilityByToken = [t \in Tokens |-> 0]
    /\ nextWithdrawalIndex = [w \in Recipients |-> 0]
    /\ nextTokenWithdrawalIndex = [t \in Tokens |-> [w \in Recipients |-> 0]]
    /\ withdrawalDelaySlots = InitialWithdrawalDelay
    /\ paused = FALSE
    /\ balance = [a \in Assets |-> 0]
    /\ claims = << >>

CanonicalTokenRegistered(token) == canonicalRecord[token] # NoRecord

-----------------------------------------------------------------------------
(* Deposits.                                                               *)

\* _recordNativeDeposit and _recordERC20Deposit: the next leaf of the
\* accumulator, remembered under its nonce.
RecordDeposit(token, zekoAmount) ==
    LET nonce == depositNonce + 1
        newDepositState ==
            Append(currentDepositState, DepositLeaf(nonce, token, zekoAmount))
    IN  /\ depositNonce' = nonce
        /\ currentDepositState' = newDepositState
        /\ depositStateByNonce' = Put(depositStateByNonce, nonce, newDepositState)

DepositETH(value) ==
    /\ ~paused
    /\ allowedToken[Native]
    /\ value > 0
    /\ ConvertibleAmount(Native, value)
    /\ RecordDeposit(Native, ZekoAmount(Native, value))
    /\ totalDepositedByToken' = [totalDepositedByToken EXCEPT ![Native] = @ + value]
    /\ nativeEscrowLiability' = nativeEscrowLiability + value
    /\ balance' = [balance EXCEPT ![Native] = @ + value]
    /\ UNCHANGED <<escrowLiabilityByToken, transitionVars, assetVars,
                   withdrawalVars, controlVars, settlementVars, timestamp>>

WithinDepositCap(token, amount) ==
    escrowLiabilityByToken[token] + amount <= canonicalRecord[token].inventoryCap

\* Fault: the moved amount is not measured.
TransferUnchecked(amount, received) == received <= amount

\* `received' is what the token really moved; a fee-on-transfer token moves
\* less than the amount, and the deposit is refused.
TransferExact(amount, received) == received = amount

SubmitDeposit(token, amount, received) ==
    /\ ~paused
    /\ CanonicalTokenRegistered(token)
    /\ allowedToken[token]
    /\ amount > 0 /\ amount <= MaxUint64
    /\ WithinDepositCap(token, amount)
    /\ TransferExact(amount, received)
    /\ RecordDeposit(token, ZekoAmount(token, amount))
    /\ totalDepositedByToken' = [totalDepositedByToken EXCEPT ![token] = @ + amount]
    /\ escrowLiabilityByToken' = [escrowLiabilityByToken EXCEPT ![token] = @ + amount]
    /\ balance' = [balance EXCEPT ![token] = @ + received]
    /\ UNCHANGED <<nativeEscrowLiability, transitionVars, assetVars,
                   withdrawalVars, controlVars, settlementVars, timestamp>>

-----------------------------------------------------------------------------
(* submitBridgeTransition: a proved batch of deposits becomes outer        *)
(* Witness actions of the settlement contract.                             *)

\* Fault: any earlier nonce may start a batch.
BridgedNonceUnchecked(d) == d.ethereumNonceBefore <= bridgedDepositNonce

BridgedNonceMatches(d) == d.ethereumNonceBefore = bridgedDepositNonce

SettlementSourceMatches(d) ==
    /\ d.zekoActionStateBefore = actionState
    /\ d.zekoActionStateLengthBefore = outerActionStateLength
    /\ d.zekoActionStateLengthAfter = d.zekoActionStateLengthBefore + d.depositCount

\* The batch must start at the accumulator's state for its nonce and end at
\* the newest deposit: a deposit that lands in between makes it stale.
DepositRangeMatches(d) ==
    /\ d.ethereumNonceBefore \in DOMAIN depositStateByNonce
    /\ depositStateByNonce[d.ethereumNonceBefore] = d.ethereumStateBefore
    /\ d.ethereumNonceAfter = depositNonce
    /\ d.ethereumStateAfter = currentDepositState
    /\ d.ethereumNonceAfter = d.ethereumNonceBefore + d.depositCount

SubmitBridgeTransition(d) ==
    /\ ~paused
    /\ d.depositCount > 0
    /\ BridgedNonceMatches(d)
    /\ SettlementSourceMatches(d)
    /\ DepositRangeMatches(d)
    /\ d.zekoActionStateAfter \notin processedActionState
    /\ processedActionState' = processedActionState \cup {d.zekoActionStateAfter}
    /\ bridgedDepositNonce' = d.ethereumNonceAfter
    /\ AppendOuterWitnesses(
           d.zekoActionStateBefore,
           SubSeq(d.zekoActionStateAfter, Len(d.zekoActionStateBefore) + 1,
                  Len(d.zekoActionStateAfter)),
           ThisBridge)
    /\ UNCHANGED <<depositVars, assetVars, custodyVars, withdrawalVars, controlVars>>

-----------------------------------------------------------------------------
(* Withdrawals.  `action' is the inner action the claimant exhibits: kind, *)
(* token, recipient, amount in Zeko units and, for a token, its record.    *)

Claimed(sequence, index, action) ==
    [sequence |-> sequence, index |-> index, token |-> action.token,
     recipient |-> action.recipient, amount |-> action.amount,
     slot |-> CurrentVirtualSlot]

DelayElapsed(batch) ==
    CurrentVirtualSlot >= batch.commitSlotUpper + withdrawalDelaySlots

\* Faults: off by one, and no cursor at all.
NativeIndexReprocessed(recipient, index) == index + 1 >= nextWithdrawalIndex[recipient]
TokenIndexUnchecked(token, recipient, index) == TRUE

NativeIndexUnprocessed(recipient, index) == index >= nextWithdrawalIndex[recipient]

EscrowCovers(liability, amount) == amount <= liability

\* The whole path from the settled batch to the leaf at `offset'.
LeafSettled(sequence, offset, action) ==
    /\ sequence \in DOMAIN innerActionBatch
    /\ offset < innerActionBatch[sequence].count
    /\ DelayElapsed(innerActionBatch[sequence])
    /\ MerkleIncludes(innerActionBatch[sequence].root, offset,
           InnerActionLeaf(ThisBridge, innerActionBatch[sequence].startIndex + offset,
                           action))

ClaimNativeWithdrawal(sequence, offset, action) ==
    /\ ~paused
    /\ action.kind = "withdrawal" /\ action.token = Native /\ action.amount > 0
    /\ LeafSettled(sequence, offset, action)
    /\ LET index == innerActionBatch[sequence].startIndex + offset
           recipient == action.recipient
           value == EthereumAmount(Native, action.amount)
       IN  /\ NativeIndexUnprocessed(recipient, index)
           /\ EscrowCovers(nativeEscrowLiability, value)
           /\ value <= balance[Native]
           /\ nextWithdrawalIndex' = [nextWithdrawalIndex EXCEPT ![recipient] = index + 1]
           /\ nativeEscrowLiability' = nativeEscrowLiability - value
           /\ totalDepositedByToken' =
                  [totalDepositedByToken EXCEPT ![Native] = @ - value]
           /\ balance' = [balance EXCEPT ![Native] = @ - value]
           /\ claims' = Append(claims, Claimed(sequence, index, action))
    /\ UNCHANGED <<escrowLiabilityByToken, nextTokenWithdrawalIndex, depositVars,
                   transitionVars, assetVars, controlVars, settlementVars, timestamp>>

TokenIndexUnprocessed(token, recipient, index) ==
    index >= nextTokenWithdrawalIndex[token][recipient]

\* The leaf is recomputed from the record the registry bound to the token.
ClaimERC20Withdrawal(sequence, offset, action, spent, received) ==
    /\ ~paused
    /\ action.kind = "withdrawal" /\ action.token \in Tokens /\ action.amount > 0
    /\ CanonicalTokenRegistered(action.token)
    /\ action.commitment = RecordCommitment(canonicalRecord[action.token])
    /\ LeafSettled(sequence, offset, action)
    /\ LET index == innerActionBatch[sequence].startIndex + offset
           token == action.token
           recipient == action.recipient
           amount == action.amount
       IN  /\ TokenIndexUnprocessed(token, recipient, index)
           /\ EscrowCovers(escrowLiabilityByToken[token], amount)
           /\ spent <= balance[token]
           /\ TransferExact(amount, spent) /\ TransferExact(amount, received)
           /\ nextTokenWithdrawalIndex' =
                  [nextTokenWithdrawalIndex EXCEPT ![token][recipient] = index + 1]
           /\ escrowLiabilityByToken' =
                  [escrowLiabilityByToken EXCEPT ![token] = @ - amount]
           /\ totalDepositedByToken' = [totalDepositedByToken EXCEPT ![token] = @ - amount]
           /\ balance' = [balance EXCEPT ![token] = @ - spent]
           /\ claims' = Append(claims, Claimed(sequence, index, action))
    /\ UNCHANGED <<nativeEscrowLiability, nextWithdrawalIndex, depositVars,
                   transitionVars, assetVars, controlVars, settlementVars, timestamp>>

-----------------------------------------------------------------------------
(* Administration.                                                         *)

SetPaused(value) ==
    /\ paused' = value
    /\ UNCHANGED <<withdrawalDelaySlots, depositVars, transitionVars, assetVars,
                   custodyVars, withdrawalVars, settlementVars, timestamp>>

\* _pause and _unpause revert when nothing changes.
Pause == ~paused /\ SetPaused(TRUE)
Unpause == paused /\ SetPaused(FALSE)

SetWithdrawalDelaySlots(newDelay) ==
    /\ withdrawalDelaySlots' = newDelay
    /\ UNCHANGED <<paused, depositVars, transitionVars, assetVars, custodyVars,
                   withdrawalVars, settlementVars, timestamp>>

\* Fault: neither the balance nor the liability limits the amount.
EmergencyUnlimited(token) == balance[token] + 1

\* Only native custody may be withdrawn below its liability.
AvailableForEmergency(token) ==
    IF token = Native THEN balance[Native]
    ELSE IF balance[token] > escrowLiabilityByToken[token]
         THEN balance[token] - escrowLiabilityByToken[token]
         ELSE 0

EmergencyWithdrawToken(token, amount) ==
    /\ amount > 0
    /\ amount <= AvailableForEmergency(token)
    /\ balance' = [balance EXCEPT ![token] = @ - amount]
    /\ UNCHANGED <<totalDepositedByToken, nativeEscrowLiability,
                   escrowLiabilityByToken, depositVars, transitionVars, assetVars,
                   withdrawalVars, controlVars, settlementVars, timestamp>>

\* Called by the registry facet, through the proxy.
ActivateAssetRecordFromRegistry(record) ==
    /\ ~CanonicalTokenRegistered(record.token)
    /\ canonicalRecord' = [canonicalRecord EXCEPT ![record.token] = record]
    /\ allowedToken' = [allowedToken EXCEPT ![record.token] = TRUE]

\* Fault: a status change that does not reach deposit admission.
SetAssetAllowedForgotten(token, allowed) == UNCHANGED assetVars

SetAssetAllowedFromRegistry(token, allowed) ==
    /\ allowedToken' = [allowedToken EXCEPT ![token] = allowed]
    /\ UNCHANGED canonicalRecord

\* External: anyone may send ERC-20 tokens to the bridge without a deposit.
Donate(token, amount) ==
    /\ balance' = [balance EXCEPT ![token] = @ + amount]
    /\ UNCHANGED <<totalDepositedByToken, nativeEscrowLiability,
                   escrowLiabilityByToken, depositVars, transitionVars, assetVars,
                   withdrawalVars, controlVars, settlementVars, timestamp>>
=============================================================================
