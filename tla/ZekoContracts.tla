--------------------------- MODULE ZekoContracts ----------------------------
(***************************************************************************)
(* The three contracts together.  Every transaction is atomic; they        *)
(* interleave in any order.  The prover role may submit any proof a guest  *)
(* can produce from what Ethereum and the L2 have ever shown, so a stale   *)
(* proof, and one whose host lied about what the guest does not bind, are  *)
(* in every state among the inputs.                                        *)
(***************************************************************************)
EXTENDS ZekoAssetRegistry, SequencesExt

CONSTANTS
    DepositValues,      \* msg.value and ERC-20 amounts, in Ethereum units
    WithdrawalAmounts,  \* amounts of L2 withdrawals, in Zeko units
    Versions,           \* receipt formats in use
    SlotRanges,         \* <<lower, upper>> a commit may carry
    AdminOperations,    \* operations the admin uses in this instance
    Delays,             \* values the admin gives withdrawalDelaySlots
    MaxDeposits, MaxSettlements, MaxBatch, MaxTimestamp, MaxBalance

ASSUME ContractsAssumption ==
    /\ ThisBridge \in Addresses
    /\ Native \notin Tokens
    /\ NoRecord \notin Records
    /\ DepositValues \subseteq Nat /\ WithdrawalAmounts \subseteq Nat
    /\ InventoryCaps \subseteq Nat
    /\ Versions \subseteq 1..4
    /\ SlotRanges \subseteq Nat \X Nat
    /\ MaxBalance \in Nat
    /\ Delays \subseteq Nat /\ InitialWithdrawalDelay \in Delays

vars == <<settlementVars, timestamp, bridgeVars, registryVars>>

-----------------------------------------------------------------------------
(* The L2, seen from its commits (external: the OCaml sequencer and its    *)
(* circuits).                                                              *)

\* Deposits of an asset among a sequence of outer actions, in Zeko units.
CreditsOf(asset, log) ==
    {i \in DOMAIN log : log[i].kind = "witness" /\ log[i].deposit.token = asset}

Credited(asset, log) ==
    SumFunction([i \in CreditsOf(asset, log) |-> log[i].deposit.amount])

\* Withdrawals of an asset among a sequence of inner actions.
WithdrawalsOf(asset, inner) ==
    {i \in DOMAIN inner : inner[i].kind = "withdrawal" /\ inner[i].token = asset}

Withdrawn(asset, inner) ==
    SumFunction([i \in WithdrawalsOf(asset, inner) |-> inner[i].amount])

\* What the circuits guarantee: the L2 never pays out more of an asset than
\* the deposits in the part of the outer log it has consumed.
L2Sound(consumed, inner) ==
    \A a \in Assets : Withdrawn(a, inner) <= Credited(a, consumed)

RawAction == [kind |-> "raw"]

WithdrawalAction(token, recipient, amount, commitment) ==
    [kind |-> "withdrawal", token |-> token, recipient |-> recipient,
     amount |-> amount, commitment |-> commitment]

InnerActions ==
    {RawAction}
    \cup {WithdrawalAction(Native, w, n, NoRecord) :
              w \in Recipients, n \in WithdrawalAmounts}
    \cup {WithdrawalAction(rec.token, w, n, RecordCommitment(rec)) :
              rec \in ToSet(assetRegistryRoot), w \in Recipients,
              n \in WithdrawalAmounts}

\* A deposit the L2 has seen in a block that did not stay canonical.
OrphanedDeposit ==
    Witness(DepositLeaf(depositNonce + 1, Native, MaxBalance))

\* The outer states Ethereum has had.
PastOuterStates ==
    {InitialOuterState} \cup
    {actionState[i].stateAfter :
        i \in {j \in DOMAIN actionState : actionState[j].kind = "commit"}}

-----------------------------------------------------------------------------
Init == SettlementInit /\ BridgeInit /\ RegistryInit

\* What the Pickles proof of a commit binds.
CommitBody(before, source, consumed, actions, range) ==
    [stateBefore |-> before,
     ledger |-> InitialLength + Len(consumed),
     actions |-> actions,
     outerActionState |-> source,
     synchronized |-> consumed,
     synchronizedLength |-> InitialLength + Len(consumed),
     slotLower |-> range[1], slotUpper |-> range[2]]

\* A commit the L2 can prove, with registry records the guest accepts.
SettleCommit(body, host, vk, old, appends) ==
    /\ RegistryAppendsAccepted(host.version, old, appends)
    /\ L2Sound(body.synchronized, body.stateBefore.innerActionState \o body.actions)
    /\ VerifyAndUpdateRoot(Receipt(body, host, vk, old, appends))

\* A commit is proved on top of any past outer state and any prefix `source'
\* of the outer log; the host names the sequence and length it likes.
Settle ==
    /\ batchSequence < MaxSettlements
    /\ \E before \in PastOuterStates, source \in Prefixes(actionState) :
       \E consumed \in Prefixes(source) \cup {Append(source, OrphanedDeposit)},
          actions \in BoundedSeq(InnerActions, MaxBatch), range \in SlotRanges,
          host \in [version : Versions, batchSequence : 1..(batchSequence + 1),
                    outerLength : {outerActionStateLength, InitialLength + Len(source)},
                    bridge : Addresses],
          vk \in VkHashes :
       \E old \in IF host.version >= 3 THEN Prefixes(assetRegistryRoot)
                                       ELSE {assetRegistryRoot},
          appends \in BoundedSeq(Records, IF host.version >= 3 THEN host.version - 2 ELSE 0) :
          SettleCommit(CommitBody(before, source, consumed, actions, range),
                       host, vk, old, appends)
    /\ UNCHANGED <<bridgeVars, registryVars>>

\* The logs of the deposits with nonces first+1 to last, in Ethereum units.
DepositLogs(first, last) ==
    [i \in 1..(last - first) |->
        LET leaf == currentDepositState[first + i]
        IN  [token |-> leaf.token, amount |-> EthereumAmount(leaf.token, leaf.amount)]]

BridgeRange(first, last, nonce, source, length) ==
    /\ first < last
    /\ BridgeInputAccepted(DepositLogs(first, last))
    /\ SubmitBridgeTransition(
           BridgeTransition(SubSeq(currentDepositState, 1, first), nonce,
                            DepositLogs(first, last), source, length))

\* The guest's deposits are the logs of a contiguous range; nonce and length
\* are the host's.
BridgeDeposits ==
    /\ \E first, last \in 0..depositNonce, source \in Prefixes(actionState) :
       \E nonce \in {first, bridgedDepositNonce},
          length \in {outerActionStateLength, InitialLength + Len(source)} :
          BridgeRange(first, last, nonce, source, length)
    /\ UNCHANGED registryVars

Deposit ==
    /\ depositNonce < MaxDeposits
    /\ \E value \in DepositValues :
          \/ DepositETH(value)
          \/ \E token \in Tokens, received \in 0..value :
                 SubmitDeposit(token, value, received)
    /\ UNCHANGED registryVars

Claim ==
    /\ \E sequence \in DOMAIN innerActionBatch :
       \E offset \in 0..innerActionBatch[sequence].count :
       \E action \in ToSet(outerState.innerActionState) :
          /\ action.kind = "withdrawal"
          /\ \/ ClaimNativeWithdrawal(sequence, offset, action)
             \/ \E spent, received \in 0..action.amount :
                    ClaimERC20Withdrawal(sequence, offset, action, spent, received)
    /\ UNCHANGED registryVars

Administer ==
    \/ /\ \/ \E vk \in VkHashes : SetVkHash(vk)
          \/ \E bridge \in Addresses : SetBridgeContract(bridge)
       /\ UNCHANGED <<bridgeVars, registryVars>>
    \/ /\ \/ "pause" \in AdminOperations /\ (Pause \/ Unpause)
          \/ \E delay \in Delays : SetWithdrawalDelaySlots(delay)
          \/ /\ "emergency" \in AdminOperations
             /\ \E a \in Assets : \E n \in 1..(MaxBalance + 1) : EmergencyWithdrawToken(a, n)
       /\ UNCHANGED registryVars

Register ==
    \/ \E record \in Records : ProposeAsset(record)
    \/ \E token \in Tokens :
          \/ CancelLastPendingAsset(token)
          \/ \E root \in Prefixes(assetRegistryRoot) : ActivateAsset(token, root)
          \/ \E sequence \in DOMAIN assetRegistryRecordBatch :
                 ActivateAssetFromBatch(token, sequence)
          \/ \E status \in AssetStatus : SetAssetStatus(token, status)

\* External: blocks are produced, tokens are sent to the bridge.
Tick ==
    /\ timestamp < MaxTimestamp
    /\ timestamp' = timestamp + 1
    /\ UNCHANGED <<settlementVars, bridgeVars, registryVars>>

Gift ==
    /\ \E token \in Tokens : balance[token] < MaxBalance /\ Donate(token, 1)
    /\ UNCHANGED registryVars

Next ==
    \/ Settle \/ BridgeDeposits \/ Deposit \/ Claim
    \/ Administer \/ Register \/ Tick \/ Gift

Spec == Init /\ [][Next]_vars

-----------------------------------------------------------------------------
(* Types.                                                                  *)

Deposits == [nonce : Nat, token : Assets, amount : Nat]

Commitments == {RecordCommitment(rec) : rec \in Records}

InnerAction ==
    {RawAction} \cup
    [kind : {"withdrawal"}, token : Assets, recipient : Recipients, amount : Nat,
     commitment : Commitments \cup {NoRecord}]

OuterStates ==
    [ledger : Nat, innerActionState : Seq(InnerAction), innerActionLength : Nat]

OuterActions ==
    [kind : {"witness"}, deposit : Deposits] \cup
    [kind : {"commit"}, stateAfter : OuterStates, synced : Nat]

InnerLeaves == [bridge : Addresses, index : Nat, action : InnerAction]

InnerBatches ==
    [minaStateBefore : Seq(InnerAction), minaStateAfter : Seq(InnerAction),
     root : Seq(InnerLeaves), startIndex : Nat, count : Nat, commitSlotUpper : Nat]

SettlementTypeOK ==
    /\ vkHash \in VkHashes
    /\ outerState \in OuterStates
    /\ actionState \in Seq(OuterActions)
    /\ outerActionStateLength \in Nat
    /\ batchSequence \in Nat
    /\ DOMAIN outerActionStateInfo \subseteq Seq(OuterActions)
    /\ outerActionStateInfo \in [DOMAIN outerActionStateInfo -> Nat]
    /\ DOMAIN acceptedInnerActionState \subseteq Seq(InnerAction)
    /\ acceptedInnerActionState \in [DOMAIN acceptedInnerActionState ->
           [settlementIndex : Nat, acceptedAt : Nat, length : Nat]]
    /\ DOMAIN innerActionBatch \subseteq Nat
    /\ innerActionBatch \in [DOMAIN innerActionBatch -> InnerBatches]
    /\ bridgeContract \in Addresses \cup {NoAddress}
    /\ assetRegistryRoot \in Seq(Records)
    /\ assetRegistryCount \in Nat
    /\ DOMAIN settledAssetRecordCommitment \subseteq {RecordHash(rec) : rec \in Records}
    /\ settledAssetRecordCommitment \in [DOMAIN settledAssetRecordCommitment -> Commitments]
    /\ DOMAIN assetRegistryRecordBatch \subseteq Nat
    /\ timestamp \in Nat

BridgeTypeOK ==
    /\ depositNonce \in Nat
    /\ currentDepositState \in Seq(Deposits)
    /\ DOMAIN depositStateByNonce \subseteq Nat
    /\ depositStateByNonce \in [DOMAIN depositStateByNonce -> Seq(Deposits)]
    /\ bridgedDepositNonce \in Nat
    /\ processedActionState \subseteq Seq(OuterActions)
    /\ allowedToken \in [Assets -> BOOLEAN]
    /\ canonicalRecord \in [Tokens -> Records \cup {NoRecord}]
    /\ totalDepositedByToken \in [Assets -> Nat]
    /\ nativeEscrowLiability \in Nat
    /\ escrowLiabilityByToken \in [Tokens -> Nat]
    /\ nextWithdrawalIndex \in [Recipients -> Nat]
    /\ nextTokenWithdrawalIndex \in [Tokens -> [Recipients -> Nat]]
    /\ withdrawalDelaySlots \in Delays
    /\ paused \in BOOLEAN
    /\ balance \in [Assets -> Nat]
    /\ claims \in Seq([sequence : Nat, index : Nat, token : Assets,
                       recipient : Recipients, amount : Nat, slot : Nat])

RegistryTypeOK ==
    /\ assetRecordByToken \in [Tokens -> Records \cup {NoRecord}]
    /\ DOMAIN assetTokenByRegistryIndex \subseteq Nat
    /\ assetTokenByRegistryIndex \in [DOMAIN assetTokenByRegistryIndex -> Tokens]
    /\ assetStatusByToken \in [Tokens -> AssetStatus]
    /\ proposedAssetRecord \subseteq {RecordHash(rec) : rec \in Records}
    /\ proposedAssetId \subseteq Tokens \X Identities
    /\ proposedL2TokenIdentity \subseteq Identities
    /\ proposedAssetCount \in 0..AssetRegistryCapacity

\* Every storage slot holds a value of its Solidity type.
TypeOK == SettlementTypeOK /\ BridgeTypeOK /\ RegistryTypeOK

-----------------------------------------------------------------------------
(* Safety.                                                                 *)

\* The contract's outer length counts the outer log, and every checkpoint it
\* would let a settlement synchronize with (verifyAndUpdateRoot) is a prefix
\* of that log, stored with its true length.
CheckpointsArePrefixes ==
    /\ outerActionStateLength = InitialLength + Len(actionState)
    /\ \A s \in DOMAIN outerActionStateInfo :
           /\ IsPrefix(s, actionState)
           /\ outerActionStateInfo[s] = InitialLength + Len(s)

Witnesses(log) == {i \in DOMAIN log : log[i].kind = "witness"}

\* submitBridgeTransition turns every deposit into exactly one outer Witness
\* action, in nonce order, with the amount in the accumulator: no deposit is
\* credited twice or skipped, however proofs and deposits interleave.
DepositsBridgedOnce ==
    /\ bridgedDepositNonce <= depositNonce
    /\ \A i \in Witnesses(actionState) :
           /\ actionState[i].deposit.nonce \in 1..bridgedDepositNonce
           /\ actionState[i].deposit = currentDepositState[actionState[i].deposit.nonce]
    /\ \A i, j \in Witnesses(actionState) :
           i < j => actionState[i].deposit.nonce < actionState[j].deposit.nonce
    /\ \A n \in 1..bridgedDepositNonce :
           \E i \in Witnesses(actionState) : actionState[i].deposit.nonce = n

\* The root claims are checked against holds, at every offset, the L2's own
\* inner action of that global index, and no index lies in two batches.
BatchesMatchInnerLog ==
    /\ outerState.innerActionLength =
           InitialInnerLength + Len(outerState.innerActionState)
    /\ \A q \in DOMAIN innerActionBatch :
           LET b == innerActionBatch[q] IN
           /\ b.startIndex >= InitialInnerLength
           /\ Len(b.root) = b.count
           /\ b.startIndex + b.count <= outerState.innerActionLength
           /\ \A i \in 1..b.count :
                  b.root[i].action =
                      outerState.innerActionState[b.startIndex - InitialInnerLength + i]
    /\ \A p, q \in DOMAIN innerActionBatch :
           p < q => innerActionBatch[p].startIndex + innerActionBatch[p].count
                        <= innerActionBatch[q].startIndex

\* No inner action is paid twice, over both claim functions and all
\* settlements: the cursors of recipients and tokens are enough.
ClaimedOnce ==
    \A i, j \in DOMAIN claims : i # j => claims[i].index # claims[j].index

\* Every claim pays what the L2 recorded at that index, to its recipient.
ClaimsMatchInnerLog ==
    \A i \in DOMAIN claims :
        LET c == claims[i]
            k == c.index - InitialInnerLength + 1
        IN  /\ k \in DOMAIN outerState.innerActionState
            /\ LET a == outerState.innerActionState[k]
               IN  /\ a.kind = "withdrawal" /\ a.token = c.token
                   /\ a.recipient = c.recipient /\ a.amount = c.amount

\* ERC-20 custody covers the liability of every token at all times, through
\* deposits, claims, donations and emergency withdrawals; native ETH in
\* custody never exceeds its liability, and totalDepositedByToken is the
\* liability, so that its subtractions cannot underflow.
EscrowBacked ==
    /\ \A t \in Tokens :
           /\ balance[t] >= escrowLiabilityByToken[t]
           /\ totalDepositedByToken[t] = escrowLiabilityByToken[t]
    /\ balance[Native] <= nativeEscrowLiability
    /\ totalDepositedByToken[Native] = nativeEscrowLiability

Cursor(action) ==
    IF action.token = Native THEN nextWithdrawalIndex[action.recipient]
    ELSE nextTokenWithdrawalIndex[action.token][action.recipient]

\* The settled withdrawals of an asset this bridge may still have to pay.
Unclaimed(asset) ==
    {c \in (DOMAIN innerActionBatch) \X (1..MaxUint32) :
        /\ c[2] <= innerActionBatch[c[1]].count
        /\ LET leaf == innerActionBatch[c[1]].root[c[2]]
           IN  /\ leaf.bridge = ThisBridge
               /\ leaf.action.kind = "withdrawal" /\ leaf.action.token = asset
               /\ leaf.index >= Cursor(leaf.action)}

Liability(asset) ==
    IF asset = Native THEN nativeEscrowLiability ELSE escrowLiabilityByToken[asset]

\* Solvency across the chains: with L2 circuits that pay out no more than the
\* deposits they consumed, the liability covers all withdrawals that can still
\* be claimed, so the escrow check of a claim never strands an honest one.
WithdrawalsCovered ==
    \A a \in Assets :
        SumFunction([c \in Unclaimed(a) |->
            EthereumAmount(a, innerActionBatch[c[1]].root[c[2]].action.amount)])
        <= Liability(a)

\* A token is registered for custody exactly while its registry status is
\* past Pending, with the registry's record, and deposits are admitted
\* exactly while it is Active: the two storages never drift apart.
CustodyFollowsRegistry ==
    \A t \in Tokens :
        /\ CanonicalTokenRegistered(t) <=> assetStatusByToken[t] \notin {"None", "Pending"}
        /\ CanonicalTokenRegistered(t) => canonicalRecord[t] = assetRecordByToken[t]
        /\ allowedToken[t] <=> assetStatusByToken[t] = "Active"

\* What custody is bound to is what the L2 registry holds at that index: a
\* cancelled or replaced proposal can never be activated in its place.
ActivatedRecordsSettled ==
    \A t \in Tokens :
        CanonicalTokenRegistered(t) =>
            /\ canonicalRecord[t].registryIndex < Len(assetRegistryRoot)
            /\ assetRegistryRoot[canonicalRecord[t].registryIndex + 1] = canonicalRecord[t]

\* Proposals occupy the indices below proposedAssetCount, one token each, and
\* no two share an L2 identity, through any sequence of proposals and
\* cancellations.
ProposalsDense ==
    /\ DOMAIN assetTokenByRegistryIndex = 0..(proposedAssetCount - 1)
    /\ \A i \in DOMAIN assetTokenByRegistryIndex :
           LET t == assetTokenByRegistryIndex[i]
           IN  assetStatusByToken[t] # "None" /\ assetRecordByToken[t].registryIndex = i
    /\ \A t \in Tokens : assetStatusByToken[t] # "None" =>
           assetTokenByRegistryIndex[assetRecordByToken[t].registryIndex] = t
    /\ \A t, u \in Tokens :
           t # u /\ assetStatusByToken[t] # "None" /\ assetStatusByToken[u] # "None"
               => assetRecordByToken[t].identity # assetRecordByToken[u].identity

\* The registry's tables agree with one another and with the bridge's custody.
RegistryConsistent == ProposalsDense /\ CustodyFollowsRegistry

\* A claim waits the delay from the moment its settlement was accepted, not
\* only from the slot the receipt names: verifyAndUpdateRoot's upper bound and
\* the claim's check work together.
DelayRunsFromAcceptance ==
    [][claims' # claims =>
          LET c == claims'[Len(claims')]
              accepted == acceptedInnerActionState[innerActionBatch[c.sequence].minaStateAfter]
          IN  accepted.settlementIndex = c.sequence
                  => c.slot >= VirtualSlotAt(accepted.acceptedAt) + withdrawalDelaySlots]_vars

\* Steps: no transaction rewrites history.  The outer log, the inner log, the
\* settled registry and the deposit accumulator only grow, checkpoints and
\* batches keep their value, and cursors only advance.
HistoryOnlyGrows ==
    [][/\ IsPrefix(actionState, actionState')
       /\ IsPrefix(outerState.innerActionState, outerState'.innerActionState)
       /\ IsPrefix(assetRegistryRoot, assetRegistryRoot')
       /\ IsPrefix(currentDepositState, currentDepositState')
       /\ \A s \in DOMAIN outerActionStateInfo :
              s \in DOMAIN outerActionStateInfo'
              /\ outerActionStateInfo'[s] = outerActionStateInfo[s]
       /\ \A q \in DOMAIN innerActionBatch :
              q \in DOMAIN innerActionBatch' /\ innerActionBatch'[q] = innerActionBatch[q]
       /\ \A w \in Recipients : nextWithdrawalIndex'[w] >= nextWithdrawalIndex[w]]_vars
=============================================================================
