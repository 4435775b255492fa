-------------------------- MODULE ContractsProofs ---------------------------
(***************************************************************************)
(* The contracts for every value of the constants: their types, the outer  *)
(* log that a settlement may synchronize with, what becomes of a deposit   *)
(* and of a withdrawal, and the asset registry.                            *)
(*                                                                         *)
(* TypeOK is not inductive by itself: a claim subtracts from               *)
(* totalDepositedByToken what it checked against the escrow liability, and *)
(* cancelLastPendingAsset reads the record of a token it knows only to be  *)
(* pending.  Accounts adds what makes both safe.                           *)
(***************************************************************************)
EXTENDS ZekoContracts, LogLemmas

\* totalDepositedByToken is the liability, the nonce counts the accumulator's
\* leaves, and a token with a status has a record.
Accounts ==
    /\ Len(currentDepositState) = depositNonce
    /\ totalDepositedByToken[Native] = nativeEscrowLiability
    /\ \A t \in Tokens : totalDepositedByToken[t] = escrowLiabilityByToken[t]
    /\ \A t \in Tokens : assetStatusByToken[t] # "None" =>
           assetRecordByToken[t] \in Records /\ assetRecordByToken[t].token = t

TypeInv == TypeOK /\ Accounts

\* What the settlement guest commits, with the inner actions and registry
\* records of its witness.
ReceiptShape(r, actions, appends) ==
    /\ r.version \in 1..4 /\ r.batchSequence \in Nat /\ r.vkHash \in VkHashes
    /\ actions \in Seq(InnerAction)
    /\ r.stateBefore \in OuterStates
    /\ r.stateAfter \in OuterStates
    /\ r.stateAfter.innerActionState = r.stateBefore.innerActionState \o actions
    /\ r.stateAfter.innerActionLength = r.stateBefore.innerActionLength + Len(actions)
    /\ r.outerActionStateBefore \in Seq(OuterActions)
    /\ r.synchronizedOuterActionStateLength \in Nat
    /\ r.outerActionStateAfter =
           Append(r.outerActionStateBefore,
                  Commit(r.stateAfter, r.synchronizedOuterActionStateLength))
    /\ r.outerActionStateLengthBefore \in Nat
    /\ r.slotLower \in Nat /\ r.slotUpper \in Nat
    /\ r.bridgeAddress \in Addresses
    /\ r.innerActionStartIndex = r.stateBefore.innerActionLength
    /\ r.innerActionCount = Len(actions)
    /\ r.innerActionRoot =
           InnerActionRoot(r.bridgeAddress, r.stateBefore.innerActionLength, actions)
    /\ appends \in Seq(Records)
    /\ r.assetRecords = appends
    /\ r.version = 3 => Len(appends) = 1
    /\ \E old \in Prefixes(assetRegistryRoot) :
           /\ r.assetRegistryRoot = old \o appends
           /\ RegistryAppendsAccepted(r.version, old, appends)
           /\ r.assetRecordBatchRoot = AssetRecordBatchRoot(Len(old), appends)
    /\ r.assetRegistryCount = Len(r.assetRegistryRoot)
    /\ L2Sound(r.synchronizedOuterActionState, r.stateAfter.innerActionState)

\* Past outer states are outer states.
LEMMA PastOuterStatesType ==
    ASSUME SettlementTypeOK
    PROVE  PastOuterStates \subseteq OuterStates
  <1>1. InitialOuterState \in OuterStates
    BY SettlementAssumption DEF InitialOuterState, OuterStates
  <1>2. \A i \in DOMAIN actionState :
            actionState[i].kind = "commit" => actionState[i].stateAfter \in OuterStates
    <2>1. \A a \in OuterActions : a.kind = "commit" => a.stateAfter \in OuterStates
      BY DEF OuterActions
    <2>2. QED
      BY <2>1 DEF SettlementTypeOK
  <1>3. QED
    BY <1>1, <1>2 DEF PastOuterStates

\* The inner actions a commit may add are inner actions.
LEMMA InnerActionsType ==
    ASSUME SettlementTypeOK
    PROVE  InnerActions \subseteq InnerAction
  <1>1. ToSet(assetRegistryRoot) \subseteq Records
    BY DEF SettlementTypeOK, ToSet
  <1>2. \A rec \in Records : rec.token \in Tokens
    BY DEF Records
  <1>3. QED
    BY <1>1, <1>2, ContractsAssumption
    DEF InnerActions, InnerAction, WithdrawalAction, Assets, Commitments

\* Whatever the host chose, a Settle step is one call of verifyAndUpdateRoot
\* with a receipt of the guest's shape.
LEMMA SettleReceipt ==
    ASSUME SettlementTypeOK, Settle
    PROVE  /\ \E r, actions, appends :
                  ReceiptShape(r, actions, appends) /\ VerifyAndUpdateRoot(r)
           /\ UNCHANGED <<bridgeVars, registryVars>>
  <1>1. PICK before \in PastOuterStates, source \in Prefixes(actionState) :
        \E consumed \in Prefixes(source) \cup {Append(source, OrphanedDeposit)},
           actions \in BoundedSeq(InnerActions, MaxBatch), range \in SlotRanges,
           host \in [version : Versions, batchSequence : 1..(batchSequence + 1),
                     outerLength : {outerActionStateLength, InitialLength + Len(source)},
                     bridge : Addresses],
           vk \in VkHashes :
        \E old \in IF host.version >= 3 THEN Prefixes(assetRegistryRoot)
                                        ELSE {assetRegistryRoot},
           appends \in BoundedSeq(Records, IF host.version >= 3 THEN host.version - 2 ELSE 0) :
           SettleCommit(CommitBody(before, source, consumed, actions, range),
                        host, vk, old, appends)
    BY DEF Settle
  <1>2. PICK consumed \in Prefixes(source) \cup {Append(source, OrphanedDeposit)},
             actions \in BoundedSeq(InnerActions, MaxBatch), range \in SlotRanges,
             host \in [version : Versions, batchSequence : 1..(batchSequence + 1),
                       outerLength : {outerActionStateLength, InitialLength + Len(source)},
                       bridge : Addresses],
             vk \in VkHashes :
        \E old \in IF host.version >= 3 THEN Prefixes(assetRegistryRoot)
                                        ELSE {assetRegistryRoot},
           appends \in BoundedSeq(Records, IF host.version >= 3 THEN host.version - 2 ELSE 0) :
           SettleCommit(CommitBody(before, source, consumed, actions, range),
                        host, vk, old, appends)
    BY <1>1
  <1>3. PICK old \in IF host.version >= 3 THEN Prefixes(assetRegistryRoot)
                                          ELSE {assetRegistryRoot},
             appends \in BoundedSeq(Records,
                                    IF host.version >= 3 THEN host.version - 2 ELSE 0) :
             SettleCommit(CommitBody(before, source, consumed, actions, range),
                          host, vk, old, appends)
    BY <1>2
  <1> DEFINE body == CommitBody(before, source, consumed, actions, range)
             r == Receipt(body, host, vk, old, appends)
  <1>4. host.version \in 1..4 /\ host.bridge \in Addresses /\ host.batchSequence \in Nat
    BY ContractsAssumption DEF SettlementTypeOK
  <1>5. source \in Seq(OuterActions) /\ Len(source) \in Nat
    BY PrefixesMember DEF SettlementTypeOK
  <1>6. host.outerLength \in Nat
    BY <1>5, SettlementAssumption DEF SettlementTypeOK
  <1>7. Len(consumed) \in Nat
    <2>1. CASE consumed \in Prefixes(source)
      BY <1>5, <2>1, PrefixesMember
    <2>2. CASE consumed = Append(source, OrphanedDeposit)
      <3>1. source \in Seq(OuterActions \cup {OrphanedDeposit})
        BY <1>5, SeqMonotonic
      <3>2. QED
        BY <2>2, <3>1, AppendProperties
    <2>3. QED
      BY <2>1, <2>2
  <1>8. actions \in Seq(InnerAction)
    BY BoundedSeqMember, InnerActionsType, SeqMonotonic
  <1>9. before \in OuterStates
    BY PastOuterStatesType
  <1>10. range[1] \in Nat /\ range[2] \in Nat
    BY ContractsAssumption
  <1>11. appends \in Seq(Records)
    BY BoundedSeqMember
  <1>12. old \in Prefixes(assetRegistryRoot)
    BY WholeIsPrefix DEF SettlementTypeOK
  <1>13. host.version = 3 => Len(appends) = 1
    BY <1>3, <1>4 DEF SettleCommit, RegistryAppendsAccepted
  <1>14. ReceiptShape(r, actions, appends)
    <2>1. r.stateAfter = OuterStateAfter(before, body.ledger, actions)
      BY DEF Receipt, CommitBody
    <2>2. /\ r.stateBefore = before
          /\ r.stateAfter \in OuterStates
          /\ r.stateAfter.innerActionState = before.innerActionState \o actions
          /\ r.stateAfter.innerActionLength = before.innerActionLength + Len(actions)
      <3>1. body.ledger \in Nat /\ r.stateBefore = before
        BY <1>7, SettlementAssumption DEF CommitBody, Receipt
      <3>2. QED
        BY <1>8, <1>9, <2>1, <3>1 DEF OuterStateAfter, OuterStates
    <2>3. /\ r.outerActionStateBefore = source
          /\ r.synchronizedOuterActionStateLength = InitialLength + Len(consumed)
          /\ r.outerActionStateAfter =
                 Append(source, Commit(r.stateAfter, InitialLength + Len(consumed)))
          /\ r.outerActionStateLengthBefore = host.outerLength
          /\ r.slotLower = range[1] /\ r.slotUpper = range[2]
          /\ r.version = host.version /\ r.batchSequence = host.batchSequence
          /\ r.vkHash = vk /\ r.bridgeAddress = host.bridge
      BY DEF Receipt, CommitBody
    <2>4. /\ r.innerActionStartIndex = before.innerActionLength
          /\ r.innerActionCount = Len(actions)
          /\ r.innerActionRoot =
                 InnerActionRoot(host.bridge, before.innerActionLength, actions)
          /\ r.assetRecords = appends
          /\ r.assetRegistryRoot = old \o appends
          /\ r.assetRegistryCount = Len(old \o appends)
          /\ r.assetRecordBatchRoot = AssetRecordBatchRoot(Len(old), appends)
      BY DEF Receipt, CommitBody
    <2>5. InitialLength + Len(consumed) \in Nat
      BY <1>7, SettlementAssumption
    <2>6. RegistryAppendsAccepted(r.version, old, appends)
      BY <1>3, <2>3 DEF SettleCommit
    <2>7. L2Sound(r.synchronizedOuterActionState, r.stateAfter.innerActionState)
      <3>1. /\ r.synchronizedOuterActionState = body.synchronized
            /\ r.stateAfter.innerActionState =
                   body.stateBefore.innerActionState \o body.actions
        BY DEF Receipt, OuterStateAfter
      <3>2. QED
        BY <1>3, <3>1 DEF SettleCommit
    <2>8. QED
      BY <1>4, <1>5, <1>6, <1>8, <1>9, <1>10, <1>11, <1>12, <1>13, <2>2, <2>3,
         <2>4, <2>5, <2>6, <2>7
      DEF ReceiptShape
  <1>15. VerifyAndUpdateRoot(r)
    BY <1>3 DEF SettleCommit
  <1>16. UNCHANGED <<bridgeVars, registryVars>>
    BY DEF Settle
  <1>17. QED
    BY <1>14, <1>15, <1>16

-----------------------------------------------------------------------------
(* Deposit batches.                                                        *)

WitnessesOf(leaves) == [i \in 1..Len(leaves) |-> Witness(leaves[i])]

\* What the bridge guest commits, with the leaves it derived.
BatchShape(d, leaves) ==
    /\ leaves \in Seq(Deposits)
    /\ d.depositCount = Len(leaves)
    /\ d.ethereumNonceBefore \in Nat
    /\ d.ethereumNonceAfter = d.ethereumNonceBefore + Len(leaves)
    /\ \A i \in 1..Len(leaves) : leaves[i].nonce = d.ethereumNonceBefore + i
    /\ d.ethereumStateBefore \in Prefixes(currentDepositState)
    /\ d.ethereumStateAfter = d.ethereumStateBefore \o leaves
    /\ d.zekoActionStateBefore \in Seq(OuterActions)
    /\ d.zekoActionStateAfter = d.zekoActionStateBefore \o WitnessesOf(leaves)

\* Amounts stay natural numbers through the unit conversions.
LEMMA ConversionTypes ==
    ASSUME NEW token, NEW amount \in Nat
    PROVE  ZekoAmount(token, amount) \in Nat /\ EthereumAmount(token, amount) \in Nat
  BY GuestAssumption, QuotientIsNat, ProductIsNat DEF ZekoAmount, EthereumAmount

\* Wei that are a multiple of Gwei survive the way to Zeko units and back.
LEMMA ConversionExact ==
    ASSUME NEW token, NEW amount \in Nat, amount > 0, ConvertibleAmount(token, amount)
    PROVE  /\ ZekoAmount(token, amount) \in Nat /\ ZekoAmount(token, amount) > 0
           /\ EthereumAmount(token, ZekoAmount(token, amount)) = amount
  <1>1. CASE token = Native
    <2>1. Gwei \in Nat \ {0} /\ amount % Gwei = 0
      BY <1>1, GuestAssumption DEF ConvertibleAmount
    <2>2. amount = Gwei * (amount \div Gwei) + (amount % Gwei)
      BY <2>1
    <2>3. amount \div Gwei \in Nat
      BY <2>1, QuotientIsNat
    <2>4. amount = (amount \div Gwei) * Gwei
      BY <2>1, <2>2, <2>3
    <2>5. amount \div Gwei # 0
      BY <2>1, <2>4
    <2>6. QED
      BY <1>1, <2>3, <2>4, <2>5 DEF ZekoAmount, EthereumAmount
  <1>2. CASE token # Native
    BY <1>2 DEF ZekoAmount, EthereumAmount
  <1>3. QED
    BY <1>1, <1>2

LEMMA WitnessesOfType ==
    ASSUME NEW leaves \in Seq(Deposits)
    PROVE  WitnessesOf(leaves) \in Seq(OuterActions) /\ Len(WitnessesOf(leaves)) = Len(leaves)
  <1>1. \A l \in Deposits : Witness(l) \in OuterActions
    BY DEF Witness, OuterActions
  <1>2. \A i \in 1..Len(leaves) : Witness(leaves[i]) \in OuterActions
    BY <1>1
  <1>3. QED
    BY <1>2, LenProperties DEF WitnessesOf

\* A BridgeDeposits step is one call of submitBridgeTransition with public
\* values of the guest's shape.
LEMMA BridgeBatch ==
    ASSUME TypeInv, BridgeDeposits
    PROVE  /\ \E d, leaves : BatchShape(d, leaves) /\ SubmitBridgeTransition(d)
           /\ UNCHANGED registryVars
  <1>1. PICK first \in 0..depositNonce, last \in 0..depositNonce,
             source \in Prefixes(actionState) :
             \E nonce \in {first, bridgedDepositNonce},
                length \in {outerActionStateLength, InitialLength + Len(source)} :
                BridgeRange(first, last, nonce, source, length)
    BY DEF BridgeDeposits
  <1>2. PICK nonce \in {first, bridgedDepositNonce},
             length \in {outerActionStateLength, InitialLength + Len(source)} :
             BridgeRange(first, last, nonce, source, length)
    BY <1>1
  <1> DEFINE deposits == DepositLogs(first, last)
             before == SubSeq(currentDepositState, 1, first)
             d == BridgeTransition(before, nonce, deposits, source, length)
             n == last - first
             leaf(i) == DepositLeaf(nonce + i, deposits[i].token,
                                    ZekoAmount(deposits[i].token, deposits[i].amount))
             leaves == [i \in 1..n |-> leaf(i)]
  <1>3. n \in Nat /\ Len(deposits) = n
    BY <1>2 DEF BridgeRange, DepositLogs, TypeInv, TypeOK, BridgeTypeOK
  <1>4. nonce \in Nat
    BY DEF TypeInv, TypeOK, BridgeTypeOK
  <1>5. source \in Seq(OuterActions)
    BY PrefixesMember DEF TypeInv, TypeOK, SettlementTypeOK
  <1>6. \A i \in 1..n : leaf(i) \in Deposits
    <2> SUFFICES ASSUME NEW i \in 1..n PROVE leaf(i) \in Deposits
      OBVIOUS
    <2>1. currentDepositState[first + i] \in Deposits
      BY DEF TypeInv, TypeOK, BridgeTypeOK, Accounts
    <2>2. /\ deposits[i].token = currentDepositState[first + i].token
          /\ deposits[i].amount = EthereumAmount(currentDepositState[first + i].token,
                                                 currentDepositState[first + i].amount)
      BY DEF DepositLogs
    <2>3. ZekoAmount(deposits[i].token, deposits[i].amount) \in Nat
      BY <2>1, <2>2, ConversionTypes DEF Deposits
    <2>4. QED
      BY <1>4, <2>1, <2>2, <2>3 DEF DepositLeaf, Deposits
  <1>7. leaves \in Seq(Deposits) /\ Len(leaves) = n
    BY <1>3, <1>6
  <1>8. \A i \in 1..n : leaves[i].nonce = nonce + i
    BY DEF DepositLeaf
  <1>9. before \in Prefixes(currentDepositState)
    BY DEF Prefixes, TypeInv, TypeOK, BridgeTypeOK, Accounts
  <1>10. WitnessesOf(leaves) = [i \in 1..n |-> Witness(leaf(i))]
    BY <1>7 DEF WitnessesOf
  <1>11. /\ d.depositCount = n
         /\ d.ethereumNonceBefore = nonce
         /\ d.ethereumNonceAfter = nonce + n
         /\ d.ethereumStateBefore = before
         /\ d.ethereumStateAfter = before \o leaves
         /\ d.zekoActionStateBefore = source
         /\ d.zekoActionStateAfter = source \o WitnessesOf(leaves)
    BY <1>3, <1>10 DEF BridgeTransition
  <1>12. BatchShape(d, leaves)
    BY <1>4, <1>5, <1>7, <1>8, <1>9, <1>11 DEF BatchShape
  <1>13. SubmitBridgeTransition(d)
    BY <1>2 DEF BridgeRange
  <1>14. UNCHANGED registryVars
    BY DEF BridgeDeposits
  <1>15. QED
    BY <1>12, <1>13, <1>14

-----------------------------------------------------------------------------
(* Each transaction preserves the types.                                   *)

\* Slots are natural numbers, before the genesis too.
LEMMA SlotAtType ==
    ASSUME NEW time \in Nat
    PROVE  VirtualSlotAt(time) \in Nat
  <1>1. CASE time <= GenesisTimestamp
    BY <1>1, SettlementAssumption DEF VirtualSlotAt
  <1>2. CASE ~(time <= GenesisTimestamp)
    <2>1. time - GenesisTimestamp \in Nat
      BY <1>2, SettlementAssumption
    <2>2. (time - GenesisTimestamp) \div SlotDuration \in Nat
      BY <2>1, SettlementAssumption, QuotientIsNat
    <2>3. QED
      BY <1>2, <2>2, SettlementAssumption DEF VirtualSlotAt
  <1>3. QED
    BY <1>1, <1>2

LEMMA SlotType ==
    ASSUME timestamp \in Nat
    PROVE  CurrentVirtualSlot \in Nat
  BY SlotAtType DEF CurrentVirtualSlot

LEMMA SettleTypes ==
    ASSUME TypeInv, Settle
    PROVE  TypeInv'
  <1>1. SettlementTypeOK
    BY DEF TypeInv, TypeOK
  <1>2. UNCHANGED <<bridgeVars, registryVars>>
    BY <1>1, SettleReceipt
  <1>3. PICK r, actions, appends :
             ReceiptShape(r, actions, appends) /\ VerifyAndUpdateRoot(r)
    BY <1>1, SettleReceipt
  <1>4. /\ r.outerActionStateAfter \in Seq(OuterActions)
        /\ r.outerActionStateLengthAfter \in Nat
    <2>1. Commit(r.stateAfter, r.synchronizedOuterActionStateLength) \in OuterActions
      BY <1>3 DEF ReceiptShape, Commit, OuterActions
    <2>2. QED
      BY <1>3, <2>1 DEF ReceiptShape, VerifyAndUpdateRoot, SourceLengthMatches
  <1>5. r.stateAfter.innerActionState \in Seq(InnerAction)
        /\ r.stateAfter.innerActionLength \in Nat
    BY <1>3 DEF ReceiptShape, OuterStates
  <1>6. /\ vkHash' \in VkHashes /\ outerState' \in OuterStates
        /\ actionState' \in Seq(OuterActions) /\ outerActionStateLength' \in Nat
        /\ batchSequence' \in Nat /\ timestamp' \in Nat
        /\ bridgeContract' \in Addresses \cup {NoAddress}
    BY <1>1, <1>3, <1>4 DEF ReceiptShape, VerifyAndUpdateRoot, SettlementTypeOK
  <1>7. /\ DOMAIN outerActionStateInfo' \subseteq Seq(OuterActions)
        /\ outerActionStateInfo' \in [DOMAIN outerActionStateInfo' -> Nat]
    BY <1>1, <1>3, <1>4 DEF VerifyAndUpdateRoot, SettlementTypeOK, Put
  <1>8. /\ DOMAIN acceptedInnerActionState' \subseteq Seq(InnerAction)
        /\ acceptedInnerActionState' \in [DOMAIN acceptedInnerActionState' ->
               [settlementIndex : Nat, acceptedAt : Nat, length : Nat]]
    <2> DEFINE V == [settlementIndex : Nat, acceptedAt : Nat, length : Nat]
               v == [settlementIndex |-> r.batchSequence, acceptedAt |-> timestamp,
                     length |-> r.stateAfter.innerActionLength]
    <2>1. v \in V
      BY <1>1, <1>3, <1>5 DEF ReceiptShape, SettlementTypeOK
    <2>2. acceptedInnerActionState' =
              Put(acceptedInnerActionState, r.stateAfter.innerActionState, v)
      BY <1>3 DEF VerifyAndUpdateRoot
    <2>3. /\ DOMAIN acceptedInnerActionState \subseteq Seq(InnerAction)
          /\ acceptedInnerActionState \in [DOMAIN acceptedInnerActionState -> V]
      BY <1>1 DEF SettlementTypeOK
    <2> HIDE DEF V, v
    <2>4. /\ DOMAIN acceptedInnerActionState' \subseteq Seq(InnerAction)
          /\ acceptedInnerActionState' \in [DOMAIN acceptedInnerActionState' -> V]
      BY <1>5, <2>1, <2>2, <2>3 DEF Put
    <2>5. QED
      BY <2>4 DEF V
  <1>9. /\ DOMAIN innerActionBatch' \subseteq Nat
        /\ innerActionBatch' \in [DOMAIN innerActionBatch' -> InnerBatches]
    <2>1. CASE r.version >= 2
      <3>1. InnerActionBatch(r) \in InnerBatches
        <4>1. r.innerActionRoot \in Seq(InnerLeaves)
          <5>1. \A i \in 1..Len(actions) :
                   InnerActionLeaf(r.bridgeAddress,
                       r.stateBefore.innerActionLength + i - 1, actions[i]) \in InnerLeaves
            <6>1. /\ r.bridgeAddress \in Addresses
                  /\ r.stateBefore.innerActionLength \in Nat
                  /\ actions \in Seq(InnerAction)
              BY <1>3 DEF ReceiptShape, OuterStates
            <6>2. QED
              BY <6>1 DEF InnerActionLeaf, InnerLeaves
          <5>2. Len(actions) \in Nat
            BY <1>3, LenProperties DEF ReceiptShape
          <5>3. QED
            BY <1>3, <5>1, <5>2 DEF ReceiptShape, InnerActionRoot
        <4>2. /\ r.stateBefore.innerActionState \in Seq(InnerAction)
              /\ r.stateAfter.innerActionState \in Seq(InnerAction)
              /\ r.innerActionStartIndex \in Nat /\ r.innerActionCount \in Nat
              /\ r.slotUpper \in Nat
          BY <1>3, LenProperties DEF ReceiptShape, OuterStates
        <4>3. QED
          BY <4>1, <4>2 DEF InnerActionBatch, InnerBatches
      <3>2. innerActionBatch' = Put(innerActionBatch, r.batchSequence, InnerActionBatch(r))
        BY <1>3, <2>1 DEF VerifyAndUpdateRoot
      <3>3. QED
        BY <1>1, <1>3, <3>1, <3>2 DEF ReceiptShape, SettlementTypeOK, Put
    <2>2. CASE ~(r.version >= 2)
      BY <1>1, <1>3, <2>2 DEF VerifyAndUpdateRoot, SettlementTypeOK
    <2>3. QED
      BY <2>1, <2>2
  <1>10. /\ assetRegistryRoot' \in Seq(Records) /\ assetRegistryCount' \in Nat
    <2>1. r.assetRegistryRoot \in Seq(Records) /\ r.assetRegistryCount \in Nat
      BY <1>1, <1>3, PrefixesMember DEF ReceiptShape, SettlementTypeOK
    <2>2. QED
      BY <1>1, <1>3, <2>1 DEF VerifyAndUpdateRoot, SettlementTypeOK
  <1>11. /\ DOMAIN settledAssetRecordCommitment' \subseteq {RecordHash(rec) : rec \in Records}
         /\ settledAssetRecordCommitment'
                \in [DOMAIN settledAssetRecordCommitment' -> Commitments]
    <2> DEFINE K == {RecordHash(rec) : rec \in Records}
               k == RecordHash(r.assetRecords[1])
               v == RecordCommitment(r.assetRecords[1])
    <2>1. CASE r.version = 3
      <3>1. r.assetRecords[1] \in Records
        <4>1. appends \in Seq(Records) /\ Len(appends) = 1 /\ r.assetRecords = appends
          BY <1>3, <2>1 DEF ReceiptShape
        <4>2. QED
          BY <4>1, ElementOfSeq
      <3>2. k \in K /\ v \in Commitments
        BY <3>1 DEF Commitments
      <3>3. settledAssetRecordCommitment' = Put(settledAssetRecordCommitment, k, v)
        BY <1>3, <2>1 DEF VerifyAndUpdateRoot
      <3>4. DOMAIN settledAssetRecordCommitment \subseteq K
            /\ settledAssetRecordCommitment
                   \in [DOMAIN settledAssetRecordCommitment -> Commitments]
        BY <1>1 DEF SettlementTypeOK
      <3> HIDE DEF K, k, v
      <3>5. /\ DOMAIN settledAssetRecordCommitment' \subseteq K
            /\ settledAssetRecordCommitment'
                   \in [DOMAIN settledAssetRecordCommitment' -> Commitments]
        BY <3>2, <3>3, <3>4 DEF Put
      <3>6. QED
        BY <3>5 DEF K
    <2>2. CASE r.version # 3
      BY <1>1, <1>3, <2>2 DEF VerifyAndUpdateRoot, SettlementTypeOK
    <2>3. QED
      BY <2>1, <2>2
  <1>12. DOMAIN assetRegistryRecordBatch' \subseteq Nat
    BY <1>1, <1>3 DEF ReceiptShape, VerifyAndUpdateRoot, SettlementTypeOK, Put
  <1>13. SettlementTypeOK'
    BY <1>6, <1>7, <1>8, <1>9, <1>10, <1>11, <1>12 DEF SettlementTypeOK
  <1>14. QED
    BY <1>2, <1>13 DEF TypeInv, TypeOK, BridgeTypeOK, RegistryTypeOK, Accounts,
                       bridgeVars, registryVars

\* The checkpoints appendOuterWitnessBatch records, one per action.
LEMMA AppendedCheckpoints ==
    ASSUME SettlementTypeOK, NEW actions \in Seq(OuterActions),
           AppendOuterWitnesses(actionState, actions, ThisBridge)
    PROVE  /\ actionState' = actionState \o actions
           /\ actionState' \in Seq(OuterActions)
           /\ outerActionStateLength' = outerActionStateLength + Len(actions)
           /\ outerActionStateLength' \in Nat
           /\ DOMAIN outerActionStateInfo \subseteq DOMAIN outerActionStateInfo'
           /\ \A s \in DOMAIN outerActionStateInfo' :
                  \/ /\ s \in DOMAIN outerActionStateInfo
                     /\ outerActionStateInfo'[s] = outerActionStateInfo[s]
                  \/ \E i \in 1..Len(actions) :
                         /\ s = actionState \o SubSeq(actions, 1, i)
                         /\ outerActionStateInfo'[s] = outerActionStateLength + i
           /\ outerActionStateInfo' =
                  [s \in DOMAIN outerActionStateInfo' |-> outerActionStateInfo'[s]]
  <1> DEFINE states == {actionState \o SubSeq(actions, 1, i) : i \in 1..Len(actions)}
             lengthOf(s) == outerActionStateLength + Len(s) - Len(actionState)
  <1>1. actionState \in Seq(OuterActions) /\ outerActionStateLength \in Nat
    BY DEF SettlementTypeOK
  <1>2. outerActionStateInfo' =
            [s \in DOMAIN outerActionStateInfo \cup states |->
                IF s \in states THEN lengthOf(s) ELSE outerActionStateInfo[s]]
    BY DEF AppendOuterWitnesses
  <1>3. \A i \in 1..Len(actions) :
            lengthOf(actionState \o SubSeq(actions, 1, i)) = outerActionStateLength + i
    <2> SUFFICES ASSUME NEW i \in 1..Len(actions)
                 PROVE  lengthOf(actionState \o SubSeq(actions, 1, i))
                            = outerActionStateLength + i
      OBVIOUS
    <2>1. i \in 0..Len(actions) /\ Len(actionState) \in Nat
      BY <1>1, LenProperties
    <2>2. Len(actionState \o SubSeq(actions, 1, i)) = Len(actionState) + i
      BY <1>1, <2>1, PartialConcat
    <2>3. QED
      BY <1>1, <2>1, <2>2
  <1>4. /\ actionState' = actionState \o actions
        /\ outerActionStateLength' = outerActionStateLength + Len(actions)
    BY DEF AppendOuterWitnesses
  <1>5. \A s \in states : \E i \in 1..Len(actions) :
            s = actionState \o SubSeq(actions, 1, i)
            /\ lengthOf(s) = outerActionStateLength + i
    BY <1>3
  <1>6. DOMAIN outerActionStateInfo' = DOMAIN outerActionStateInfo \cup states
    BY <1>2
  <1> HIDE DEF states, lengthOf
  <1>7. \A s \in DOMAIN outerActionStateInfo' :
            outerActionStateInfo'[s] = IF s \in states THEN lengthOf(s)
                                                       ELSE outerActionStateInfo[s]
    BY <1>2, <1>6
  <1>8. actionState' \in Seq(OuterActions) /\ outerActionStateLength' \in Nat
    BY <1>1, <1>4, ConcatProperties, LenProperties
  <1>9. \A s \in DOMAIN outerActionStateInfo' :
            \/ /\ s \in DOMAIN outerActionStateInfo
               /\ outerActionStateInfo'[s] = outerActionStateInfo[s]
            \/ \E i \in 1..Len(actions) :
                   /\ s = actionState \o SubSeq(actions, 1, i)
                   /\ outerActionStateInfo'[s] = outerActionStateLength + i
    BY <1>5, <1>6, <1>7
  <1>10. outerActionStateInfo' =
             [s \in DOMAIN outerActionStateInfo' |-> outerActionStateInfo'[s]]
    BY <1>2
  <1>11. DOMAIN outerActionStateInfo \subseteq DOMAIN outerActionStateInfo'
    BY <1>6
  <1>12. QED
    BY <1>4, <1>8, <1>9, <1>10, <1>11

LEMMA BridgeDepositsTypes ==
    ASSUME TypeInv, BridgeDeposits
    PROVE  TypeInv'
  <1>1. UNCHANGED registryVars
    BY BridgeBatch
  <1>2. PICK d, leaves : BatchShape(d, leaves) /\ SubmitBridgeTransition(d)
    BY BridgeBatch
  <1> DEFINE witnesses == WitnessesOf(leaves)
  <1>3. witnesses \in Seq(OuterActions) /\ d.zekoActionStateBefore = actionState
    BY <1>2, WitnessesOfType DEF BatchShape, SubmitBridgeTransition, SettlementSourceMatches
  <1> HIDE DEF witnesses
  <1>4. d.zekoActionStateAfter = actionState \o witnesses
        /\ d.zekoActionStateAfter \in Seq(OuterActions)
    BY <1>2, <1>3, ConcatProperties DEF BatchShape, witnesses
  <1>5. AppendOuterWitnesses(actionState, witnesses, ThisBridge)
    <2>1. SubSeq(d.zekoActionStateAfter, Len(actionState) + 1, Len(d.zekoActionStateAfter))
              = witnesses
      BY <1>3, <1>4, SuffixOfConcat DEF TypeInv, TypeOK, SettlementTypeOK
    <2>2. QED
      BY <1>2, <1>3, <2>1 DEF SubmitBridgeTransition
  <1>6. SettlementTypeOK'
    <2>1. SettlementTypeOK
      BY DEF TypeInv, TypeOK
    <2>2. /\ DOMAIN outerActionStateInfo' \subseteq Seq(OuterActions)
          /\ outerActionStateInfo' \in [DOMAIN outerActionStateInfo' -> Nat]
      <3>1. \A i \in 1..Len(witnesses) :
                actionState \o SubSeq(witnesses, 1, i) \in Seq(OuterActions)
        BY <1>3, <2>1, PartialConcat DEF SettlementTypeOK
      <3>2. /\ \A s \in DOMAIN outerActionStateInfo' :
                  \/ /\ s \in DOMAIN outerActionStateInfo
                     /\ outerActionStateInfo'[s] = outerActionStateInfo[s]
                  \/ \E i \in 1..Len(witnesses) :
                         /\ s = actionState \o SubSeq(witnesses, 1, i)
                         /\ outerActionStateInfo'[s] = outerActionStateLength + i
            /\ outerActionStateInfo' =
                  [s \in DOMAIN outerActionStateInfo' |-> outerActionStateInfo'[s]]
        BY <1>3, <1>5, <2>1, AppendedCheckpoints
      <3>3. /\ \A s \in DOMAIN outerActionStateInfo :
                   s \in Seq(OuterActions) /\ outerActionStateInfo[s] \in Nat
            /\ outerActionStateLength \in Nat
        BY <2>1 DEF SettlementTypeOK
      <3>4. \A s \in DOMAIN outerActionStateInfo' :
                s \in Seq(OuterActions) /\ outerActionStateInfo'[s] \in Nat
        <4> SUFFICES ASSUME NEW s \in DOMAIN outerActionStateInfo'
                     PROVE  s \in Seq(OuterActions) /\ outerActionStateInfo'[s] \in Nat
          OBVIOUS
        <4>1. CASE /\ s \in DOMAIN outerActionStateInfo
                   /\ outerActionStateInfo'[s] = outerActionStateInfo[s]
          BY <4>1, <3>3
        <4>2. ASSUME NEW i \in 1..Len(witnesses),
                     s = actionState \o SubSeq(witnesses, 1, i),
                     outerActionStateInfo'[s] = outerActionStateLength + i
              PROVE  s \in Seq(OuterActions) /\ outerActionStateInfo'[s] \in Nat
          BY <3>1, <3>3, <4>2
        <4>3. QED
          BY <3>2, <4>1, <4>2
      <3>5. QED
        BY <3>2, <3>4
    <2>3. actionState' \in Seq(OuterActions) /\ outerActionStateLength' \in Nat
      BY <1>3, <1>5, <2>1, AppendedCheckpoints
    <2>4. UNCHANGED <<vkHash, outerState, batchSequence, acceptedInnerActionState,
                      innerActionBatch, bridgeContract, assetRegistryRoot,
                      assetRegistryCount, settledAssetRecordCommitment,
                      assetRegistryRecordBatch, timestamp>>
      BY <1>5 DEF AppendOuterWitnesses
    <2>5. QED
      BY <2>1, <2>2, <2>3, <2>4 DEF SettlementTypeOK
  <1>7. bridgedDepositNonce' \in Nat /\ processedActionState' \subseteq Seq(OuterActions)
    <2>1. d.ethereumNonceAfter \in Nat
      BY <1>2, LenProperties DEF BatchShape
    <2>2. QED
      BY <1>2, <1>4, <2>1 DEF SubmitBridgeTransition, TypeInv, TypeOK, BridgeTypeOK
  <1>8. UNCHANGED <<depositVars, assetVars, custodyVars, withdrawalVars, controlVars>>
    BY <1>2 DEF SubmitBridgeTransition
  <1>9. QED
    BY <1>1, <1>6, <1>7, <1>8
    DEF TypeInv, TypeOK, BridgeTypeOK, RegistryTypeOK, Accounts, registryVars,
        depositVars, assetVars, custodyVars, withdrawalVars, controlVars

\* Steps that leave the settlement contract alone keep its types.
LEMMA SettlementFrame ==
    ASSUME TypeInv, UNCHANGED <<settlementVars, timestamp>>
    PROVE  SettlementTypeOK'
  BY DEF TypeInv, TypeOK, SettlementTypeOK, settlementVars

\* The leaf of a new deposit, and the accumulator it extends.
LEMMA RecordDepositTypes ==
    ASSUME TypeInv, NEW token \in Assets, NEW amount \in Nat,
           RecordDeposit(token, amount)
    PROVE  /\ depositNonce' \in Nat
           /\ currentDepositState' \in Seq(Deposits)
           /\ Len(currentDepositState') = depositNonce'
           /\ DOMAIN depositStateByNonce' \subseteq Nat
           /\ depositStateByNonce' \in [DOMAIN depositStateByNonce' -> Seq(Deposits)]
  <1>1. depositNonce \in Nat /\ depositNonce + 1 \in Nat
    BY DEF TypeInv, TypeOK, BridgeTypeOK
  <1> DEFINE leaf == DepositLeaf(depositNonce + 1, token, amount)
  <1>2. leaf \in Deposits
    BY <1>1 DEF DepositLeaf, Deposits
  <1>3. /\ depositNonce' = depositNonce + 1
        /\ currentDepositState' = Append(currentDepositState, leaf)
        /\ depositStateByNonce' =
               Put(depositStateByNonce, depositNonce + 1, currentDepositState')
    BY DEF RecordDeposit
  <1> HIDE DEF leaf
  <1>4. currentDepositState' \in Seq(Deposits) /\ Len(currentDepositState') = depositNonce'
    BY <1>2, <1>3, AppendProperties DEF TypeInv, TypeOK, BridgeTypeOK, Accounts
  <1>5. QED
    BY <1>1, <1>3, <1>4 DEF TypeInv, TypeOK, BridgeTypeOK, Put

LEMMA DepositTypes ==
    ASSUME TypeInv, Deposit
    PROVE  TypeInv'
  <1>1. PICK value \in DepositValues :
             \/ DepositETH(value)
             \/ \E token \in Tokens, received \in 0..value :
                    SubmitDeposit(token, value, received)
    BY DEF Deposit
  <1>2. value \in Nat /\ Native \in Assets /\ Tokens \subseteq Assets /\ Native \notin Tokens
    BY ContractsAssumption DEF Assets
  <1>3. UNCHANGED registryVars
    BY DEF Deposit
  <1>4. CASE DepositETH(value)
    <2>1. ZekoAmount(Native, value) \in Nat /\ RecordDeposit(Native, ZekoAmount(Native, value))
      BY <1>2, <1>4, ConversionTypes DEF DepositETH
    <2>2. SettlementTypeOK'
      BY <1>4, SettlementFrame DEF DepositETH
    <2>3. /\ depositNonce' \in Nat
          /\ currentDepositState' \in Seq(Deposits)
          /\ Len(currentDepositState') = depositNonce'
          /\ DOMAIN depositStateByNonce' \subseteq Nat
          /\ depositStateByNonce' \in [DOMAIN depositStateByNonce' -> Seq(Deposits)]
      BY <1>2, <2>1, RecordDepositTypes
    <2>4. UNCHANGED <<escrowLiabilityByToken, transitionVars, assetVars, withdrawalVars,
                      controlVars>>
      BY <1>4 DEF DepositETH
    <2>5. /\ totalDepositedByToken' \in [Assets -> Nat] /\ nativeEscrowLiability' \in Nat
          /\ balance' \in [Assets -> Nat]
          /\ totalDepositedByToken'[Native] = nativeEscrowLiability'
          /\ \A t \in Tokens : totalDepositedByToken'[t] = escrowLiabilityByToken'[t]
      BY <1>2, <1>4, <2>4 DEF DepositETH, TypeInv, TypeOK, BridgeTypeOK, Accounts
    <2>6. QED
      BY <1>3, <2>2, <2>3, <2>4, <2>5
      DEF TypeInv, TypeOK, BridgeTypeOK, RegistryTypeOK, Accounts, registryVars,
          transitionVars, assetVars, withdrawalVars, controlVars
  <1>5. ASSUME NEW token \in Tokens, NEW received \in 0..value,
               SubmitDeposit(token, value, received)
        PROVE  TypeInv'
    <2>1. ZekoAmount(token, value) \in Nat /\ RecordDeposit(token, ZekoAmount(token, value))
      BY <1>2, <1>5, ConversionTypes DEF SubmitDeposit
    <2>2. SettlementTypeOK'
      BY <1>5, SettlementFrame DEF SubmitDeposit
    <2>3. /\ depositNonce' \in Nat
          /\ currentDepositState' \in Seq(Deposits)
          /\ Len(currentDepositState') = depositNonce'
          /\ DOMAIN depositStateByNonce' \subseteq Nat
          /\ depositStateByNonce' \in [DOMAIN depositStateByNonce' -> Seq(Deposits)]
      BY <1>2, <2>1, RecordDepositTypes
    <2>4. UNCHANGED <<nativeEscrowLiability, transitionVars, assetVars, withdrawalVars,
                      controlVars>>
      BY <1>5 DEF SubmitDeposit
    <2>5. /\ totalDepositedByToken' \in [Assets -> Nat]
          /\ escrowLiabilityByToken' \in [Tokens -> Nat]
          /\ balance' \in [Assets -> Nat]
          /\ totalDepositedByToken'[Native] = nativeEscrowLiability'
          /\ \A t \in Tokens : totalDepositedByToken'[t] = escrowLiabilityByToken'[t]
      <3>1. /\ totalDepositedByToken \in [Assets -> Nat]
            /\ escrowLiabilityByToken \in [Tokens -> Nat] /\ balance \in [Assets -> Nat]
            /\ totalDepositedByToken[Native] = nativeEscrowLiability
            /\ \A t \in Tokens : totalDepositedByToken[t] = escrowLiabilityByToken[t]
        BY <1>2 DEF TypeInv, TypeOK, BridgeTypeOK, Accounts
      <3>2. /\ value \in Nat /\ received \in Nat /\ token \in Assets /\ token # Native
            /\ totalDepositedByToken' = [totalDepositedByToken EXCEPT ![token] = @ + value]
            /\ escrowLiabilityByToken' = [escrowLiabilityByToken EXCEPT ![token] = @ + value]
            /\ balance' = [balance EXCEPT ![token] = @ + received]
            /\ nativeEscrowLiability' = nativeEscrowLiability
        BY <1>2, <1>5 DEF SubmitDeposit
      <3>3. QED
        BY <1>2, <3>1, <3>2
    <2>6. QED
      BY <1>3, <2>2, <2>3, <2>4, <2>5
      DEF TypeInv, TypeOK, BridgeTypeOK, RegistryTypeOK, Accounts, registryVars,
          transitionVars, assetVars, withdrawalVars, controlVars
  <1>6. QED
    BY <1>1, <1>4, <1>5

\* The history entry of a claim.
LEMMA ClaimedType ==
    ASSUME TypeInv, NEW sequence \in Nat, NEW index \in Nat,
           NEW action \in InnerAction, action.kind = "withdrawal"
    PROVE  Claimed(sequence, index, action) \in
               [sequence : Nat, index : Nat, token : Assets, recipient : Recipients,
                amount : Nat, slot : Nat]
  <1>1. CurrentVirtualSlot \in Nat
    BY SlotType DEF TypeInv, TypeOK, SettlementTypeOK
  <1>2. action.token \in Assets /\ action.recipient \in Recipients /\ action.amount \in Nat
    BY DEF InnerAction, RawAction
  <1>3. QED
    BY <1>1, <1>2 DEF Claimed

LEMMA ClaimTypes ==
    ASSUME TypeInv, Claim
    PROVE  TypeInv'
  <1>1. PICK sequence \in DOMAIN innerActionBatch :
        \E offset \in 0..innerActionBatch[sequence].count :
        \E action \in ToSet(outerState.innerActionState) :
           /\ action.kind = "withdrawal"
           /\ \/ ClaimNativeWithdrawal(sequence, offset, action)
              \/ \E spent, received \in 0..action.amount :
                     ClaimERC20Withdrawal(sequence, offset, action, spent, received)
    BY DEF Claim
  <1>2. PICK offset \in 0..innerActionBatch[sequence].count,
             action \in ToSet(outerState.innerActionState) :
           /\ action.kind = "withdrawal"
           /\ \/ ClaimNativeWithdrawal(sequence, offset, action)
              \/ \E spent, received \in 0..action.amount :
                     ClaimERC20Withdrawal(sequence, offset, action, spent, received)
    BY <1>1
  <1> DEFINE index == innerActionBatch[sequence].startIndex + offset
  <1>3. sequence \in Nat /\ index \in Nat
    BY DEF TypeInv, TypeOK, SettlementTypeOK, InnerBatches
  <1>4. action \in InnerAction
    <2>1. outerState.innerActionState \in Seq(InnerAction)
      BY DEF TypeInv, TypeOK, SettlementTypeOK, OuterStates
    <2>2. QED
      BY <2>1 DEF ToSet
  <1>5. action.token \in Assets /\ action.recipient \in Recipients /\ action.amount \in Nat
    BY <1>2, <1>4 DEF InnerAction, RawAction
  <1>6. UNCHANGED registryVars
    BY DEF Claim
  <1> DEFINE Claims == [sequence : Nat, index : Nat, token : Assets,
                        recipient : Recipients, amount : Nat, slot : Nat]
  <1>7. Claimed(sequence, index, action) \in Claims
    BY <1>2, <1>3, <1>4, ClaimedType
  <1>8. claims \in Seq(Claims)
    BY DEF TypeInv, TypeOK, BridgeTypeOK
  <1>9. Append(claims, Claimed(sequence, index, action)) \in Seq(Claims)
    BY <1>7, <1>8, AppendProperties
  <1>10. Native \in Assets /\ Tokens \subseteq Assets /\ Native \notin Tokens
    BY ContractsAssumption DEF Assets
  <1> HIDE DEF index
  <1>11. CASE ClaimNativeWithdrawal(sequence, offset, action)
    <2> DEFINE value == EthereumAmount(Native, action.amount)
    <2>1. value \in Nat
      BY <1>5, ConversionTypes
    <2> HIDE DEF value
    <2>2. /\ value <= nativeEscrowLiability
          /\ value <= balance[Native]
          /\ nextWithdrawalIndex' =
                 [nextWithdrawalIndex EXCEPT ![action.recipient] = index + 1]
          /\ nativeEscrowLiability' = nativeEscrowLiability - value
          /\ totalDepositedByToken' = [totalDepositedByToken EXCEPT ![Native] = @ - value]
          /\ balance' = [balance EXCEPT ![Native] = @ - value]
          /\ claims' = Append(claims, Claimed(sequence, index, action))
      BY <1>11 DEF ClaimNativeWithdrawal, EscrowCovers, index, value
    <2>3. SettlementTypeOK'
      BY <1>11, SettlementFrame DEF ClaimNativeWithdrawal
    <2>4. UNCHANGED <<escrowLiabilityByToken, nextTokenWithdrawalIndex, depositVars,
                      transitionVars, assetVars, controlVars>>
      BY <1>11 DEF ClaimNativeWithdrawal
    <2>5. /\ totalDepositedByToken' \in [Assets -> Nat] /\ nativeEscrowLiability' \in Nat
          /\ balance' \in [Assets -> Nat]
          /\ nextWithdrawalIndex' \in [Recipients -> Nat]
          /\ totalDepositedByToken'[Native] = nativeEscrowLiability'
          /\ \A t \in Tokens : totalDepositedByToken'[t] = escrowLiabilityByToken'[t]
      <3>1. nextWithdrawalIndex' \in [Recipients -> Nat]
        BY <1>3, <1>5, <2>2 DEF TypeInv, TypeOK, BridgeTypeOK
      <3>2. /\ balance \in [Assets -> Nat] /\ totalDepositedByToken \in [Assets -> Nat]
            /\ nativeEscrowLiability \in Nat
            /\ totalDepositedByToken[Native] = nativeEscrowLiability
            /\ \A t \in Tokens : totalDepositedByToken[t] = escrowLiabilityByToken'[t]
        BY <2>4 DEF TypeInv, TypeOK, BridgeTypeOK, Accounts
      <3>3. /\ totalDepositedByToken'[Native] = nativeEscrowLiability'
            /\ \A t \in Tokens : totalDepositedByToken'[t] = escrowLiabilityByToken'[t]
        BY <1>10, <2>2, <3>2
      <3>4. balance[Native] - value \in Nat /\ totalDepositedByToken[Native] - value \in Nat
            /\ nativeEscrowLiability - value \in Nat
        BY <1>10, <2>1, <2>2, <3>2
      <3>5. QED
        BY <1>10, <2>2, <3>1, <3>2, <3>3, <3>4
    <2>6. claims' \in Seq(Claims)
      BY <1>9, <2>2
    <2>7. QED
      BY <1>6, <2>3, <2>4, <2>5, <2>6
      DEF TypeInv, TypeOK, BridgeTypeOK, RegistryTypeOK, Accounts, registryVars,
          depositVars, transitionVars, assetVars, controlVars
  <1>12. ASSUME NEW spent \in 0..action.amount, NEW received \in 0..action.amount,
                ClaimERC20Withdrawal(sequence, offset, action, spent, received)
         PROVE  TypeInv'
    <2> DEFINE token == action.token
    <2>1. token \in Tokens /\ spent \in Nat
      BY <1>5, <1>12 DEF ClaimERC20Withdrawal
    <2>2. /\ action.amount <= escrowLiabilityByToken[token]
          /\ spent <= balance[token]
          /\ nextTokenWithdrawalIndex' =
                 [nextTokenWithdrawalIndex EXCEPT ![token][action.recipient] = index + 1]
          /\ escrowLiabilityByToken' =
                 [escrowLiabilityByToken EXCEPT ![token] = @ - action.amount]
          /\ totalDepositedByToken' =
                 [totalDepositedByToken EXCEPT ![token] = @ - action.amount]
          /\ balance' = [balance EXCEPT ![token] = @ - spent]
          /\ claims' = Append(claims, Claimed(sequence, index, action))
      BY <1>12 DEF ClaimERC20Withdrawal, EscrowCovers, index
    <2>3. SettlementTypeOK'
      BY <1>12, SettlementFrame DEF ClaimERC20Withdrawal
    <2>4. UNCHANGED <<nativeEscrowLiability, nextWithdrawalIndex, depositVars,
                      transitionVars, assetVars, controlVars>>
      BY <1>12 DEF ClaimERC20Withdrawal
    <2> HIDE DEF token
    <2>5. /\ totalDepositedByToken' \in [Assets -> Nat]
          /\ escrowLiabilityByToken' \in [Tokens -> Nat]
          /\ balance' \in [Assets -> Nat]
          /\ totalDepositedByToken'[Native] = nativeEscrowLiability'
          /\ \A t \in Tokens : totalDepositedByToken'[t] = escrowLiabilityByToken'[t]
      <3>1. /\ balance \in [Assets -> Nat] /\ totalDepositedByToken \in [Assets -> Nat]
            /\ escrowLiabilityByToken \in [Tokens -> Nat]
            /\ totalDepositedByToken[Native] = nativeEscrowLiability'
            /\ \A t \in Tokens : totalDepositedByToken[t] = escrowLiabilityByToken[t]
        BY <2>4 DEF TypeInv, TypeOK, BridgeTypeOK, Accounts
      <3>2. token \in Assets /\ token # Native
        BY <1>10, <2>1
      <3>3. /\ totalDepositedByToken'[Native] = nativeEscrowLiability'
            /\ \A t \in Tokens : totalDepositedByToken'[t] = escrowLiabilityByToken'[t]
        BY <1>10, <2>1, <2>2, <3>1, <3>2
      <3>4. balance[token] - spent \in Nat
            /\ totalDepositedByToken[token] - action.amount \in Nat
            /\ escrowLiabilityByToken[token] - action.amount \in Nat
        BY <1>5, <2>1, <2>2, <3>1, <3>2
      <3>5. QED
        BY <2>1, <2>2, <3>1, <3>2, <3>3, <3>4
    <2>6. nextTokenWithdrawalIndex' \in [Tokens -> [Recipients -> Nat]]
      <3>1. nextTokenWithdrawalIndex \in [Tokens -> [Recipients -> Nat]]
        BY DEF TypeInv, TypeOK, BridgeTypeOK
      <3>2. [nextTokenWithdrawalIndex[token] EXCEPT ![action.recipient] = index + 1]
                \in [Recipients -> Nat]
        BY <1>3, <1>5, <2>1, <3>1
      <3>3. QED
        BY <2>1, <2>2, <3>1, <3>2
    <2>7. claims' \in Seq(Claims)
      BY <1>9, <2>2
    <2>8. QED
      BY <1>6, <2>3, <2>4, <2>5, <2>6, <2>7
      DEF TypeInv, TypeOK, BridgeTypeOK, RegistryTypeOK, Accounts, registryVars,
          depositVars, transitionVars, assetVars, controlVars
  <1>13. QED
    BY <1>2, <1>11, <1>12

LEMMA AdministerTypes ==
    ASSUME TypeInv, Administer
    PROVE  TypeInv'
  <1>1. CASE \E vk \in VkHashes : SetVkHash(vk) /\ UNCHANGED <<bridgeVars, registryVars>>
    BY <1>1 DEF SetVkHash, TypeInv, TypeOK, SettlementTypeOK, BridgeTypeOK,
                RegistryTypeOK, Accounts, bridgeVars, registryVars
  <1>2. CASE \E bridge \in Addresses :
                 SetBridgeContract(bridge) /\ UNCHANGED <<bridgeVars, registryVars>>
    BY <1>2 DEF SetBridgeContract, TypeInv, TypeOK, SettlementTypeOK, BridgeTypeOK,
                RegistryTypeOK, Accounts, bridgeVars, registryVars
  <1>3. CASE (Pause \/ Unpause) /\ UNCHANGED registryVars
    <2>1. PICK value \in BOOLEAN : SetPaused(value)
      BY <1>3, Zenon DEF Pause, Unpause
    <2>2. SettlementTypeOK'
      BY <2>1, SettlementFrame DEF SetPaused
    <2>3. paused' \in BOOLEAN
      BY <2>1, Zenon DEF SetPaused
    <2>4. QED
      BY <1>3, <2>1, <2>2, <2>3
      DEF SetPaused, TypeInv, TypeOK, BridgeTypeOK, RegistryTypeOK, Accounts,
          registryVars, depositVars, transitionVars, assetVars, custodyVars,
          withdrawalVars
  <1>4. CASE \E delay \in Delays :
                 SetWithdrawalDelaySlots(delay) /\ UNCHANGED registryVars
    <2>1. SettlementTypeOK'
      BY <1>4, SettlementFrame DEF SetWithdrawalDelaySlots
    <2>2. QED
      BY <1>4, <2>1 DEF SetWithdrawalDelaySlots, TypeInv, TypeOK, BridgeTypeOK,
                        RegistryTypeOK, Accounts, registryVars, depositVars,
                        transitionVars, assetVars, custodyVars, withdrawalVars
  <1>5. ASSUME NEW a \in Assets, NEW n \in 1..(MaxBalance + 1),
               EmergencyWithdrawToken(a, n), UNCHANGED registryVars
        PROVE  TypeInv'
    <2>1. SettlementTypeOK'
      BY <1>5, SettlementFrame DEF EmergencyWithdrawToken
    <2>2. balance' \in [Assets -> Nat]
      <3>1. n \in Nat /\ n <= balance[a]
        BY <1>5, ContractsAssumption
        DEF EmergencyWithdrawToken, AvailableForEmergency, Assets, TypeInv, TypeOK,
            BridgeTypeOK
      <3>2. QED
        BY <1>5, <3>1 DEF EmergencyWithdrawToken, TypeInv, TypeOK, BridgeTypeOK
    <2>3. QED
      BY <1>5, <2>1, <2>2
      DEF EmergencyWithdrawToken, TypeInv, TypeOK, BridgeTypeOK, RegistryTypeOK,
          Accounts, registryVars, depositVars, transitionVars, assetVars,
          withdrawalVars, controlVars
  <1>6. QED
    BY <1>1, <1>2, <1>3, <1>4, <1>5 DEF Administer

\* The registry touches custody only through allowedToken and canonicalRecord.
LEMMA RegistryFrame ==
    ASSUME TypeInv, custodyUnchanged, RegistryTypeOK',
           allowedToken' \in [Assets -> BOOLEAN],
           canonicalRecord' \in [Tokens -> Records \cup {NoRecord}],
           \A t \in Tokens : assetStatusByToken'[t] # "None"
                                 => assetRecordByToken'[t] \in Records /\ assetRecordByToken'[t].token = t
    PROVE  TypeInv'
  <1>1. SettlementTypeOK'
    BY SettlementFrame DEF custodyUnchanged
  <1>2. QED
    BY <1>1 DEF custodyUnchanged, TypeInv, TypeOK, BridgeTypeOK, Accounts, depositVars,
                transitionVars, custodyVars, withdrawalVars, controlVars

LEMMA RegisterTypes ==
    ASSUME TypeInv, Register
    PROVE  TypeInv'
  <1>1. /\ RegistryTypeOK
        /\ allowedToken \in [Assets -> BOOLEAN]
        /\ canonicalRecord \in [Tokens -> Records \cup {NoRecord}]
        /\ \A t \in Tokens : assetStatusByToken[t] # "None"
                                 => assetRecordByToken[t] \in Records /\ assetRecordByToken[t].token = t
        /\ AssetRegistryCapacity \in Nat
    BY SettlementAssumption DEF TypeInv, TypeOK, BridgeTypeOK, Accounts
  <1>2. \A rec \in Records : /\ rec.token \in Tokens /\ rec.identity \in Identities
                              /\ rec.registryIndex \in 0..(AssetRegistryCapacity - 1)
    BY DEF Records
  <1>3. ASSUME NEW record \in Records, ProposeAsset(record)
        PROVE  TypeInv'
    <2>1. RegistryTypeOK'
      BY <1>1, <1>2, <1>3 DEF ProposeAsset, RegistryTypeOK, AssetStatus, Put, AssetId
    <2>2. QED
      BY <1>1, <1>2, <1>3, <2>1, RegistryFrame DEF ProposeAsset, assetVars, RegistryTypeOK
  <1>4. ASSUME NEW token \in Tokens, CancelLastPendingAsset(token)
        PROVE  TypeInv'
    <2>1. assetRecordByToken[token] \in Records
      BY <1>1, <1>4 DEF CancelLastPendingAsset
    <2>2. RegistryTypeOK'
      BY <1>1, <1>2, <1>4, <2>1 DEF CancelLastPendingAsset, RegistryTypeOK, AssetStatus
    <2>3. QED
      BY <1>1, <1>4, <2>2, RegistryFrame DEF CancelLastPendingAsset, assetVars, RegistryTypeOK
  <1>5. ASSUME NEW token \in Tokens, assetStatusByToken[token] = "Pending",
               Activate(assetRecordByToken[token])
        PROVE  TypeInv'
    <2>1. assetRecordByToken[token] \in Records /\ assetRecordByToken[token].token = token
      BY <1>1, <1>5
    <2>2. RegistryTypeOK'
      BY <1>1, <1>2, <1>5, <2>1 DEF Activate, RegistryTypeOK, AssetStatus
    <2>3. QED
      BY <1>1, <1>2, <1>5, <2>1, <2>2, RegistryFrame
      DEF Activate, ActivateAssetRecordFromRegistry, RegistryTypeOK, Assets
  <1>6. ASSUME NEW token \in Tokens, NEW status \in AssetStatus,
               SetAssetStatus(token, status)
        PROVE  TypeInv'
    <2>1. RegistryTypeOK'
      BY <1>1, <1>6 DEF SetAssetStatus, RegistryTypeOK, AssetStatus
    <2>2. QED
      BY <1>1, <1>6, <2>1, RegistryFrame
      DEF SetAssetStatus, SetAssetAllowedFromRegistry, RegistryTypeOK, Assets
  <1>7. QED
    BY <1>3, <1>4, <1>5, <1>6 DEF Register, ActivateAsset, ActivateAssetFromBatch

LEMMA InitTypes == Init => TypeInv
  <1> SUFFICES ASSUME Init PROVE TypeInv
    OBVIOUS
  <1>1. SettlementTypeOK
    BY SettlementAssumption
    DEF Init, SettlementInit, SettlementTypeOK, InitialOuterState, OuterStates
  <1>2. BridgeTypeOK
    <2>1. allowedToken \in [Assets -> BOOLEAN]
      BY Zenon DEF Init, BridgeInit
    <2>2. paused \in BOOLEAN
      BY Zenon DEF Init, BridgeInit
    <2>3. /\ currentDepositState \in Seq(Deposits)
          /\ DOMAIN depositStateByNonce \subseteq Nat
          /\ depositStateByNonce \in [DOMAIN depositStateByNonce -> Seq(Deposits)]
      BY EmptySeq DEF Init, BridgeInit
    <2>4. /\ canonicalRecord \in [Tokens -> Records \cup {NoRecord}]
          /\ totalDepositedByToken \in [Assets -> Nat]
          /\ escrowLiabilityByToken \in [Tokens -> Nat]
          /\ balance \in [Assets -> Nat]
      BY DEF Init, BridgeInit
    <2>5. /\ nextWithdrawalIndex \in [Recipients -> Nat]
          /\ nextTokenWithdrawalIndex \in [Tokens -> [Recipients -> Nat]]
      BY DEF Init, BridgeInit
    <2>6. /\ depositNonce \in Nat /\ bridgedDepositNonce \in Nat
          /\ nativeEscrowLiability \in Nat
          /\ processedActionState \subseteq Seq(OuterActions)
          /\ withdrawalDelaySlots \in Delays
          /\ claims = << >>
      BY ContractsAssumption DEF Init, BridgeInit
    <2>7. QED
      BY <2>1, <2>2, <2>3, <2>4, <2>5, <2>6 DEF BridgeTypeOK
  <1>3. RegistryTypeOK
    BY SettlementAssumption DEF Init, RegistryInit, RegistryTypeOK, AssetStatus
  <1>4. Accounts
    BY ContractsAssumption DEF Init, BridgeInit, RegistryInit, Accounts, Assets
  <1>5. QED
    BY <1>1, <1>2, <1>3, <1>4 DEF TypeInv, TypeOK

\* Every transaction, and every stuttering step, preserves TypeInv.
LEMMA NextTypes == TypeInv /\ [Next]_vars => TypeInv'
  <1> SUFFICES ASSUME TypeInv, [Next]_vars PROVE TypeInv'
    OBVIOUS
  <1>1. CASE Tick
    <2>1. UNCHANGED <<settlementVars, bridgeVars, registryVars>> /\ timestamp' = timestamp + 1
      BY <1>1 DEF Tick
    <2>2. SettlementTypeOK'
      BY <2>1 DEF TypeInv, TypeOK, SettlementTypeOK, settlementVars
    <2>3. QED
      BY <2>1, <2>2 DEF TypeInv, TypeOK, BridgeTypeOK, RegistryTypeOK, Accounts,
                        bridgeVars, registryVars
  <1>2. CASE Gift
    <2>1. PICK token \in Tokens : Donate(token, 1)
      BY <1>2 DEF Gift
    <2>2. SettlementTypeOK'
      BY <2>1, SettlementFrame DEF Donate
    <2>3. balance' \in [Assets -> Nat]
      BY <2>1 DEF Donate, TypeInv, TypeOK, BridgeTypeOK, Assets
    <2>4. UNCHANGED registryVars
      BY <1>2 DEF Gift
    <2>5. QED
      BY <2>1, <2>2, <2>3, <2>4
      DEF Donate, TypeInv, TypeOK, BridgeTypeOK, RegistryTypeOK, Accounts, registryVars,
          depositVars, transitionVars, assetVars, withdrawalVars, controlVars
  <1>3. CASE UNCHANGED vars
    BY <1>3 DEF vars, TypeInv, TypeOK, SettlementTypeOK, BridgeTypeOK, RegistryTypeOK,
                Accounts, settlementVars, bridgeVars, registryVars
  <1>4. QED
    BY <1>1, <1>2, <1>3, SettleTypes, BridgeDepositsTypes, DepositTypes, ClaimTypes,
       AdministerTypes, RegisterTypes DEF Next

\* Every storage slot of the three contracts always holds a value of its
\* type: no subtraction in a claim, an emergency withdrawal or a cancellation
\* goes below zero, for any number of tokens, recipients and transactions.
THEOREM TypeCorrect == Spec => []TypeOK
  <1>1. TypeInv => TypeOK
    BY DEF TypeInv
  <1>2. QED
    BY <1>1, InitTypes, NextTypes, PTL DEF Spec

-----------------------------------------------------------------------------
(* The outer log.                                                          *)

logVars == <<outerState, actionState, outerActionStateLength, batchSequence,
             outerActionStateInfo, acceptedInnerActionState, innerActionBatch,
             assetRegistryRoot, assetRegistryCount, settledAssetRecordCommitment,
             assetRegistryRecordBatch>>

\* Only verifyAndUpdateRoot and submitBridgeTransition write the logs.
LEMMA LogFrame ==
    ASSUME [Next]_vars, ~Settle, ~BridgeDeposits
    PROVE  UNCHANGED logVars
  <1>1. CASE Deposit
    BY <1>1 DEF Deposit, DepositETH, SubmitDeposit, logVars, settlementVars
  <1>2. CASE Claim
    BY <1>2 DEF Claim, ClaimNativeWithdrawal, ClaimERC20Withdrawal, logVars, settlementVars
  <1>3. CASE Administer
    BY <1>3 DEF Administer, SetVkHash, SetBridgeContract, Pause, Unpause, SetPaused,
                SetWithdrawalDelaySlots, EmergencyWithdrawToken, logVars, settlementVars
  <1>4. CASE Register
    BY <1>4 DEF Register, ProposeAsset, CancelLastPendingAsset, ActivateAsset,
                ActivateAssetFromBatch, Activate, SetAssetStatus, custodyUnchanged,
                logVars, settlementVars
  <1>5. CASE Tick \/ Gift
    BY <1>5 DEF Tick, Gift, Donate, logVars, settlementVars
  <1>6. CASE UNCHANGED vars
    BY <1>6 DEF vars, logVars, settlementVars
  <1>7. QED
    BY <1>1, <1>2, <1>3, <1>4, <1>5, <1>6 DEF Next

-----------------------------------------------------------------------------
(* Checkpoints.                                                            *)

LEMMA SettleCheckpoints ==
    ASSUME TypeInv, CheckpointsArePrefixes, Settle
    PROVE  CheckpointsArePrefixes'
  <1>1. SettlementTypeOK
    BY DEF TypeInv, TypeOK
  <1>2. PICK r, actions, appends :
             ReceiptShape(r, actions, appends) /\ VerifyAndUpdateRoot(r)
    BY <1>1, SettleReceipt
  <1> DEFINE commit == Commit(r.stateAfter, r.synchronizedOuterActionStateLength)
  <1>3. /\ actionState' = Append(actionState, commit)
        /\ outerActionStateLength' = outerActionStateLength + 1
        /\ outerActionStateInfo' = Put(outerActionStateInfo, actionState',
                                       outerActionStateLength')
    BY <1>2 DEF ReceiptShape, VerifyAndUpdateRoot, SourceActionStateMatches,
                SourceLengthMatches
  <1>4. commit \in OuterActions /\ actionState \in Seq(OuterActions)
    BY <1>1, <1>2 DEF ReceiptShape, Commit, OuterActions, SettlementTypeOK
  <1> HIDE DEF commit
  <1>5. actionState' \in Seq(OuterActions) /\ Len(actionState') = Len(actionState) + 1
    BY <1>3, <1>4, AppendProperties
  <1>6. outerActionStateLength' = InitialLength + Len(actionState')
    BY <1>3, <1>4, <1>5, LenProperties, SettlementAssumption DEF CheckpointsArePrefixes
  <1>7. \A s \in DOMAIN outerActionStateInfo : IsPrefix(s, actionState')
    BY <1>1, <1>3, <1>4, PrefixOfAppend DEF CheckpointsArePrefixes, SettlementTypeOK
  <1>8. IsPrefix(actionState', actionState')
    BY <1>5, PrefixReflexive
  <1>9. \A s \in DOMAIN outerActionStateInfo' :
            IsPrefix(s, actionState') /\ outerActionStateInfo'[s] = InitialLength + Len(s)
    BY <1>3, <1>6, <1>7, <1>8 DEF CheckpointsArePrefixes, Put
  <1>10. QED
    BY <1>6, <1>9 DEF CheckpointsArePrefixes

\* What submitBridgeTransition appends.
LEMMA BridgeAppends ==
    ASSUME TypeInv, BridgeDeposits
    PROVE  \E d, leaves :
              /\ BatchShape(d, leaves) /\ SubmitBridgeTransition(d)
              /\ AppendOuterWitnesses(actionState, WitnessesOf(leaves), ThisBridge)
              /\ WitnessesOf(leaves) \in Seq(OuterActions)
  <1>1. PICK d, leaves : BatchShape(d, leaves) /\ SubmitBridgeTransition(d)
    BY BridgeBatch
  <1> DEFINE witnesses == WitnessesOf(leaves)
  <1>2. witnesses \in Seq(OuterActions) /\ d.zekoActionStateBefore = actionState
    BY <1>1, WitnessesOfType DEF BatchShape, SubmitBridgeTransition, SettlementSourceMatches
  <1>3. d.zekoActionStateAfter = actionState \o witnesses
    BY <1>1, <1>2 DEF BatchShape
  <1> HIDE DEF witnesses
  <1>4. SubSeq(d.zekoActionStateAfter, Len(actionState) + 1, Len(d.zekoActionStateAfter))
            = witnesses
    BY <1>2, <1>3, SuffixOfConcat DEF TypeInv, TypeOK, SettlementTypeOK
  <1>5. AppendOuterWitnesses(actionState, witnesses, ThisBridge)
    BY <1>1, <1>2, <1>4 DEF SubmitBridgeTransition
  <1>6. QED
    BY <1>1, <1>2, <1>5 DEF witnesses

LEMMA BridgeCheckpoints ==
    ASSUME TypeInv, CheckpointsArePrefixes, BridgeDeposits
    PROVE  CheckpointsArePrefixes'
  <1>1. PICK d, leaves :
             /\ BatchShape(d, leaves) /\ SubmitBridgeTransition(d)
             /\ AppendOuterWitnesses(actionState, WitnessesOf(leaves), ThisBridge)
             /\ WitnessesOf(leaves) \in Seq(OuterActions)
    BY BridgeAppends
  <1> DEFINE witnesses == WitnessesOf(leaves)
  <1>2. SettlementTypeOK /\ actionState \in Seq(OuterActions)
        /\ DOMAIN outerActionStateInfo \subseteq Seq(OuterActions)
    BY DEF TypeInv, TypeOK, SettlementTypeOK
  <1>3. witnesses \in Seq(OuterActions)
        /\ AppendOuterWitnesses(actionState, witnesses, ThisBridge)
    BY <1>1
  <1> HIDE DEF witnesses
  <1>4. /\ actionState' = actionState \o witnesses
        /\ outerActionStateLength' = outerActionStateLength + Len(witnesses)
        /\ \A s \in DOMAIN outerActionStateInfo' :
              \/ /\ s \in DOMAIN outerActionStateInfo
                 /\ outerActionStateInfo'[s] = outerActionStateInfo[s]
              \/ \E i \in 1..Len(witnesses) :
                     /\ s = actionState \o SubSeq(witnesses, 1, i)
                     /\ outerActionStateInfo'[s] = outerActionStateLength + i
    BY <1>2, <1>3, AppendedCheckpoints
  <1>5. outerActionStateLength = InitialLength + Len(actionState) /\ Len(actionState) \in Nat
        /\ Len(witnesses) \in Nat /\ InitialLength \in Nat
    BY <1>2, <1>3, LenProperties, SettlementAssumption DEF CheckpointsArePrefixes
  <1>6. outerActionStateLength' = InitialLength + Len(actionState')
    BY <1>2, <1>3, <1>4, <1>5, ConcatProperties
  <1>7. ASSUME NEW s \in DOMAIN outerActionStateInfo'
        PROVE  IsPrefix(s, actionState') /\ outerActionStateInfo'[s] = InitialLength + Len(s)
    <2>1. CASE /\ s \in DOMAIN outerActionStateInfo
               /\ outerActionStateInfo'[s] = outerActionStateInfo[s]
      <3>1. IsPrefix(s, actionState) /\ outerActionStateInfo[s] = InitialLength + Len(s)
            /\ s \in Seq(OuterActions)
        BY <1>2, <2>1 DEF CheckpointsArePrefixes
      <3>2. QED
        BY <1>2, <1>3, <1>4, <2>1, <3>1, PrefixOfConcat
    <2>2. ASSUME NEW i \in 1..Len(witnesses),
                 s = actionState \o SubSeq(witnesses, 1, i),
                 outerActionStateInfo'[s] = outerActionStateLength + i
          PROVE  IsPrefix(s, actionState') /\ outerActionStateInfo'[s] = InitialLength + Len(s)
      <3>1. Len(s) = Len(actionState) + i /\ IsPrefix(s, actionState \o witnesses)
        BY <1>2, <1>3, <1>5, <2>2, PartialConcat
      <3>2. QED
        BY <1>4, <1>5, <2>2, <3>1
    <2>3. QED
      BY <1>4, <2>1, <2>2
  <1>8. QED
    BY <1>6, <1>7 DEF CheckpointsArePrefixes

LEMMA InitCheckpoints == Init => CheckpointsArePrefixes
  BY SettlementAssumption DEF Init, SettlementInit, CheckpointsArePrefixes, IsPrefix

LEMMA NextCheckpoints ==
    TypeInv /\ CheckpointsArePrefixes /\ [Next]_vars => CheckpointsArePrefixes'
  <1> SUFFICES ASSUME TypeInv, CheckpointsArePrefixes, [Next]_vars
               PROVE  CheckpointsArePrefixes'
    OBVIOUS
  <1>1. CASE ~Settle /\ ~BridgeDeposits
    BY <1>1, LogFrame DEF logVars, CheckpointsArePrefixes
  <1>2. QED
    BY <1>1, SettleCheckpoints, BridgeCheckpoints

\* The outer length counts the outer log and every checkpoint a settlement may
\* synchronize with is a prefix of it, stored with its true length.
THEOREM CheckpointsCorrect == Spec => []CheckpointsArePrefixes
  BY InitCheckpoints, NextCheckpoints, InitTypes, NextTypes, PTL DEF Spec

-----------------------------------------------------------------------------
(* Deposits.  The accumulator remembers its own prefixes under their       *)
(* nonces: this is what lets the two comparisons of DepositRangeMatches    *)
(* pin down every leaf of a batch, whatever nonce the host claimed.        *)

DepositChain ==
    /\ DOMAIN depositStateByNonce = 0..depositNonce
    /\ \A n \in 0..depositNonce : depositStateByNonce[n] = SubSeq(currentDepositState, 1, n)

DepositInv == DepositChain /\ DepositsBridgedOnce

LEMMA InitDeposits == Init => DepositInv
  BY DEF Init, SettlementInit, BridgeInit, DepositInv, DepositChain, DepositsBridgedOnce,
         Witnesses

depositLogVars == <<depositNonce, currentDepositState, depositStateByNonce,
                    bridgedDepositNonce>>

\* Steps other than deposits and transitions leave the deposit side alone.
LEMMA DepositFrame ==
    ASSUME [Next]_vars, ~Deposit, ~BridgeDeposits
    PROVE  UNCHANGED depositLogVars
  <1>1. CASE Settle
    BY <1>1 DEF Settle, depositLogVars, bridgeVars
  <1>2. CASE Claim
    BY <1>2 DEF Claim, ClaimNativeWithdrawal, ClaimERC20Withdrawal, depositLogVars,
                depositVars, transitionVars
  <1>3. CASE Administer
    BY <1>3 DEF Administer, SetVkHash, SetBridgeContract, Pause, Unpause, SetPaused,
                SetWithdrawalDelaySlots, EmergencyWithdrawToken, depositLogVars,
                depositVars, transitionVars, bridgeVars
  <1>4. CASE Register
    BY <1>4 DEF Register, ProposeAsset, CancelLastPendingAsset, ActivateAsset,
                ActivateAssetFromBatch, Activate, SetAssetStatus, custodyUnchanged,
                depositLogVars, depositVars, transitionVars
  <1>5. CASE Tick \/ Gift
    BY <1>5 DEF Tick, Gift, Donate, depositLogVars, depositVars, transitionVars, bridgeVars
  <1>6. CASE UNCHANGED vars
    BY <1>6 DEF vars, depositLogVars, bridgeVars
  <1>7. QED
    BY <1>1, <1>2, <1>3, <1>4, <1>5, <1>6 DEF Next

\* A settlement adds a Commit, never a Witness.
LEMMA SettleDeposits ==
    ASSUME TypeInv, DepositInv, Settle
    PROVE  DepositInv'
  <1>1. UNCHANGED depositLogVars
    BY DEF Settle, depositLogVars, bridgeVars
  <1>2. PICK r, actions, appends :
             ReceiptShape(r, actions, appends) /\ VerifyAndUpdateRoot(r)
    BY SettleReceipt DEF TypeInv, TypeOK
  <1> DEFINE commit == Commit(r.stateAfter, r.synchronizedOuterActionStateLength)
  <1>3. actionState' = Append(actionState, commit)
    BY <1>2 DEF ReceiptShape, VerifyAndUpdateRoot, SourceActionStateMatches
  <1>4. commit \in OuterActions /\ commit.kind = "commit"
        /\ actionState \in Seq(OuterActions)
    BY <1>2 DEF ReceiptShape, Commit, OuterActions, TypeInv, TypeOK, SettlementTypeOK
  <1> HIDE DEF commit
  <1>5. /\ DOMAIN actionState' = 1..(Len(actionState) + 1)
        /\ DOMAIN actionState = 1..Len(actionState)
        /\ \A i \in DOMAIN actionState : actionState'[i] = actionState[i]
        /\ actionState'[Len(actionState) + 1] = commit
    BY <1>3, <1>4
  <1>6. Witnesses(actionState') = Witnesses(actionState)
    BY <1>4, <1>5 DEF Witnesses
  <1>7. \A i \in Witnesses(actionState) : actionState'[i] = actionState[i]
    BY <1>5 DEF Witnesses
  <1>8. DepositsBridgedOnce'
    BY <1>1, <1>6, <1>7 DEF DepositInv, DepositsBridgedOnce, depositLogVars
  <1>9. QED
    BY <1>1, <1>8 DEF DepositInv, DepositChain, depositLogVars

\* What either deposit function records: one leaf, of a positive amount that
\* is worth, in Ethereum units, what its asset's liability grows by.
LEMMA DepositEffect ==
    ASSUME TypeInv, Deposit
    PROVE  \E leaf \in Deposits :
              /\ depositNonce' = depositNonce + 1
              /\ currentDepositState' = Append(currentDepositState, leaf)
              /\ depositStateByNonce' =
                     Put(depositStateByNonce, depositNonce + 1, currentDepositState')
              /\ leaf.amount > 0
              /\ \A a \in Assets :
                     Liability(a)' = IF a = leaf.token
                                     THEN Liability(a) + EthereumAmount(a, leaf.amount)
                                     ELSE Liability(a)
  <1>1. PICK value \in DepositValues :
             \/ DepositETH(value)
             \/ \E token \in Tokens, received \in 0..value :
                    SubmitDeposit(token, value, received)
    BY DEF Deposit
  <1>2. /\ value \in Nat /\ Native \notin Tokens /\ Assets = Tokens \cup {Native}
        /\ depositNonce + 1 \in Nat /\ nativeEscrowLiability \in Nat
        /\ escrowLiabilityByToken \in [Tokens -> Nat]
    BY ContractsAssumption DEF Assets, TypeInv, TypeOK, BridgeTypeOK
  <1>3. ASSUME NEW token \in Assets, RecordDeposit(token, ZekoAmount(token, value)),
               value > 0, ConvertibleAmount(token, value),
               \A a \in Assets : Liability(a)' = IF a = token THEN Liability(a) + value
                                                             ELSE Liability(a)
        PROVE  \E leaf \in Deposits :
                  /\ depositNonce' = depositNonce + 1
                  /\ currentDepositState' = Append(currentDepositState, leaf)
                  /\ depositStateByNonce' =
                         Put(depositStateByNonce, depositNonce + 1, currentDepositState')
                  /\ leaf.amount > 0
                  /\ \A a \in Assets :
                         Liability(a)' = IF a = leaf.token
                                         THEN Liability(a) + EthereumAmount(a, leaf.amount)
                                         ELSE Liability(a)
    <2> DEFINE amount == ZekoAmount(token, value)
               leaf == DepositLeaf(depositNonce + 1, token, amount)
    <2>1. amount \in Nat /\ amount > 0 /\ EthereumAmount(token, amount) = value
      BY <1>2, <1>3, ConversionExact
    <2>2. leaf \in Deposits /\ leaf.token = token /\ leaf.amount = amount
      BY <1>2, <1>3, <2>1 DEF DepositLeaf, Deposits
    <2>3. /\ depositNonce' = depositNonce + 1
          /\ currentDepositState' = Append(currentDepositState, leaf)
          /\ depositStateByNonce' =
                 Put(depositStateByNonce, depositNonce + 1, currentDepositState')
      BY <1>3 DEF RecordDeposit
    <2> HIDE DEF amount, leaf
    <2>4. \A a \in Assets :
              Liability(a)' = IF a = leaf.token
                              THEN Liability(a) + EthereumAmount(a, leaf.amount)
                              ELSE Liability(a)
      BY <1>3, <2>1, <2>2
    <2>5. leaf.amount > 0
      BY <2>1, <2>2
    <2>6. QED
      BY <2>2, <2>3, <2>4, <2>5
  <1>4. CASE DepositETH(value)
    <2>1. \A a \in Assets : Liability(a)' = IF a = Native THEN Liability(a) + value
                                                          ELSE Liability(a)
      BY <1>2, <1>4 DEF DepositETH, Liability
    <2>2. QED
      BY <1>2, <1>3, <1>4, <2>1 DEF DepositETH
  <1>5. ASSUME NEW token \in Tokens, NEW received \in 0..value,
               SubmitDeposit(token, value, received)
        PROVE  \E t \in Assets :
                  /\ RecordDeposit(t, ZekoAmount(t, value)) /\ value > 0
                  /\ ConvertibleAmount(t, value)
                  /\ \A a \in Assets : Liability(a)' = IF a = t THEN Liability(a) + value
                                                                ELSE Liability(a)
    <2>1. \A a \in Assets : Liability(a)' = IF a = token THEN Liability(a) + value
                                                         ELSE Liability(a)
      BY <1>2, <1>5 DEF SubmitDeposit, Liability
    <2>2. QED
      BY <1>2, <1>5, <2>1 DEF SubmitDeposit, ConvertibleAmount
  <1>6. QED
    BY <1>1, <1>3, <1>4, <1>5

\* A new deposit keeps every remembered prefix and every bridged leaf.
LEMMA DepositDeposits ==
    ASSUME TypeInv, DepositInv, Deposit
    PROVE  DepositInv'
  <1>1. UNCHANGED <<actionState, bridgedDepositNonce>>
    BY DEF Deposit, DepositETH, SubmitDeposit, transitionVars, settlementVars
  <1>2. PICK leaf \in Deposits :
             /\ depositNonce' = depositNonce + 1
             /\ currentDepositState' = Append(currentDepositState, leaf)
             /\ depositStateByNonce' =
                    Put(depositStateByNonce, depositNonce + 1, currentDepositState')
    BY DepositEffect DEF RecordDeposit
  <1>3. /\ currentDepositState \in Seq(Deposits) /\ depositNonce \in Nat
        /\ Len(currentDepositState) = depositNonce
        /\ bridgedDepositNonce \in Nat
    BY DEF TypeInv, TypeOK, BridgeTypeOK, Accounts
  <1>4. /\ currentDepositState' \in Seq(Deposits)
        /\ Len(currentDepositState') = depositNonce + 1
        /\ \A i \in 1..depositNonce : currentDepositState'[i] = currentDepositState[i]
    BY <1>2, <1>3, AppendProperties
  <1>5. DepositChain'
    <2>1. DOMAIN depositStateByNonce' = 0..depositNonce'
      BY <1>2, <1>3 DEF Put, DepositInv, DepositChain
    <2>2. ASSUME NEW n \in 0..depositNonce'
          PROVE  depositStateByNonce'[n] = SubSeq(currentDepositState', 1, n)
      <3>1. CASE n = depositNonce + 1
        <4>1. depositStateByNonce'[n] = currentDepositState'
          BY <1>2, <3>1 DEF Put
        <4>2. QED
          BY <1>4, <3>1, <4>1, SubSeqFull
      <3>2. CASE n # depositNonce + 1
        <4>1. n \in 0..depositNonce
          BY <1>2, <1>3, <3>2
        <4>2. depositStateByNonce'[n] = SubSeq(currentDepositState, 1, n)
          BY <1>2, <3>2, <4>1 DEF Put, DepositInv, DepositChain
        <4>3. SubSeq(currentDepositState', 1, n) = SubSeq(currentDepositState, 1, n)
          BY <1>2, <1>3, <4>1
        <4>4. QED
          BY <4>2, <4>3
      <3>3. QED
        BY <3>1, <3>2
    <2>3. QED
      BY <2>1, <2>2 DEF DepositChain
  <1>6. DepositsBridgedOnce'
    BY <1>1, <1>2, <1>3, <1>4 DEF DepositInv, DepositsBridgedOnce
  <1>7. QED
    BY <1>5, <1>6 DEF DepositInv

\* An accepted batch holds exactly the deposits after the bridged nonce.
LEMMA BatchLeaves ==
    ASSUME TypeInv, DepositInv, NEW d, NEW leaves,
           BatchShape(d, leaves), SubmitBridgeTransition(d)
    PROVE  /\ Len(leaves) = depositNonce - bridgedDepositNonce
           /\ bridgedDepositNonce' = depositNonce
           /\ \A i \in 1..Len(leaves) :
                  /\ leaves[i] = currentDepositState[bridgedDepositNonce + i]
                  /\ leaves[i].nonce = bridgedDepositNonce + i
  <1>1. /\ currentDepositState \in Seq(Deposits) /\ depositNonce \in Nat
        /\ Len(currentDepositState) = depositNonce /\ bridgedDepositNonce \in Nat
        /\ bridgedDepositNonce <= depositNonce
    BY DEF TypeInv, TypeOK, BridgeTypeOK, Accounts, DepositInv, DepositsBridgedOnce
  <1>2. /\ d.ethereumNonceBefore = bridgedDepositNonce
        /\ d.ethereumNonceAfter = depositNonce
        /\ depositStateByNonce[bridgedDepositNonce] = d.ethereumStateBefore
        /\ d.ethereumStateAfter = currentDepositState
    BY DEF SubmitBridgeTransition, BridgedNonceMatches, DepositRangeMatches
  <1>3. d.ethereumStateBefore = SubSeq(currentDepositState, 1, bridgedDepositNonce)
    BY <1>1, <1>2 DEF DepositInv, DepositChain
  <1>4. d.ethereumStateBefore \in Seq(Deposits)
        /\ Len(d.ethereumStateBefore) = bridgedDepositNonce
    BY <1>1, <1>3, SubSeqProperties
  <1>5. leaves \in Seq(Deposits) /\ Len(leaves) \in Nat
        /\ depositNonce = bridgedDepositNonce + Len(leaves)
        /\ currentDepositState = d.ethereumStateBefore \o leaves
        /\ \A i \in 1..Len(leaves) : leaves[i].nonce = bridgedDepositNonce + i
    BY <1>2, LenProperties DEF BatchShape
  <1>6. ASSUME NEW i \in 1..Len(leaves)
        PROVE  leaves[i] = currentDepositState[bridgedDepositNonce + i]
    BY <1>1, <1>4, <1>5
  <1>7. bridgedDepositNonce' = depositNonce
    BY <1>2 DEF SubmitBridgeTransition
  <1>8. Len(leaves) = depositNonce - bridgedDepositNonce
    BY <1>1, <1>5
  <1>9. QED
    BY <1>5, <1>6, <1>7, <1>8

LEMMA BridgeDepositsDeposits ==
    ASSUME TypeInv, DepositInv, BridgeDeposits
    PROVE  DepositInv'
  <1>1. PICK d, leaves :
             /\ BatchShape(d, leaves) /\ SubmitBridgeTransition(d)
             /\ AppendOuterWitnesses(actionState, WitnessesOf(leaves), ThisBridge)
             /\ WitnessesOf(leaves) \in Seq(OuterActions)
    BY BridgeAppends
  <1>2. UNCHANGED <<depositNonce, currentDepositState, depositStateByNonce>>
    BY <1>1 DEF SubmitBridgeTransition, depositVars
  <1>3. /\ Len(leaves) = depositNonce - bridgedDepositNonce
        /\ bridgedDepositNonce' = depositNonce
        /\ \A i \in 1..Len(leaves) :
               /\ leaves[i] = currentDepositState[bridgedDepositNonce + i]
               /\ leaves[i].nonce = bridgedDepositNonce + i
    BY <1>1, BatchLeaves
  <1>4. /\ depositNonce \in Nat /\ bridgedDepositNonce \in Nat
        /\ bridgedDepositNonce <= depositNonce /\ actionState \in Seq(OuterActions)
        /\ leaves \in Seq(Deposits) /\ Len(actionState) \in Nat /\ Len(leaves) \in Nat
    BY <1>1, LenProperties DEF TypeInv, TypeOK, SettlementTypeOK, BridgeTypeOK,
                               DepositInv, DepositsBridgedOnce, BatchShape
  <1> DEFINE m == Len(actionState)
             k == Len(leaves)
             log == WitnessesOf(leaves)
  <1>5. /\ actionState' = actionState \o log
        /\ log \in Seq(OuterActions) /\ Len(log) = k
    BY <1>1, <1>4, WitnessesOfType DEF AppendOuterWitnesses
  <1>6. \A i \in 1..k : log[i] = Witness(leaves[i])
    BY DEF WitnessesOf
  <1> HIDE DEF log
  <1>7. /\ DOMAIN actionState' = 1..(m + k) /\ DOMAIN actionState = 1..m
        /\ \A i \in 1..m : actionState'[i] = actionState[i]
        /\ \A i \in 1..k : actionState'[m + i] = log[i]
    <2>1. /\ DOMAIN actionState = 1..Len(actionState)
          /\ DOMAIN (actionState \o log) = 1..(Len(actionState) + Len(log))
          /\ \A i \in 1..Len(actionState) : (actionState \o log)[i] = actionState[i]
          /\ \A i \in 1..Len(log) : (actionState \o log)[Len(actionState) + i] = log[i]
      <3>1. actionState \in Seq(OuterActions) /\ log \in Seq(OuterActions)
        BY <1>4, <1>5
      <3>2. QED
        BY <3>1
    <2>2. QED
      BY <1>5, <2>1, Zenon
  <1>8. m \in Nat /\ k \in Nat
    BY <1>4
  <1> HIDE DEF m, k
  <1>9. \A i \in 1..k : actionState'[m + i].kind = "witness"
                       /\ actionState'[m + i].deposit = leaves[i]
    <2> SUFFICES ASSUME NEW i \in 1..k
                 PROVE  actionState'[m + i].kind = "witness"
                        /\ actionState'[m + i].deposit = leaves[i]
      OBVIOUS
    <2>1. actionState'[m + i] = Witness(leaves[i])
      BY <1>6, <1>7
    <2>2. QED
      BY <2>1 DEF Witness
  <1>10. Witnesses(actionState') = Witnesses(actionState) \cup {m + i : i \in 1..k}
    <2>1. m \in Nat /\ k \in Nat
      BY <1>8
    <2>2. \A i \in 1..(m + k) : i \in 1..m \/ \E j \in 1..k : i = m + j
      <3>1. ASSUME NEW i \in 1..(m + k), i \notin 1..m
            PROVE  i - m \in 1..k /\ i = m + (i - m)
        BY <2>1, <3>1
      <3>2. QED
        BY <3>1
    <2>3. \A j \in 1..k : m + j \in 1..(m + k)
      BY <2>1
    <2>4. 1..m \subseteq 1..(m + k)
      BY <2>1
    <2>5. QED
      BY <1>7, <1>9, <2>2, <2>3, <2>4 DEF Witnesses
  <1>11. ASSUME NEW i \in Witnesses(actionState)
         PROVE  /\ i \in 1..m /\ actionState'[i] = actionState[i]
                /\ actionState[i].deposit.nonce \in 1..bridgedDepositNonce
                /\ actionState[i].deposit =
                       currentDepositState[actionState[i].deposit.nonce]
    BY <1>7 DEF Witnesses, DepositInv, DepositsBridgedOnce
  <1>12. ASSUME NEW i \in 1..k
         PROVE  /\ actionState'[m + i].deposit.nonce = bridgedDepositNonce + i
                /\ actionState'[m + i].deposit =
                       currentDepositState[bridgedDepositNonce + i]
                /\ bridgedDepositNonce + i \in 1..depositNonce
    BY <1>3, <1>4, <1>9 DEF k
  <1>13. \A i \in Witnesses(actionState') :
            /\ actionState'[i].deposit.nonce \in 1..bridgedDepositNonce'
            /\ actionState'[i].deposit = currentDepositState[actionState'[i].deposit.nonce]
    <2> SUFFICES ASSUME NEW i \in Witnesses(actionState')
                 PROVE  /\ actionState'[i].deposit.nonce \in 1..depositNonce
                        /\ actionState'[i].deposit =
                               currentDepositState[actionState'[i].deposit.nonce]
      BY <1>3
    <2>1. CASE i \in Witnesses(actionState)
      BY <1>4, <1>11, <2>1
    <2>2. ASSUME NEW p \in 1..k, i = m + p
          PROVE  /\ actionState'[i].deposit.nonce \in 1..depositNonce
                 /\ actionState'[i].deposit =
                        currentDepositState[actionState'[i].deposit.nonce]
      BY <1>12, <2>2
    <2>3. QED
      BY <1>10, <2>1, <2>2
  <1>14. ASSUME NEW i \in Witnesses(actionState'), NEW j \in Witnesses(actionState'), i < j
         PROVE  actionState'[i].deposit.nonce < actionState'[j].deposit.nonce
    <2>1. CASE i \in Witnesses(actionState) /\ j \in Witnesses(actionState)
      BY <1>11, <1>14, <2>1 DEF DepositInv, DepositsBridgedOnce
    <2>2. ASSUME i \in Witnesses(actionState), NEW q \in 1..k, j = m + q
          PROVE  actionState'[i].deposit.nonce < actionState'[j].deposit.nonce
      <3>1. actionState'[i].deposit.nonce \in 1..bridgedDepositNonce
        BY <1>11, <2>2
      <3>2. actionState'[j].deposit.nonce = bridgedDepositNonce + q
        BY <1>12, <2>2
      <3>3. QED
        BY <1>4, <1>8, <3>1, <3>2
    <2>3. ASSUME NEW p \in 1..k, i = m + p, NEW q \in 1..k, j = m + q
          PROVE  actionState'[i].deposit.nonce < actionState'[j].deposit.nonce
      <3>1. /\ actionState'[i].deposit.nonce = bridgedDepositNonce + p
            /\ actionState'[j].deposit.nonce = bridgedDepositNonce + q
        BY <1>12, <2>3
      <3>2. p < q
        BY <1>8, <1>14, <2>3
      <3>3. QED
        BY <1>4, <1>8, <3>1, <3>2
    <2>4. ASSUME NEW p \in 1..k, i = m + p, j \in Witnesses(actionState)
          PROVE  FALSE
      <3>1. j \in 1..m
        BY <1>11, <2>4
      <3>2. QED
        BY <1>14, <1>8, <2>4, <3>1
    <2>5. QED
      BY <1>10, <2>1, <2>2, <2>3, <2>4
  <1>15. ASSUME NEW n \in 1..bridgedDepositNonce'
         PROVE  \E i \in Witnesses(actionState') : actionState'[i].deposit.nonce = n
    <2>1. CASE n \in 1..bridgedDepositNonce
      <3>1. PICK i \in Witnesses(actionState) : actionState[i].deposit.nonce = n
        BY <2>1 DEF DepositInv, DepositsBridgedOnce
      <3>2. QED
        BY <1>10, <1>11, <3>1
    <2>2. CASE n \notin 1..bridgedDepositNonce
      <3>1. n - bridgedDepositNonce \in 1..k
            /\ bridgedDepositNonce + (n - bridgedDepositNonce) = n
        BY <1>3, <1>4, <2>2 DEF k
      <3>2. QED
        BY <1>10, <1>12, <3>1
    <2>3. QED
      BY <2>1, <2>2
  <1>16. DepositsBridgedOnce'
    BY <1>2, <1>3, <1>4, <1>13, <1>14, <1>15 DEF DepositsBridgedOnce
  <1>17. QED
    BY <1>2, <1>16 DEF DepositInv, DepositChain

LEMMA NextDeposits == TypeInv /\ DepositInv /\ [Next]_vars => DepositInv'
  <1> SUFFICES ASSUME TypeInv, DepositInv, [Next]_vars
               PROVE  DepositInv'
    OBVIOUS
  <1>1. CASE ~Settle /\ ~BridgeDeposits /\ ~Deposit
    BY <1>1, LogFrame, DepositFrame
    DEF logVars, depositLogVars, DepositInv, DepositChain, DepositsBridgedOnce
  <1>2. QED
    BY <1>1, SettleDeposits, DepositDeposits, BridgeDepositsDeposits

\* However deposits, proofs and settlements interleave, every deposit becomes
\* exactly one Witness action of the outer log, in nonce order, with the
\* amount and token the accumulator holds.
THEOREM DepositsCorrect == Spec => []DepositsBridgedOnce
  <1>1. DepositInv => DepositsBridgedOnce
    BY DEF DepositInv
  <1>2. QED
    BY <1>1, InitDeposits, NextDeposits, InitTypes, NextTypes, PTL DEF Spec
-----------------------------------------------------------------------------
(* Withdrawals: what a settled batch says of the inner log, that a claim   *)
(* pays an inner action once and not before its delay, that custody backs  *)
(* the liabilities, and that no step rewrites the logs.                    *)

innerVars == <<outerState, batchSequence, acceptedInnerActionState, innerActionBatch,
               assetRegistryRoot, assetRegistryCount, settledAssetRecordCommitment,
               assetRegistryRecordBatch>>

\* Only verifyAndUpdateRoot writes the inner log and what it accepted.
LEMMA InnerFrame ==
    ASSUME TypeInv, [Next]_vars, ~Settle
    PROVE  UNCHANGED innerVars
  <1>1. CASE BridgeDeposits
    BY <1>1, BridgeAppends DEF AppendOuterWitnesses, innerVars
  <1>2. CASE ~BridgeDeposits
    BY <1>2, LogFrame DEF logVars, innerVars
  <1>3. QED
    BY <1>1, <1>2

\* Only the two claim functions write the cursors and the claims.
LEMMA ClaimFrame ==
    ASSUME [Next]_vars, ~Claim
    PROVE  UNCHANGED withdrawalVars
  <1>1. CASE Settle \/ Tick
    BY <1>1 DEF Settle, Tick, bridgeVars, withdrawalVars
  <1>2. CASE BridgeDeposits
    BY <1>2 DEF BridgeDeposits, BridgeRange, SubmitBridgeTransition
  <1>3. CASE Deposit \/ Gift
    BY <1>3 DEF Deposit, DepositETH, SubmitDeposit, Gift, Donate
  <1>4. CASE Administer
    BY <1>4 DEF Administer, SetVkHash, SetBridgeContract, Pause, Unpause, SetPaused,
                SetWithdrawalDelaySlots, EmergencyWithdrawToken, bridgeVars,
                withdrawalVars
  <1>5. CASE Register
    BY <1>5 DEF Register, ProposeAsset, CancelLastPendingAsset, ActivateAsset,
                ActivateAssetFromBatch, Activate, SetAssetStatus, custodyUnchanged
  <1>6. CASE UNCHANGED vars
    BY <1>6 DEF vars, bridgeVars, withdrawalVars
  <1>7. QED
    BY <1>1, <1>2, <1>3, <1>4, <1>5, <1>6 DEF Next

-----------------------------------------------------------------------------
(* What a settlement and a claim do to the inner log and to the cursors.   *)

\* The batch of a settlement that adds `actions' for `bridge'.
SettledBatch(actions, bridge, slotUpper) ==
    [minaStateBefore |-> outerState.innerActionState,
     minaStateAfter |-> outerState.innerActionState \o actions,
     root |-> InnerActionRoot(bridge, outerState.innerActionLength, actions),
     startIndex |-> outerState.innerActionLength,
     count |-> Len(actions),
     commitSlotUpper |-> slotUpper]

InnerLogGrows(actions, bridge, slotUpper, consumed) ==
    /\ outerState'.innerActionState = outerState.innerActionState \o actions
    /\ outerState'.innerActionLength = outerState.innerActionLength + Len(actions)
    /\ batchSequence' = batchSequence + 1
    /\ CurrentVirtualSlot <= slotUpper
    /\ acceptedInnerActionState' =
           Put(acceptedInnerActionState, outerState.innerActionState \o actions,
               [settlementIndex |-> batchSequence + 1, acceptedAt |-> timestamp,
                length |-> outerState.innerActionLength + Len(actions)])
    /\ \/ innerActionBatch' = innerActionBatch
       \/ innerActionBatch' = Put(innerActionBatch, batchSequence + 1,
                                  SettledBatch(actions, bridge, slotUpper))
    /\ consumed \in DOMAIN outerActionStateInfo
    /\ L2Sound(consumed, outerState.innerActionState \o actions)

\* Whatever receipt the prover submits, the batch it leaves behind starts
\* where the inner log ended and holds exactly what the log grew by.
LEMMA SettleInner ==
    ASSUME TypeInv, Settle
    PROVE  \E actions \in Seq(InnerAction), bridge \in Addresses, slotUpper \in Nat :
           \E consumed : InnerLogGrows(actions, bridge, slotUpper, consumed)
  <1>1. PICK r, actions, appends :
             ReceiptShape(r, actions, appends) /\ VerifyAndUpdateRoot(r)
    BY SettleReceipt DEF TypeInv, TypeOK
  <1>2. /\ r.stateBefore = outerState /\ outerState' = r.stateAfter
        /\ r.batchSequence = batchSequence + 1 /\ batchSequence' = r.batchSequence
        /\ CurrentVirtualSlot <= r.slotUpper
        /\ r.synchronizedOuterActionState \in DOMAIN outerActionStateInfo
    BY <1>1 DEF VerifyAndUpdateRoot, SourceStateMatches, ExpectedSequence, InsideSlotRange,
                SynchronizedCheckpointKnown
  <1>3. /\ actions \in Seq(InnerAction) /\ r.slotUpper \in Nat /\ r.bridgeAddress \in Addresses
        /\ r.stateAfter.innerActionState = outerState.innerActionState \o actions
        /\ r.stateAfter.innerActionLength = outerState.innerActionLength + Len(actions)
        /\ L2Sound(r.synchronizedOuterActionState, r.stateAfter.innerActionState)
    BY <1>1, <1>2 DEF ReceiptShape
  <1>4. InnerActionBatch(r) = SettledBatch(actions, r.bridgeAddress, r.slotUpper)
    BY <1>1, <1>2, <1>3 DEF ReceiptShape, InnerActionBatch, SettledBatch
  <1>5. \/ innerActionBatch' = innerActionBatch
        \/ innerActionBatch' = Put(innerActionBatch, batchSequence + 1,
                                   SettledBatch(actions, r.bridgeAddress, r.slotUpper))
    BY <1>1, <1>2, <1>4 DEF VerifyAndUpdateRoot
  <1>6. acceptedInnerActionState' =
           Put(acceptedInnerActionState, outerState.innerActionState \o actions,
               [settlementIndex |-> batchSequence + 1, acceptedAt |-> timestamp,
                length |-> outerState.innerActionLength + Len(actions)])
    BY <1>1, <1>2, <1>3 DEF VerifyAndUpdateRoot
  <1>7. InnerLogGrows(actions, r.bridgeAddress, r.slotUpper, r.synchronizedOuterActionState)
    BY <1>2, <1>3, <1>5, <1>6 DEF InnerLogGrows
  <1>8. QED
    BY <1>3, <1>7

\* The cursor of a recipient for an asset.
CursorAt(asset, recipient) ==
    IF asset = Native THEN nextWithdrawalIndex[recipient]
    ELSE nextTokenWithdrawalIndex[asset][recipient]

\* A claim of the leaf at `offset' of the batch `sequence'.
ClaimShape(sequence, offset, action) ==
    LET batch == innerActionBatch[sequence]
        index == batch.startIndex + offset
    IN  /\ offset + 1 \in 1..batch.count
        /\ batch.root[offset + 1] = InnerActionLeaf(ThisBridge, index, action)
        /\ DelayElapsed(batch)
        /\ action.kind = "withdrawal"
        /\ action.token \in Assets /\ action.recipient \in Recipients
        /\ action.amount \in Nat
        /\ index >= CursorAt(action.token, action.recipient)
        /\ \A a \in Assets, w \in Recipients :
               CursorAt(a, w)' = IF a = action.token /\ w = action.recipient
                                 THEN index + 1 ELSE CursorAt(a, w)
        /\ claims' = Append(claims, Claimed(sequence, index, action))
        /\ EthereumAmount(action.token, action.amount) <= Liability(action.token)
        /\ \A a \in Assets :
               Liability(a)' = IF a = action.token
                               THEN Liability(a)
                                        - EthereumAmount(action.token, action.amount)
                               ELSE Liability(a)

\* Both claim functions have this shape and leave the logs alone.
LEMMA ClaimEffect ==
    ASSUME TypeInv, Claim
    PROVE  /\ \E sequence \in DOMAIN innerActionBatch, offset \in Nat, action \in InnerAction :
                  ClaimShape(sequence, offset, action)
           /\ UNCHANGED <<settlementVars, timestamp, depositVars, transitionVars,
                          withdrawalDelaySlots>>
  <1>1. PICK sequence \in DOMAIN innerActionBatch :
        \E offset \in 0..innerActionBatch[sequence].count :
        \E action \in ToSet(outerState.innerActionState) :
           /\ action.kind = "withdrawal"
           /\ \/ ClaimNativeWithdrawal(sequence, offset, action)
              \/ \E spent, received \in 0..action.amount :
                     ClaimERC20Withdrawal(sequence, offset, action, spent, received)
    BY DEF Claim
  <1>2. PICK offset \in 0..innerActionBatch[sequence].count,
             action \in ToSet(outerState.innerActionState) :
           /\ action.kind = "withdrawal"
           /\ \/ ClaimNativeWithdrawal(sequence, offset, action)
              \/ \E spent, received \in 0..action.amount :
                     ClaimERC20Withdrawal(sequence, offset, action, spent, received)
    BY <1>1
  <1>3. action \in InnerAction
    <2>1. outerState.innerActionState \in Seq(InnerAction)
      BY DEF TypeInv, TypeOK, SettlementTypeOK, OuterStates
    <2>2. QED
      BY <2>1 DEF ToSet
  <1>4. action.token \in Assets /\ action.recipient \in Recipients /\ action.amount \in Nat
    BY <1>2, <1>3 DEF InnerAction, RawAction
  <1> DEFINE batch == innerActionBatch[sequence]
             index == batch.startIndex + offset
             value == EthereumAmount(action.token, action.amount)
  <1>5. batch.startIndex \in Nat /\ batch.count \in Nat /\ offset \in Nat /\ value \in Nat
    BY <1>4, ConversionTypes DEF TypeInv, TypeOK, SettlementTypeOK, InnerBatches
  <1>6. LeafSettled(sequence, offset, action)
    BY <1>2 DEF ClaimNativeWithdrawal, ClaimERC20Withdrawal
  <1>7. /\ offset + 1 \in 1..batch.count
        /\ batch.root[offset + 1] = InnerActionLeaf(ThisBridge, index, action)
        /\ DelayElapsed(batch)
    BY <1>5, <1>6 DEF LeafSettled, MerkleIncludes
  <1>8. claims' = Append(claims, Claimed(sequence, index, action))
        /\ UNCHANGED <<settlementVars, timestamp, depositVars, transitionVars,
                       withdrawalDelaySlots>>
    BY <1>2 DEF ClaimNativeWithdrawal, ClaimERC20Withdrawal, controlVars
  <1>9. Native \notin Tokens /\ Assets = Tokens \cup {Native}
    BY ContractsAssumption DEF Assets
  <1>10. /\ nextWithdrawalIndex \in [Recipients -> Nat]
         /\ nextTokenWithdrawalIndex \in [Tokens -> [Recipients -> Nat]]
         /\ escrowLiabilityByToken \in [Tokens -> Nat] /\ nativeEscrowLiability \in Nat
    BY DEF TypeInv, TypeOK, BridgeTypeOK
  <1>11. ASSUME ClaimNativeWithdrawal(sequence, offset, action)
         PROVE  ClaimShape(sequence, offset, action)
    <2>1. /\ action.token = Native
          /\ index >= nextWithdrawalIndex[action.recipient]
          /\ value <= nativeEscrowLiability
          /\ nextWithdrawalIndex' =
                 [nextWithdrawalIndex EXCEPT ![action.recipient] = index + 1]
          /\ nativeEscrowLiability' = nativeEscrowLiability - value
          /\ UNCHANGED <<escrowLiabilityByToken, nextTokenWithdrawalIndex>>
      BY <1>11 DEF ClaimNativeWithdrawal, NativeIndexUnprocessed, EscrowCovers
    <2> HIDE DEF index, value
    <2>2. /\ index >= CursorAt(action.token, action.recipient)
          /\ value <= Liability(action.token)
      BY <2>1 DEF CursorAt, Liability
    <2>3. \A a \in Assets, w \in Recipients :
              CursorAt(a, w)' = IF a = action.token /\ w = action.recipient
                                THEN index + 1 ELSE CursorAt(a, w)
      BY <1>4, <1>9, <1>10, <2>1 DEF CursorAt
    <2>4. \A a \in Assets : Liability(a)' = IF a = action.token THEN Liability(a) - value
                                                                ELSE Liability(a)
      BY <1>9, <1>10, <2>1 DEF Liability
    <2>5. QED
      BY <1>2, <1>4, <1>7, <1>8, <2>2, <2>3, <2>4 DEF ClaimShape, index, value
  <1>12. ASSUME NEW spent \in 0..action.amount, NEW received \in 0..action.amount,
                ClaimERC20Withdrawal(sequence, offset, action, spent, received)
         PROVE  ClaimShape(sequence, offset, action)
    <2>1. /\ action.token \in Tokens
          /\ index >= nextTokenWithdrawalIndex[action.token][action.recipient]
          /\ action.amount <= escrowLiabilityByToken[action.token]
          /\ nextTokenWithdrawalIndex' =
                 [nextTokenWithdrawalIndex EXCEPT ![action.token][action.recipient] = index + 1]
          /\ escrowLiabilityByToken' =
                 [escrowLiabilityByToken EXCEPT ![action.token] = @ - action.amount]
          /\ UNCHANGED <<nativeEscrowLiability, nextWithdrawalIndex>>
      BY <1>12 DEF ClaimERC20Withdrawal, TokenIndexUnprocessed, EscrowCovers
    <2>2. action.token # Native /\ value = action.amount
      BY <1>9, <2>1 DEF EthereumAmount
    <2> HIDE DEF index, value
    <2>3. /\ index >= CursorAt(action.token, action.recipient)
          /\ value <= Liability(action.token)
      BY <2>1, <2>2 DEF CursorAt, Liability
    <2>4. \A a \in Assets, w \in Recipients :
              CursorAt(a, w)' = IF a = action.token /\ w = action.recipient
                                THEN index + 1 ELSE CursorAt(a, w)
      BY <1>4, <1>9, <1>10, <2>1 DEF CursorAt
    <2>5. \A a \in Assets : Liability(a)' = IF a = action.token THEN Liability(a) - value
                                                                ELSE Liability(a)
      BY <1>9, <1>10, <2>1, <2>2 DEF Liability
    <2>6. QED
      BY <1>2, <1>4, <1>7, <1>8, <2>3, <2>4, <2>5 DEF ClaimShape, index, value
  <1>13. QED
    BY <1>2, <1>3, <1>5, <1>8, <1>11, <1>12

-----------------------------------------------------------------------------
(* Batches.                                                                *)

\* Every batch has the number of a past settlement, its leaves carry their
\* global index, and the inner state it produced was accepted with it, unless
\* a later settlement accepted the same state again.
BatchesNumbered ==
    \A q \in DOMAIN innerActionBatch :
        LET b == innerActionBatch[q] IN
        /\ q \in 1..batchSequence
        /\ \A i \in 1..b.count : b.root[i].index = b.startIndex + i - 1
        /\ b.minaStateAfter \in DOMAIN acceptedInnerActionState
        /\ acceptedInnerActionState[b.minaStateAfter].settlementIndex = q =>
               VirtualSlotAt(acceptedInnerActionState[b.minaStateAfter].acceptedAt)
                   <= b.commitSlotUpper

BatchInv == BatchesMatchInnerLog /\ BatchesNumbered

LEMMA InitBatches == Init => BatchInv
  BY SettlementAssumption
  DEF Init, SettlementInit, InitialOuterState, BatchInv, BatchesMatchInnerLog,
      BatchesNumbered

\* What the new batch of a settlement says, before it is stored.
LEMMA NewBatch ==
    ASSUME TypeInv, BatchInv, NEW actions \in Seq(InnerAction), NEW bridge,
           NEW slotUpper \in Nat
    PROVE  LET b == SettledBatch(actions, bridge, slotUpper)
               log == outerState.innerActionState \o actions
           IN  /\ b.startIndex = InitialInnerLength + Len(outerState.innerActionState)
               /\ b.count = Len(actions) /\ Len(b.root) = b.count
               /\ \A i \in 1..b.count :
                      /\ b.root[i].action = log[b.startIndex - InitialInnerLength + i]
                      /\ b.root[i].index = b.startIndex + i - 1
  <1>1. /\ outerState.innerActionState \in Seq(InnerAction)
        /\ outerState.innerActionLength
               = InitialInnerLength + Len(outerState.innerActionState)
        /\ InitialInnerLength \in Nat
    BY SettlementAssumption
    DEF TypeInv, TypeOK, SettlementTypeOK, OuterStates, BatchInv, BatchesMatchInnerLog
  <1> DEFINE n == Len(outerState.innerActionState)
             log == outerState.innerActionState \o actions
             root == InnerActionRoot(bridge, outerState.innerActionLength, actions)
  <1>2. n \in Nat /\ Len(actions) \in Nat
    BY <1>1, LenProperties
  <1>3. Len(root) = Len(actions)
    BY <1>2 DEF InnerActionRoot
  <1>4. \A i \in 1..Len(actions) :
            /\ root[i].action = actions[i]
            /\ root[i].index = outerState.innerActionLength + i - 1
    BY DEF InnerActionRoot, InnerActionLeaf
  <1>5. \A i \in 1..Len(actions) : log[n + i] = actions[i]
    BY <1>1, <1>2
  <1>6. outerState.innerActionLength - InitialInnerLength = n
    BY <1>1, <1>2
  <1> HIDE DEF root, log, n
  <1>7. \A i \in 1..Len(actions) :
            root[i].action = log[outerState.innerActionLength - InitialInnerLength + i]
    BY <1>4, <1>5, <1>6
  <1>8. QED
    BY <1>1, <1>3, <1>4, <1>7 DEF SettledBatch, n, log, root

LEMMA SettleBatches ==
    ASSUME TypeInv, BatchInv, Settle
    PROVE  BatchInv'
  <1>1. PICK actions \in Seq(InnerAction), bridge \in Addresses, slotUpper \in Nat :
             \E consumed : InnerLogGrows(actions, bridge, slotUpper, consumed)
    BY SettleInner
  <1> DEFINE inner == outerState.innerActionState
             log == inner \o actions
             new == SettledBatch(actions, bridge, slotUpper)
             k == batchSequence + 1
  <1>2. /\ outerState'.innerActionState = log
        /\ outerState'.innerActionLength = outerState.innerActionLength + Len(actions)
        /\ batchSequence' = k
        /\ innerActionBatch' \in {innerActionBatch, Put(innerActionBatch, k, new)}
    BY <1>1 DEF InnerLogGrows
  <1>3. /\ inner \in Seq(InnerAction) /\ Len(inner) \in Nat /\ Len(actions) \in Nat
        /\ Len(log) = Len(inner) + Len(actions)
        /\ \A i \in 1..Len(inner) : log[i] = inner[i]
        /\ batchSequence \in Nat /\ InitialInnerLength \in Nat
        /\ outerState.innerActionLength = InitialInnerLength + Len(inner)
    BY SettlementAssumption, LenProperties
    DEF TypeInv, TypeOK, SettlementTypeOK, OuterStates, BatchInv, BatchesMatchInnerLog
  <1>4. /\ new.startIndex = InitialInnerLength + Len(inner)
        /\ new.count = Len(actions) /\ Len(new.root) = new.count
        /\ \A i \in 1..new.count :
               /\ new.root[i].action = log[new.startIndex - InitialInnerLength + i]
               /\ new.root[i].index = new.startIndex + i - 1
        /\ new.minaStateAfter = log /\ new.commitSlotUpper = slotUpper
    BY NewBatch DEF SettledBatch
  <1>5. /\ k \notin DOMAIN innerActionBatch
        /\ \A q \in DOMAIN innerActionBatch : q \in 1..batchSequence /\ q < k
    BY <1>3 DEF BatchInv, BatchesNumbered
  <1> HIDE DEF inner, log, new
  <1>6. /\ \A q \in DOMAIN innerActionBatch :
                q \in DOMAIN innerActionBatch' /\ innerActionBatch'[q] = innerActionBatch[q]
        /\ \A q \in DOMAIN innerActionBatch' :
                \/ q \in DOMAIN innerActionBatch /\ innerActionBatch'[q] = innerActionBatch[q]
                \/ q = k /\ innerActionBatch'[q] = new
    BY <1>2, <1>5 DEF Put
  <1>7. \A q \in DOMAIN innerActionBatch :
            LET b == innerActionBatch[q] IN
            /\ b.startIndex \in Nat /\ b.count \in Nat
            /\ b.startIndex >= InitialInnerLength
            /\ Len(b.root) = b.count
            /\ b.startIndex + b.count <= InitialInnerLength + Len(inner)
            /\ \A i \in 1..b.count :
                   b.root[i].action = inner[b.startIndex - InitialInnerLength + i]
    BY <1>3 DEF BatchInv, BatchesMatchInnerLog, TypeInv, TypeOK, SettlementTypeOK,
                InnerBatches, inner
  <1>8. outerState'.innerActionLength = InitialInnerLength + Len(log)
    BY <1>2, <1>3
  <1>9. ASSUME NEW q \in DOMAIN innerActionBatch'
        PROVE  LET b == innerActionBatch'[q] IN
               /\ b.startIndex >= InitialInnerLength
               /\ Len(b.root) = b.count
               /\ b.startIndex + b.count <= InitialInnerLength + Len(log)
               /\ \A i \in 1..b.count :
                      b.root[i].action = log[b.startIndex - InitialInnerLength + i]
    <2>1. CASE q \in DOMAIN innerActionBatch
      <3> DEFINE b == innerActionBatch[q]
      <3>1. innerActionBatch'[q] = b
        BY <1>6, <2>1
      <3>2. /\ b.startIndex \in Nat /\ b.count \in Nat
            /\ b.startIndex >= InitialInnerLength
            /\ Len(b.root) = b.count
            /\ b.startIndex + b.count <= InitialInnerLength + Len(inner)
            /\ \A i \in 1..b.count :
                   b.root[i].action = inner[b.startIndex - InitialInnerLength + i]
        BY <1>7, <2>1
      <3> HIDE DEF b
      <3>3. \A i \in 1..b.count : b.startIndex - InitialInnerLength + i \in 1..Len(inner)
        BY <1>3, <3>2
      <3>4. b.startIndex + b.count <= InitialInnerLength + Len(log)
        BY <1>3, <3>2
      <3>5. QED
        BY <1>3, <3>1, <3>2, <3>3, <3>4
    <2>2. CASE q = k /\ innerActionBatch'[q] = new
      BY <1>3, <1>4, <2>2
    <2>3. QED
      BY <1>6, <2>1, <2>2
  <1>10. ASSUME NEW p \in DOMAIN innerActionBatch', NEW q \in DOMAIN innerActionBatch', p < q
         PROVE  innerActionBatch'[p].startIndex + innerActionBatch'[p].count
                    <= innerActionBatch'[q].startIndex
    <2>1. CASE q \in DOMAIN innerActionBatch
      <3>1. p \in DOMAIN innerActionBatch
        BY <1>3, <1>5, <1>6, <1>10, <2>1
      <3>2. QED
        BY <1>6, <1>10, <2>1, <3>1 DEF BatchInv, BatchesMatchInnerLog
    <2>2. CASE q = k /\ innerActionBatch'[q] = new
      <3>1. p \in DOMAIN innerActionBatch
        BY <1>3, <1>6, <1>10, <2>2
      <3>2. QED
        BY <1>4, <1>6, <1>7, <2>2, <3>1
    <2>3. QED
      BY <1>6, <2>1, <2>2
  <1>11. BatchesMatchInnerLog'
    BY <1>2, <1>8, <1>9, <1>10 DEF BatchesMatchInnerLog
  <1>12. ASSUME NEW q \in DOMAIN innerActionBatch'
         PROVE  LET b == innerActionBatch'[q]
                    accepted == acceptedInnerActionState'
                IN  /\ q \in 1..k
                    /\ \A i \in 1..b.count : b.root[i].index = b.startIndex + i - 1
                    /\ b.minaStateAfter \in DOMAIN accepted
                    /\ accepted[b.minaStateAfter].settlementIndex = q =>
                           VirtualSlotAt(accepted[b.minaStateAfter].acceptedAt)
                               <= b.commitSlotUpper
    <2> DEFINE v == [settlementIndex |-> k, acceptedAt |-> timestamp,
                     length |-> outerState.innerActionLength + Len(actions)]
    <2>1. acceptedInnerActionState' = Put(acceptedInnerActionState, log, v)
          /\ VirtualSlotAt(timestamp) <= slotUpper
      BY <1>1 DEF InnerLogGrows, CurrentVirtualSlot, log, inner
    <2>2. v.settlementIndex = k /\ v.acceptedAt = timestamp
      OBVIOUS
    <2> HIDE DEF v
    <2>3. CASE q \in DOMAIN innerActionBatch
      <3>1. q \in 1..batchSequence /\ q # k /\ innerActionBatch'[q] = innerActionBatch[q]
        BY <1>3, <1>5, <1>6, <2>3
      <3>2. q \in 1..k
        BY <1>3, <3>1
      <3>3. QED
        BY <2>1, <2>2, <2>3, <3>1, <3>2 DEF Put, BatchInv, BatchesNumbered
    <2>4. CASE q = k /\ innerActionBatch'[q] = new
      <3>1. k \in 1..k
        BY <1>3
      <3>2. log \in DOMAIN acceptedInnerActionState' /\ acceptedInnerActionState'[log] = v
        BY <2>1 DEF Put
      <3>3. QED
        BY <1>4, <2>1, <2>2, <2>4, <3>1, <3>2
    <2>5. QED
      BY <1>6, <2>3, <2>4
  <1>13. BatchesNumbered'
    BY <1>2, <1>12 DEF BatchesNumbered
  <1>14. QED
    BY <1>11, <1>13 DEF BatchInv

LEMMA NextBatches == TypeInv /\ BatchInv /\ [Next]_vars => BatchInv'
  <1> SUFFICES ASSUME TypeInv, BatchInv, [Next]_vars PROVE BatchInv'
    OBVIOUS
  <1>1. CASE ~Settle
    <2>1. UNCHANGED innerVars
      BY <1>1, InnerFrame
    <2>2. QED
      BY <2>1 DEF innerVars, BatchInv, BatchesMatchInnerLog, BatchesNumbered
  <1>2. QED
    BY <1>1, SettleBatches

\* Every root a claim is checked against holds, at each offset, the inner
\* action of that global index, and no index lies in two batches: the host's
\* lengths, sequence numbers and stale proofs cannot shift a batch.
THEOREM BatchesCorrect == Spec => []BatchesMatchInnerLog
  <1>1. BatchInv => BatchesMatchInnerLog
    BY DEF BatchInv
  <1>2. QED
    BY <1>1, InitBatches, NextBatches, InitTypes, NextTypes, PTL DEF Spec

-----------------------------------------------------------------------------
(* Claims.  The cursor of an asset and a recipient has passed every index  *)
(* claimed for them; an index belongs to one asset and one recipient       *)
(* because the batch it was claimed from agrees with the inner log.        *)

CursorsPastClaims ==
    \A i \in DOMAIN claims :
        claims[i].index < CursorAt(claims[i].token, claims[i].recipient)

ClaimInv == ClaimsMatchInnerLog /\ CursorsPastClaims /\ ClaimedOnce

\* The position of a global index in the inner log.
Position(index) == index - InitialInnerLength + 1

\* A claimed leaf is the inner action at its position.
LEMMA ClaimedPosition ==
    ASSUME TypeInv, BatchInv, NEW sequence \in DOMAIN innerActionBatch,
           NEW offset \in Nat, NEW action,
           offset + 1 \in 1..innerActionBatch[sequence].count,
           innerActionBatch[sequence].root[offset + 1]
               = InnerActionLeaf(ThisBridge, innerActionBatch[sequence].startIndex + offset,
                                 action)
    PROVE  LET index == innerActionBatch[sequence].startIndex + offset
           IN  /\ index \in Nat /\ index >= InitialInnerLength
               /\ Position(index) \in DOMAIN outerState.innerActionState
               /\ outerState.innerActionState[Position(index)] = action
  <1> DEFINE b == innerActionBatch[sequence]
             inner == outerState.innerActionState
  <1>1. /\ b.startIndex \in Nat /\ b.count \in Nat /\ b.startIndex >= InitialInnerLength
        /\ b.startIndex + b.count <= outerState.innerActionLength
        /\ outerState.innerActionLength = InitialInnerLength + Len(inner)
        /\ InitialInnerLength \in Nat
        /\ b.root[offset + 1].action = inner[b.startIndex - InitialInnerLength + (offset + 1)]
    BY SettlementAssumption
    DEF TypeInv, TypeOK, SettlementTypeOK, InnerBatches, BatchInv, BatchesMatchInnerLog
  <1>2. b.root[offset + 1].action = action
    BY DEF InnerActionLeaf
  <1>3. inner \in Seq(InnerAction) /\ Len(inner) \in Nat /\ DOMAIN inner = 1..Len(inner)
    BY LenProperties DEF TypeInv, TypeOK, SettlementTypeOK, OuterStates
  <1>4. offset + 1 \in 1..b.count
    OBVIOUS
  <1> HIDE DEF b, inner
  <1>5. \A m, n, k \in Nat : m - n + (k + 1) = m + k - n + 1
    OBVIOUS
  <1>6. Position(b.startIndex + offset) \in 1..Len(inner)
    BY <1>1, <1>3, <1>4 DEF Position
  <1>7. inner[Position(b.startIndex + offset)] = action
    <2>1. Position(b.startIndex + offset) = b.startIndex - InitialInnerLength + (offset + 1)
      BY <1>1, <1>5 DEF Position
    <2>2. QED
      BY <1>1, <1>2, <2>1
  <1>8. QED
    BY <1>1, <1>3, <1>6, <1>7 DEF b, inner

LEMMA ClaimClaims ==
    ASSUME TypeInv, BatchInv, ClaimInv, Claim
    PROVE  ClaimInv'
  <1>1. UNCHANGED settlementVars
    BY ClaimEffect
  <1>2. PICK sequence \in DOMAIN innerActionBatch, offset \in Nat, action \in InnerAction :
             ClaimShape(sequence, offset, action)
    BY ClaimEffect
  <1> DEFINE index == innerActionBatch[sequence].startIndex + offset
             inner == outerState.innerActionState
             new == Claimed(sequence, index, action)
  <1>3. /\ index \in Nat /\ Position(index) \in DOMAIN inner
        /\ inner[Position(index)] = action
    BY <1>2, ClaimedPosition DEF ClaimShape
  <1>4. /\ action.kind = "withdrawal" /\ action.token \in Assets
        /\ action.recipient \in Recipients
        /\ index >= CursorAt(action.token, action.recipient)
        /\ \A a \in Assets, w \in Recipients :
               CursorAt(a, w)' = IF a = action.token /\ w = action.recipient
                                 THEN index + 1 ELSE CursorAt(a, w)
        /\ claims' = Append(claims, new)
    BY <1>2 DEF ClaimShape
  <1> HIDE DEF index
  <1>5. /\ new.index = index /\ new.token = action.token
        /\ new.recipient = action.recipient /\ new.amount = action.amount
    BY DEF Claimed
  <1> DEFINE Claims == [sequence : Nat, index : Nat, token : Assets,
                        recipient : Recipients, amount : Nat, slot : Nat]
             n == Len(claims)
  <1>6. claims \in Seq(Claims) /\ n \in Nat
    BY LenProperties DEF TypeInv, TypeOK, BridgeTypeOK
  <1>7. TypeInv'
    BY ClaimTypes
  <1> HIDE DEF new
  <1>8. /\ DOMAIN claims = 1..n /\ DOMAIN claims' = 1..(n + 1)
        /\ \A i \in 1..n : claims'[i] = claims[i]
        /\ claims'[n + 1] = new
    <2>1. claims' \in Seq(Claims)
      BY <1>7 DEF TypeInv, TypeOK, BridgeTypeOK
    <2>2. QED
      BY <1>4, <1>6, <2>1
  <1>9. \A i \in 1..n : /\ claims[i].index \in Nat /\ claims[i].token \in Assets
                        /\ claims[i].recipient \in Recipients
    <2>1. \A i \in 1..n : claims[i] \in Claims
      BY <1>6, ElementOfSeq
    <2>2. QED
      BY <2>1
  <1> HIDE DEF n
  <1>10. UNCHANGED outerState
    BY <1>1 DEF settlementVars
  <1>11. ClaimsMatchInnerLog'
    <2> SUFFICES ASSUME NEW i \in 1..(n + 1)
                 PROVE  LET c == claims'[i]
                            p == c.index - InitialInnerLength + 1
                        IN  /\ p \in DOMAIN inner
                            /\ inner[p].kind = "withdrawal" /\ inner[p].token = c.token
                            /\ inner[p].recipient = c.recipient
                            /\ inner[p].amount = c.amount
      BY <1>8, <1>10 DEF ClaimsMatchInnerLog
    <2>1. CASE i \in 1..n
      BY <1>8, <2>1 DEF ClaimInv, ClaimsMatchInnerLog
    <2>2. CASE i = n + 1
      BY <1>3, <1>4, <1>5, <1>8, <2>2 DEF Position
    <2>3. QED
      BY <1>6, <2>1, <2>2
  <1>12. CursorsPastClaims'
    <2>1. ASSUME NEW a \in Assets, NEW w \in Recipients, NEW m \in Nat, m < CursorAt(a, w)
          PROVE  m < CursorAt(a, w)'
      <3>1. CASE a = action.token /\ w = action.recipient
        <4>1. CursorAt(a, w)' = index + 1 /\ CursorAt(a, w) <= index
          BY <1>4, <3>1
        <4>2. CursorAt(a, w) \in Nat
          BY DEF CursorAt, Assets, TypeInv, TypeOK, BridgeTypeOK
        <4>3. QED
          BY <1>3, <2>1, <4>1, <4>2
      <3>2. CASE ~(a = action.token /\ w = action.recipient)
        BY <1>4, <2>1, <3>2
      <3>3. QED
        BY <3>1, <3>2
    <2>2. index < CursorAt(action.token, action.recipient)'
      BY <1>3, <1>4
    <2>3. ASSUME NEW i \in 1..(n + 1)
          PROVE  (claims[i].index < CursorAt(claims[i].token, claims[i].recipient))'
      <3>1. CASE i \in 1..n
        <4>1. claims[i].index < CursorAt(claims[i].token, claims[i].recipient)
          BY <1>8, <3>1 DEF ClaimInv, CursorsPastClaims
        <4>2. QED
          BY <1>8, <1>9, <2>1, <3>1, <4>1 DEF CursorAt
      <3>2. CASE i = n + 1
        BY <1>5, <1>8, <2>2, <3>2 DEF CursorAt
      <3>3. QED
        BY <1>6, <3>1, <3>2
    <2>4. QED
      BY <1>8, <2>3 DEF CursorsPastClaims
  <1>13. \A i \in 1..n : claims[i].index # index
    <2> SUFFICES ASSUME NEW i \in 1..n, claims[i].index = index PROVE FALSE
      OBVIOUS
    <2>1. claims[i].token = action.token /\ claims[i].recipient = action.recipient
      BY <1>3, <1>8 DEF ClaimInv, ClaimsMatchInnerLog, Position
    <2>2. index < CursorAt(action.token, action.recipient)
      BY <1>8, <2>1 DEF ClaimInv, CursorsPastClaims
    <2>3. CursorAt(action.token, action.recipient) \in Nat
      BY <1>4 DEF CursorAt, Assets, TypeInv, TypeOK, BridgeTypeOK
    <2>4. QED
      BY <1>3, <1>4, <2>2, <2>3
  <1>14. ClaimedOnce'
    <2> SUFFICES ASSUME NEW i \in 1..(n + 1), NEW j \in 1..(n + 1), i # j
                 PROVE  claims'[i].index # claims'[j].index
      BY <1>8 DEF ClaimedOnce
    <2>1. i \in 1..n \/ i = n + 1
      BY <1>6
    <2>2. j \in 1..n \/ j = n + 1
      BY <1>6
    <2>3. QED
      BY <1>5, <1>8, <1>13, <2>1, <2>2 DEF ClaimInv, ClaimedOnce
  <1>15. QED
    BY <1>11, <1>12, <1>14 DEF ClaimInv

\* The inner log only grows, so a claim keeps the action it was made for.
LEMMA SettleClaims ==
    ASSUME TypeInv, ClaimInv, Settle
    PROVE  ClaimInv'
  <1>1. PICK actions \in Seq(InnerAction), bridge \in Addresses, slotUpper \in Nat :
             \E consumed : InnerLogGrows(actions, bridge, slotUpper, consumed)
    BY SettleInner
  <1>2. outerState'.innerActionState = outerState.innerActionState \o actions
    BY <1>1 DEF InnerLogGrows
  <1>3. outerState.innerActionState \in Seq(InnerAction)
    BY DEF TypeInv, TypeOK, SettlementTypeOK, OuterStates
  <1>4. \A p \in DOMAIN outerState.innerActionState :
            /\ p \in DOMAIN outerState'.innerActionState
            /\ outerState'.innerActionState[p] = outerState.innerActionState[p]
    BY <1>2, <1>3
  <1>5. UNCHANGED <<claims, nextWithdrawalIndex, nextTokenWithdrawalIndex>>
    BY DEF Settle, bridgeVars
  <1>6. ClaimsMatchInnerLog'
    BY <1>4, <1>5 DEF ClaimInv, ClaimsMatchInnerLog
  <1>7. QED
    BY <1>5, <1>6 DEF ClaimInv, CursorsPastClaims, ClaimedOnce, CursorAt

LEMMA NextClaims == TypeInv /\ BatchInv /\ ClaimInv /\ [Next]_vars => ClaimInv'
  <1> SUFFICES ASSUME TypeInv, BatchInv, ClaimInv, [Next]_vars PROVE ClaimInv'
    OBVIOUS
  <1>1. CASE ~Settle /\ ~Claim
    <2>1. UNCHANGED <<outerState, claims, nextWithdrawalIndex, nextTokenWithdrawalIndex>>
      BY <1>1, InnerFrame, ClaimFrame DEF innerVars, withdrawalVars
    <2>2. QED
      BY <2>1 DEF ClaimInv, ClaimsMatchInnerLog, CursorsPastClaims, ClaimedOnce, CursorAt
  <1>2. QED
    BY <1>1, SettleClaims, ClaimClaims

LEMMA InitClaims == Init => ClaimInv
  BY DEF Init, BridgeInit, ClaimInv, ClaimsMatchInnerLog, CursorsPastClaims, ClaimedOnce

\* Every claim pays what the L2 recorded at the claimed index, to the
\* recipient it recorded, whatever batch and offset the claimant names.
THEOREM ClaimsCorrect == Spec => []ClaimsMatchInnerLog
  <1>1. ClaimInv => ClaimsMatchInnerLog
    BY DEF ClaimInv
  <1>2. QED
    BY <1>1, InitClaims, NextClaims, InitBatches, NextBatches, InitTypes, NextTypes, PTL
    DEF Spec

\* No inner action is paid twice, through either claim function and over all
\* settlements: a cursor for each asset and recipient is enough.
THEOREM PaidOnce == Spec => []ClaimedOnce
  <1>1. ClaimInv => ClaimedOnce
    BY DEF ClaimInv
  <1>2. QED
    BY <1>1, InitClaims, NextClaims, InitBatches, NextBatches, InitTypes, NextTypes, PTL
    DEF Spec

\* A claim waits the delay from the moment its settlement was accepted: the
\* upper slot a receipt names cannot lie before the slot that accepted it.
THEOREM DelayCorrect == Spec => DelayRunsFromAcceptance
  <1> DEFINE Delayed ==
          claims' # claims =>
              LET c == claims'[Len(claims')]
                  accepted == acceptedInnerActionState[
                                  innerActionBatch[c.sequence].minaStateAfter]
              IN  accepted.settlementIndex = c.sequence
                      => c.slot >= VirtualSlotAt(accepted.acceptedAt) + withdrawalDelaySlots
  <1>1. TypeInv /\ BatchInv /\ [Next]_vars => [Delayed]_vars
    <2> SUFFICES ASSUME TypeInv, BatchInv, [Next]_vars, claims' # claims
                 PROVE  LET c == claims'[Len(claims')]
                            accepted == acceptedInnerActionState[
                                            innerActionBatch[c.sequence].minaStateAfter]
                        IN  accepted.settlementIndex = c.sequence
                                => c.slot >= VirtualSlotAt(accepted.acceptedAt)
                                                 + withdrawalDelaySlots
      OBVIOUS
    <2>1. Claim
      BY ClaimFrame DEF withdrawalVars
    <2>2. PICK sequence \in DOMAIN innerActionBatch, offset \in Nat, action \in InnerAction :
               ClaimShape(sequence, offset, action)
      BY <2>1, ClaimEffect
    <2> DEFINE batch == innerActionBatch[sequence]
               new == Claimed(sequence, batch.startIndex + offset, action)
               accepted == acceptedInnerActionState[batch.minaStateAfter]
    <2>3. claims' = Append(claims, new) /\ DelayElapsed(batch)
      BY <2>2 DEF ClaimShape
    <2>4. new.sequence = sequence /\ new.slot = CurrentVirtualSlot
      BY DEF Claimed
    <2> HIDE DEF new
    <2>5. claims'[Len(claims')] = new
      <3>1. claims \in Seq([sequence : Nat, index : Nat, token : Assets,
                            recipient : Recipients, amount : Nat, slot : Nat])
        BY DEF TypeInv, TypeOK, BridgeTypeOK
      <3>2. QED
        BY <2>3, <3>1
    <2>6. CurrentVirtualSlot >= batch.commitSlotUpper + withdrawalDelaySlots
      BY <2>3 DEF DelayElapsed
    <2>7. /\ batch.minaStateAfter \in DOMAIN acceptedInnerActionState
          /\ accepted.settlementIndex = sequence
                 => VirtualSlotAt(accepted.acceptedAt) <= batch.commitSlotUpper
      BY DEF BatchInv, BatchesNumbered
    <2>8. /\ accepted.acceptedAt \in Nat /\ batch.commitSlotUpper \in Nat
          /\ withdrawalDelaySlots \in Nat /\ timestamp \in Nat
      BY <2>7, ContractsAssumption
      DEF TypeInv, TypeOK, SettlementTypeOK, BridgeTypeOK, InnerBatches
    <2>9. VirtualSlotAt(accepted.acceptedAt) \in Nat /\ CurrentVirtualSlot \in Nat
      BY <2>8, SlotAtType DEF CurrentVirtualSlot
    <2> HIDE DEF accepted, batch
    <2>10. accepted.settlementIndex = sequence
               => CurrentVirtualSlot >= VirtualSlotAt(accepted.acceptedAt)
                                            + withdrawalDelaySlots
      BY <2>6, <2>7, <2>8, <2>9
    <2>11. QED
      BY <2>4, <2>5, <2>10 DEF accepted, batch
  <1>2. QED
    BY <1>1, InitBatches, NextBatches, InitTypes, NextTypes, PTL
    DEF Spec, DelayRunsFromAcceptance

-----------------------------------------------------------------------------
(* Custody.                                                                *)

LEMMA InitEscrow == Init => EscrowBacked
  BY ContractsAssumption DEF Init, BridgeInit, EscrowBacked, Assets

LEMMA NextEscrow == TypeInv /\ EscrowBacked /\ [Next]_vars => EscrowBacked'
  <1> SUFFICES ASSUME TypeInv, EscrowBacked, [Next]_vars PROVE EscrowBacked'
    OBVIOUS
  <1>1. /\ Native \notin Tokens /\ Assets = Tokens \cup {Native}
        /\ totalDepositedByToken \in [Assets -> Nat] /\ nativeEscrowLiability \in Nat
        /\ escrowLiabilityByToken \in [Tokens -> Nat] /\ balance \in [Assets -> Nat]
    BY ContractsAssumption DEF Assets, TypeInv, TypeOK, BridgeTypeOK
  <1>2. ASSUME UNCHANGED custodyVars PROVE EscrowBacked'
    BY <1>2 DEF custodyVars, EscrowBacked
  <1>3. CASE Settle \/ BridgeDeposits \/ Register \/ Tick \/ UNCHANGED vars
    <2>1. CASE Settle \/ Tick \/ UNCHANGED vars
      BY <1>2, <2>1 DEF Settle, Tick, vars, bridgeVars, custodyVars
    <2>2. CASE BridgeDeposits
      BY <1>2, <2>2 DEF BridgeDeposits, BridgeRange, SubmitBridgeTransition
    <2>3. CASE Register
      BY <1>2, <2>3 DEF Register, ProposeAsset, CancelLastPendingAsset, ActivateAsset,
                        ActivateAssetFromBatch, Activate, SetAssetStatus, custodyUnchanged
    <2>4. QED
      BY <1>3, <2>1, <2>2, <2>3
  <1>4. CASE Deposit
    <2>1. PICK value \in DepositValues :
               \/ DepositETH(value)
               \/ \E token \in Tokens, received \in 0..value :
                      SubmitDeposit(token, value, received)
      BY <1>4 DEF Deposit
    <2>2. value \in Nat
      BY ContractsAssumption
    <2>3. CASE DepositETH(value)
      BY <1>1, <2>2, <2>3 DEF DepositETH, EscrowBacked
    <2>4. ASSUME NEW token \in Tokens, NEW received \in 0..value,
                 SubmitDeposit(token, value, received)
          PROVE  EscrowBacked'
      BY <1>1, <2>2, <2>4 DEF SubmitDeposit, TransferExact, EscrowBacked
    <2>5. QED
      BY <2>1, <2>3, <2>4
  <1>5. CASE Claim
    <2>1. PICK sequence \in DOMAIN innerActionBatch :
          \E offset \in 0..innerActionBatch[sequence].count :
          \E action \in ToSet(outerState.innerActionState) :
             /\ action.kind = "withdrawal"
             /\ \/ ClaimNativeWithdrawal(sequence, offset, action)
                \/ \E spent, received \in 0..action.amount :
                       ClaimERC20Withdrawal(sequence, offset, action, spent, received)
      BY <1>5 DEF Claim
    <2>2. PICK offset \in 0..innerActionBatch[sequence].count,
               action \in ToSet(outerState.innerActionState) :
             /\ action.kind = "withdrawal"
             /\ \/ ClaimNativeWithdrawal(sequence, offset, action)
                \/ \E spent, received \in 0..action.amount :
                       ClaimERC20Withdrawal(sequence, offset, action, spent, received)
      BY <2>1
    <2>3. action.amount \in Nat
      <3>1. outerState.innerActionState \in Seq(InnerAction)
        BY DEF TypeInv, TypeOK, SettlementTypeOK, OuterStates
      <3>2. action \in InnerAction
        BY <3>1 DEF ToSet
      <3>3. QED
        BY <2>2, <3>2 DEF InnerAction, RawAction
    <2>4. CASE ClaimNativeWithdrawal(sequence, offset, action)
      <3> DEFINE value == EthereumAmount(Native, action.amount)
      <3>1. value \in Nat
        BY <2>3, ConversionTypes
      <3>2. /\ nativeEscrowLiability' = nativeEscrowLiability - value
            /\ totalDepositedByToken' = [totalDepositedByToken EXCEPT ![Native] = @ - value]
            /\ balance' = [balance EXCEPT ![Native] = @ - value]
            /\ UNCHANGED escrowLiabilityByToken
        BY <2>4 DEF ClaimNativeWithdrawal
      <3> HIDE DEF value
      <3>3. QED
        BY <1>1, <3>1, <3>2 DEF EscrowBacked
    <2>5. ASSUME NEW spent \in 0..action.amount, NEW received \in 0..action.amount,
                 ClaimERC20Withdrawal(sequence, offset, action, spent, received)
          PROVE  EscrowBacked'
      <3>1. /\ action.token \in Tokens /\ spent = action.amount
            /\ escrowLiabilityByToken' =
                   [escrowLiabilityByToken EXCEPT ![action.token] = @ - action.amount]
            /\ totalDepositedByToken' =
                   [totalDepositedByToken EXCEPT ![action.token] = @ - action.amount]
            /\ balance' = [balance EXCEPT ![action.token] = @ - spent]
            /\ UNCHANGED nativeEscrowLiability
        BY <2>5 DEF ClaimERC20Withdrawal, TransferExact
      <3>2. QED
        BY <1>1, <2>3, <3>1 DEF EscrowBacked
    <2>6. QED
      BY <2>2, <2>4, <2>5
  <1>6. CASE Administer
    <2>1. ASSUME NEW a \in Assets, NEW n \in 1..(MaxBalance + 1),
                 EmergencyWithdrawToken(a, n)
          PROVE  EscrowBacked'
      <3>1. /\ n \in Nat /\ n <= AvailableForEmergency(a)
            /\ balance' = [balance EXCEPT ![a] = @ - n]
            /\ UNCHANGED <<totalDepositedByToken, nativeEscrowLiability,
                           escrowLiabilityByToken>>
        BY <2>1, ContractsAssumption DEF EmergencyWithdrawToken
      <3>2. QED
        BY <1>1, <2>1, <3>1 DEF AvailableForEmergency, EscrowBacked
    <2>2. CASE UNCHANGED custodyVars
      BY <1>2, <2>2
    <2>3. QED
      BY <1>6, <2>1, <2>2
      DEF Administer, SetVkHash, SetBridgeContract, Pause, Unpause, SetPaused,
          SetWithdrawalDelaySlots, bridgeVars, custodyVars
  <1>7. CASE Gift
    BY <1>1, <1>7 DEF Gift, Donate, EscrowBacked
  <1>8. QED
    BY <1>3, <1>4, <1>5, <1>6, <1>7 DEF Next

\* ERC-20 custody covers the liability of every token, native custody never
\* exceeds its own, and totalDepositedByToken is the liability, through
\* deposits, claims, donations and emergency withdrawals.
THEOREM CustodyCorrect == Spec => []EscrowBacked
  BY InitEscrow, NextEscrow, InitTypes, NextTypes, PTL DEF Spec

-----------------------------------------------------------------------------
(* History.                                                                *)

\* The registry counter counts the registry, so a receipt that appends to an
\* older registry is refused.
RegistryCounted == assetRegistryCount = Len(assetRegistryRoot)

\* What a settlement may do to the registry: append records at their own
\* indices, and remember them by hash (V3) or as a tree (V4).
RegistryGrows(appends) ==
    LET count == Len(assetRegistryRoot) IN
    /\ assetRegistryRoot' = assetRegistryRoot \o appends
    /\ \A i \in 1..Len(appends) : appends[i].registryIndex = count + i - 1
    /\ \/ UNCHANGED settledAssetRecordCommitment
       \/ /\ Len(appends) = 1
          /\ settledAssetRecordCommitment' =
                 Put(settledAssetRecordCommitment, RecordHash(appends[1]),
                     RecordCommitment(appends[1]))
    /\ \/ UNCHANGED assetRegistryRecordBatch
       \/ assetRegistryRecordBatch' =
              Put(assetRegistryRecordBatch, batchSequence + 1,
                  [registryCount |-> count + Len(appends),
                   recordBatchRoot |-> AssetRecordBatchRoot(count, appends)])

LEMMA SettleRegistry ==
    ASSUME TypeInv, RegistryCounted, Settle
    PROVE  /\ RegistryCounted'
           /\ \E appends \in Seq(Records) : RegistryGrows(appends)
  <1>1. PICK r, actions, appends :
             ReceiptShape(r, actions, appends) /\ VerifyAndUpdateRoot(r)
    BY SettleReceipt DEF TypeInv, TypeOK
  <1>2. assetRegistryRoot \in Seq(Records) /\ assetRegistryCount = Len(assetRegistryRoot)
    BY DEF TypeInv, TypeOK, SettlementTypeOK, RegistryCounted
  <1>3. CASE r.version >= 3
    <2>1. PICK old \in Prefixes(assetRegistryRoot) :
               /\ r.assetRegistryRoot = old \o appends
               /\ RegistryAppendsAccepted(r.version, old, appends)
               /\ r.assetRecordBatchRoot = AssetRecordBatchRoot(Len(old), appends)
      BY <1>1 DEF ReceiptShape
    <2>2. /\ old \in Seq(Records) /\ appends \in Seq(Records)
          /\ Len(old) <= Len(assetRegistryRoot)
          /\ \A i \in 1..Len(old) : old[i] = assetRegistryRoot[i]
      BY <1>1, <1>2, PrefixesMember DEF ReceiptShape
    <2>3. Len(old) + Len(appends) = Len(assetRegistryRoot) + Len(appends)
      <3>1. r.assetRegistryCount = Len(old) + Len(appends)
        BY <1>1, <2>1, <2>2 DEF ReceiptShape
      <3>2. r.assetRegistryCount = Len(assetRegistryRoot) + Len(appends)
        BY <1>1, <1>2, <1>3 DEF ReceiptShape, VerifyAndUpdateRoot, AssetRegistryCountAdvances
      <3>3. QED
        BY <3>1, <3>2
    <2>4. Len(old) = Len(assetRegistryRoot)
      BY <1>2, <2>2, <2>3, LenProperties
    <2>5. old = assetRegistryRoot
      BY <1>2, <2>2, <2>4, SeqEqual
    <2>6. assetRegistryRoot' = r.assetRegistryRoot /\ assetRegistryCount' = r.assetRegistryCount
          /\ r.assetRegistryCount = Len(r.assetRegistryRoot)
      BY <1>1, <1>3 DEF VerifyAndUpdateRoot, ReceiptShape
    <2>7. \A i \in 1..Len(appends) :
              appends[i].registryIndex = Len(assetRegistryRoot) + i - 1
      BY <2>1, <2>5 DEF RegistryAppendsAccepted
    <2>8. \/ UNCHANGED settledAssetRecordCommitment
          \/ /\ Len(appends) = 1
             /\ settledAssetRecordCommitment' =
                    Put(settledAssetRecordCommitment, RecordHash(appends[1]),
                        RecordCommitment(appends[1]))
      BY <1>1 DEF VerifyAndUpdateRoot, ReceiptShape
    <2>9. \/ UNCHANGED assetRegistryRecordBatch
          \/ assetRegistryRecordBatch' =
                 Put(assetRegistryRecordBatch, batchSequence + 1,
                     [registryCount |-> Len(assetRegistryRoot) + Len(appends),
                      recordBatchRoot |->
                          AssetRecordBatchRoot(Len(assetRegistryRoot), appends)])
      <3>1. r.batchSequence = batchSequence + 1
        BY <1>1 DEF VerifyAndUpdateRoot, ExpectedSequence
      <3>2. AssetRegistryRecordBatch(r) =
                [registryCount |-> Len(assetRegistryRoot) + Len(appends),
                 recordBatchRoot |-> AssetRecordBatchRoot(Len(assetRegistryRoot), appends)]
        <4>1. r.assetRegistryCount = Len(assetRegistryRoot) + Len(appends)
          BY <2>1, <2>2, <2>5, <2>6, ConcatProperties
        <4>2. QED
          BY <2>1, <2>5, <4>1 DEF AssetRegistryRecordBatch
      <3>3. QED
        BY <1>1, <3>1, <3>2 DEF VerifyAndUpdateRoot
    <2>10. RegistryGrows(appends)
      BY <2>1, <2>5, <2>6, <2>7, <2>8, <2>9 DEF RegistryGrows
    <2>11. QED
      BY <2>2, <2>6, <2>10 DEF RegistryCounted
  <1>4. CASE ~(r.version >= 3)
    <2>1. UNCHANGED <<assetRegistryRoot, assetRegistryCount, settledAssetRecordCommitment,
                      assetRegistryRecordBatch>>
      <3>1. r.version # 3 /\ r.version # 4
        BY <1>4
      <3>2. QED
        BY <1>1, <1>4, <3>1 DEF VerifyAndUpdateRoot
    <2>2. /\ << >> \in Seq(Records) /\ assetRegistryRoot = assetRegistryRoot \o << >>
          /\ Len(<< >>) = 0
      BY <1>2, EmptySeq, ConcatEmptySeq
    <2>3. RegistryGrows(<< >>)
      BY <2>1, <2>2 DEF RegistryGrows
    <2>4. QED
      BY <1>2, <2>1, <2>2, <2>3 DEF RegistryCounted
  <1>5. QED
    BY <1>3, <1>4

LEMMA NextRegistryCount == TypeInv /\ RegistryCounted /\ [Next]_vars => RegistryCounted'
  <1> SUFFICES ASSUME TypeInv, RegistryCounted, [Next]_vars PROVE RegistryCounted'
    OBVIOUS
  <1>1. CASE ~Settle
    BY <1>1, InnerFrame DEF innerVars, RegistryCounted
  <1>2. QED
    BY <1>1, SettleRegistry

\* The steps that write the logs extend them.
LEMMA LogsGrow ==
    ASSUME TypeInv, CheckpointsArePrefixes, RegistryCounted, [Next]_vars
    PROVE  /\ \E s \in Seq(OuterActions) : actionState' = actionState \o s
           /\ \E s \in Seq(InnerAction) :
                  outerState'.innerActionState = outerState.innerActionState \o s
           /\ \E s \in Seq(Records) : assetRegistryRoot' = assetRegistryRoot \o s
           /\ \E s \in Seq(Deposits) : currentDepositState' = currentDepositState \o s
  <1>1. /\ actionState \in Seq(OuterActions)
        /\ outerState.innerActionState \in Seq(InnerAction)
        /\ assetRegistryRoot \in Seq(Records) /\ currentDepositState \in Seq(Deposits)
    BY DEF TypeInv, TypeOK, SettlementTypeOK, BridgeTypeOK, OuterStates
  <1>2. \A S : << >> \in Seq(S)
    BY EmptySeq
  <1>3. /\ actionState = actionState \o << >>
        /\ outerState.innerActionState = outerState.innerActionState \o << >>
        /\ assetRegistryRoot = assetRegistryRoot \o << >>
        /\ currentDepositState = currentDepositState \o << >>
    BY <1>1, ConcatEmptySeq
  <1>4. \E s \in Seq(OuterActions) : actionState' = actionState \o s
    <2>1. CASE Settle
      <3>1. PICK r, actions, appends :
                 ReceiptShape(r, actions, appends) /\ VerifyAndUpdateRoot(r)
        BY <2>1, SettleReceipt DEF TypeInv, TypeOK
      <3> DEFINE commit == Commit(r.stateAfter, r.synchronizedOuterActionStateLength)
      <3>2. actionState' = Append(actionState, commit)
        BY <3>1 DEF ReceiptShape, VerifyAndUpdateRoot, SourceActionStateMatches
      <3>3. commit \in OuterActions
        BY <3>1 DEF ReceiptShape, Commit, OuterActions
      <3> HIDE DEF commit
      <3>4. <<commit>> \in Seq(OuterActions) /\ actionState' = actionState \o <<commit>>
        BY <1>1, <3>2, <3>3, AppendConcat
      <3>5. QED
        BY <3>4
    <2>2. CASE BridgeDeposits
      BY <2>2, BridgeAppends DEF AppendOuterWitnesses
    <2>3. CASE ~Settle /\ ~BridgeDeposits
      BY <1>2, <1>3, <2>3, LogFrame DEF logVars
    <2>4. QED
      BY <2>1, <2>2, <2>3
  <1>5. \E s \in Seq(InnerAction) :
            outerState'.innerActionState = outerState.innerActionState \o s
    <2>1. CASE Settle
      BY <2>1, SettleInner DEF InnerLogGrows
    <2>2. CASE ~Settle
      BY <1>2, <1>3, <2>2, InnerFrame DEF innerVars
    <2>3. QED
      BY <2>1, <2>2
  <1>6. \E s \in Seq(Records) : assetRegistryRoot' = assetRegistryRoot \o s
    <2>1. CASE ~Settle
      BY <1>2, <1>3, <2>1, InnerFrame DEF innerVars
    <2>2. CASE Settle
      BY <2>2, SettleRegistry DEF RegistryGrows
    <2>3. QED
      BY <2>1, <2>2
  <1>7. \E s \in Seq(Deposits) : currentDepositState' = currentDepositState \o s
    <2>1. CASE Deposit
      <3>1. PICK leaf \in Deposits : currentDepositState' = Append(currentDepositState, leaf)
        BY <2>1, DepositEffect
      <3>2. <<leaf>> \in Seq(Deposits) /\ currentDepositState' = currentDepositState \o <<leaf>>
        BY <1>1, <3>1, AppendConcat
      <3>3. QED
        BY <3>2
    <2>2. CASE BridgeDeposits
      <3>1. UNCHANGED currentDepositState
        BY <2>2 DEF BridgeDeposits, BridgeRange, SubmitBridgeTransition, depositVars
      <3>2. QED
        BY <1>2, <1>3, <3>1
    <2>3. CASE ~Deposit /\ ~BridgeDeposits
      BY <1>2, <1>3, <2>3, DepositFrame DEF depositLogVars
    <2>4. QED
      BY <2>1, <2>2, <2>3
  <1>8. QED
    BY <1>4, <1>5, <1>6, <1>7

\* A checkpoint is written for a log longer than every log before it.
LEMMA CheckpointsKept ==
    ASSUME TypeInv, CheckpointsArePrefixes, [Next]_vars,
           NEW s \in DOMAIN outerActionStateInfo
    PROVE  s \in DOMAIN outerActionStateInfo'
           /\ outerActionStateInfo'[s] = outerActionStateInfo[s]
  <1>1. /\ actionState \in Seq(OuterActions) /\ Len(actionState) \in Nat
        /\ s \in Seq(OuterActions) /\ IsPrefix(s, actionState)
        /\ Len(s) <= Len(actionState)
    BY LongerIsNoPrefix, LenProperties
    DEF TypeInv, TypeOK, SettlementTypeOK, CheckpointsArePrefixes
  <1>2. CASE Settle
    <2>1. PICK r, actions, appends :
               ReceiptShape(r, actions, appends) /\ VerifyAndUpdateRoot(r)
      BY <1>2, SettleReceipt DEF TypeInv, TypeOK
    <2> DEFINE commit == Commit(r.stateAfter, r.synchronizedOuterActionStateLength)
    <2>2. /\ actionState' = Append(actionState, commit)
          /\ outerActionStateInfo' = Put(outerActionStateInfo, actionState',
                                         outerActionStateLength')
      BY <2>1 DEF ReceiptShape, VerifyAndUpdateRoot, SourceActionStateMatches
    <2>3. commit \in OuterActions
      BY <2>1 DEF ReceiptShape, Commit, OuterActions
    <2> HIDE DEF commit
    <2>4. Len(actionState') = Len(actionState) + 1
      BY <1>1, <2>2, <2>3, AppendProperties
    <2>5. s # actionState'
      BY <1>1, <2>4
    <2>6. QED
      BY <2>2, <2>5 DEF Put
  <1>3. CASE BridgeDeposits
    <2>1. PICK d, leaves :
               /\ BatchShape(d, leaves) /\ SubmitBridgeTransition(d)
               /\ AppendOuterWitnesses(actionState, WitnessesOf(leaves), ThisBridge)
               /\ WitnessesOf(leaves) \in Seq(OuterActions)
      BY <1>3, BridgeAppends
    <2> DEFINE log == WitnessesOf(leaves)
    <2>2. /\ DOMAIN outerActionStateInfo \subseteq DOMAIN outerActionStateInfo'
          /\ \A t \in DOMAIN outerActionStateInfo' :
                 \/ /\ t \in DOMAIN outerActionStateInfo
                    /\ outerActionStateInfo'[t] = outerActionStateInfo[t]
                 \/ \E i \in 1..Len(log) : t = actionState \o SubSeq(log, 1, i)
      BY <2>1, AppendedCheckpoints DEF TypeInv, TypeOK
    <2>3. log \in Seq(OuterActions) /\ Len(log) \in Nat
      BY <2>1, LenProperties
    <2> HIDE DEF log
    <2>4. \A i \in 1..Len(log) : s # actionState \o SubSeq(log, 1, i)
      <3> SUFFICES ASSUME NEW i \in 1..Len(log), s = actionState \o SubSeq(log, 1, i)
                   PROVE  FALSE
        OBVIOUS
      <3>1. i \in 0..Len(log) /\ i \in Nat /\ i > 0
        BY <2>3
      <3>2. Len(s) = Len(actionState) + i
        BY <1>1, <2>3, <3>1, PartialConcat
      <3>3. QED
        BY <1>1, <3>1, <3>2
    <2>5. QED
      BY <2>2, <2>4
  <1>4. CASE ~Settle /\ ~BridgeDeposits
    BY <1>4, LogFrame DEF logVars
  <1>5. QED
    BY <1>2, <1>3, <1>4

\* A settlement's batch is stored under a number no batch has.
LEMMA BatchesKept ==
    ASSUME TypeInv, BatchInv, [Next]_vars, NEW q \in DOMAIN innerActionBatch
    PROVE  q \in DOMAIN innerActionBatch' /\ innerActionBatch'[q] = innerActionBatch[q]
  <1>1. CASE Settle
    <2>1. PICK actions \in Seq(InnerAction), bridge \in Addresses, slotUpper \in Nat :
               \E consumed : InnerLogGrows(actions, bridge, slotUpper, consumed)
      BY <1>1, SettleInner
    <2> DEFINE new == SettledBatch(actions, bridge, slotUpper)
    <2>2. innerActionBatch' \in {innerActionBatch,
                                 Put(innerActionBatch, batchSequence + 1, new)}
      BY <2>1 DEF InnerLogGrows
    <2>3. batchSequence \in Nat /\ q \in 1..batchSequence
      BY DEF TypeInv, TypeOK, SettlementTypeOK, BatchInv, BatchesNumbered
    <2> HIDE DEF new
    <2>4. QED
      BY <2>2, <2>3 DEF Put
  <1>2. CASE ~Settle
    BY <1>2, InnerFrame DEF innerVars
  <1>3. QED
    BY <1>1, <1>2

LEMMA CursorsAdvance ==
    ASSUME TypeInv, [Next]_vars, NEW w \in Recipients
    PROVE  nextWithdrawalIndex'[w] >= nextWithdrawalIndex[w]
  <1>1. nextWithdrawalIndex \in [Recipients -> Nat]
    BY DEF TypeInv, TypeOK, BridgeTypeOK
  <1>2. CASE Claim
    <2>1. PICK sequence \in DOMAIN innerActionBatch, offset \in Nat, action \in InnerAction :
               ClaimShape(sequence, offset, action)
      BY <1>2, ClaimEffect
    <2> DEFINE index == innerActionBatch[sequence].startIndex + offset
    <2>2. index \in Nat
      BY DEF TypeInv, TypeOK, SettlementTypeOK, InnerBatches
    <2>3. /\ index >= CursorAt(action.token, action.recipient)
          /\ Native \in Assets
          /\ CursorAt(Native, w)' = IF Native = action.token /\ w = action.recipient
                                    THEN index + 1 ELSE CursorAt(Native, w)
      BY <2>1 DEF ClaimShape, Assets
    <2> HIDE DEF index
    <2>4. QED
      BY <1>1, <2>2, <2>3 DEF CursorAt
  <1>3. CASE ~Claim
    BY <1>1, <1>3, ClaimFrame DEF withdrawalVars
  <1>4. QED
    BY <1>2, <1>3

\* No transaction rewrites history: the logs only grow, checkpoints and
\* batches keep their values, and cursors only advance.
THEOREM HistoryKept == Spec => HistoryOnlyGrows
  <1> DEFINE HistInv ==
          TypeInv /\ CheckpointsArePrefixes /\ BatchInv /\ RegistryCounted
             Grows ==
          /\ IsPrefix(actionState, actionState')
          /\ IsPrefix(outerState.innerActionState, outerState'.innerActionState)
          /\ IsPrefix(assetRegistryRoot, assetRegistryRoot')
          /\ IsPrefix(currentDepositState, currentDepositState')
          /\ \A s \in DOMAIN outerActionStateInfo :
                 s \in DOMAIN outerActionStateInfo'
                 /\ outerActionStateInfo'[s] = outerActionStateInfo[s]
          /\ \A q \in DOMAIN innerActionBatch :
                 q \in DOMAIN innerActionBatch' /\ innerActionBatch'[q] = innerActionBatch[q]
          /\ \A w \in Recipients : nextWithdrawalIndex'[w] >= nextWithdrawalIndex[w]
  <1>1. Init => HistInv
    <2>1. Init => RegistryCounted
      BY DEF Init, SettlementInit, RegistryCounted
    <2>2. QED
      BY <2>1, InitTypes, InitBatches, InitCheckpoints
  <1>2. HistInv /\ [Next]_vars => HistInv'
    BY NextTypes, NextCheckpoints, NextBatches, NextRegistryCount
  <1>3. HistInv /\ [Next]_vars => Grows
    <2> SUFFICES ASSUME HistInv, [Next]_vars PROVE Grows
      OBVIOUS
    <2>1. /\ actionState \in Seq(OuterActions)
          /\ outerState.innerActionState \in Seq(InnerAction)
          /\ assetRegistryRoot \in Seq(Records) /\ currentDepositState \in Seq(Deposits)
      BY DEF TypeInv, TypeOK, SettlementTypeOK, BridgeTypeOK, OuterStates
    <2>2. /\ IsPrefix(actionState, actionState')
          /\ IsPrefix(outerState.innerActionState, outerState'.innerActionState)
          /\ IsPrefix(assetRegistryRoot, assetRegistryRoot')
          /\ IsPrefix(currentDepositState, currentDepositState')
      BY <2>1, LogsGrow, ExtensionHasPrefix
    <2>3. QED
      BY <2>2, CheckpointsKept, BatchesKept, CursorsAdvance
  <1>4. QED
    BY <1>1, <1>2, <1>3, PTL DEF Spec, HistoryOnlyGrows
-----------------------------------------------------------------------------
(* The asset registry: its tables agree with one another and with the      *)
(* bridge's custody, and custody is only bound to a record that the L2     *)
(* registry holds at the record's index.                                   *)

facetVars == <<registryVars, assetVars>>

\* Only the registry facet writes its tables and the bridge's custody state.
LEMMA FacetFrame ==
    ASSUME [Next]_vars, ~Register
    PROVE  UNCHANGED facetVars
  <1>1. CASE Settle \/ Tick
    <2>1. UNCHANGED <<bridgeVars, registryVars>>
      BY <1>1 DEF Settle, Tick
    <2>2. QED
      BY <2>1 DEF bridgeVars, assetVars, facetVars
  <1>2. CASE BridgeDeposits
    BY <1>2 DEF BridgeDeposits, BridgeRange, SubmitBridgeTransition, facetVars
  <1>3. CASE Deposit \/ Gift
    BY <1>3 DEF Deposit, DepositETH, SubmitDeposit, Gift, Donate, facetVars
  <1>4. CASE Claim
    BY <1>4 DEF Claim, ClaimNativeWithdrawal, ClaimERC20Withdrawal, facetVars
  <1>5. CASE Administer
    BY <1>5 DEF Administer, Pause, Unpause, SetPaused, SetWithdrawalDelaySlots,
                EmergencyWithdrawToken, bridgeVars, assetVars, facetVars
  <1>6. CASE UNCHANGED vars
    BY <1>6 DEF vars, bridgeVars, assetVars, facetVars
  <1>7. QED
    BY <1>1, <1>2, <1>3, <1>4, <1>5, <1>6 DEF Next

-----------------------------------------------------------------------------
(* The tables.                                                             *)

Listed(token) == assetStatusByToken[token] # "None"

\* A listed token has an index in the table, and its identity is taken.
ListedTokens ==
    \A t \in Tokens : Listed(t) =>
        /\ assetRecordByToken[t].registryIndex \in DOMAIN assetTokenByRegistryIndex
        /\ assetRecordByToken[t].identity \in proposedL2TokenIdentity

RegistryInv == RegistryConsistent /\ ListedTokens

LEMMA InitRegistry == Init => RegistryInv
  <1> SUFFICES ASSUME Init PROVE RegistryInv
    OBVIOUS
  <1>1. /\ \A t \in Tokens : assetStatusByToken[t] = "None" /\ canonicalRecord[t] = NoRecord
        /\ DOMAIN assetTokenByRegistryIndex = {} /\ proposedAssetCount = 0
    BY DEF Init, RegistryInit, BridgeInit
  <1>2. \A t \in Tokens : ~allowedToken[t]
    BY ContractsAssumption DEF Init, BridgeInit, Assets
  <1>3. 0..(0 - 1) = {}
    OBVIOUS
  <1>4. QED
    BY <1>1, <1>2, <1>3 DEF RegistryInv, RegistryConsistent, ProposalsDense,
       CustodyFollowsRegistry, CanonicalTokenRegistered, ListedTokens, Listed

\* A proposal takes the next index and an identity that no listed token has.
LEMMA ProposeRegistry ==
    ASSUME TypeInv, RegistryInv, NEW record \in Records, ProposeAsset(record)
    PROVE  RegistryInv'
  <1> DEFINE token == record.token
             n == proposedAssetCount
  <1>1. /\ token \in Tokens /\ n \in Nat /\ record.registryIndex = n
        /\ assetStatusByToken[token] = "None"
        /\ ~CanonicalTokenRegistered(token) /\ ~allowedToken[token]
        /\ record.identity \notin proposedL2TokenIdentity
    BY SettlementAssumption
    DEF ProposeAsset, Records, TypeInv, TypeOK, RegistryTypeOK, IdentityUnused
  <1>2. /\ assetRecordByToken' = [assetRecordByToken EXCEPT ![token] = record]
        /\ assetTokenByRegistryIndex' = Put(assetTokenByRegistryIndex, n, token)
        /\ assetStatusByToken' = [assetStatusByToken EXCEPT ![token] = "Pending"]
        /\ proposedL2TokenIdentity' = proposedL2TokenIdentity \cup {record.identity}
        /\ proposedAssetCount' = n + 1
        /\ UNCHANGED <<allowedToken, canonicalRecord>>
    BY <1>1 DEF ProposeAsset, assetVars
  <1>3. /\ \A t \in Tokens : t # token =>
               /\ assetRecordByToken'[t] = assetRecordByToken[t]
               /\ assetStatusByToken'[t] = assetStatusByToken[t]
        /\ assetRecordByToken'[token] = record
        /\ assetStatusByToken'[token] = "Pending"
    BY <1>1, <1>2 DEF TypeInv, TypeOK, RegistryTypeOK
  <1>4. /\ DOMAIN assetTokenByRegistryIndex = 0..(n - 1) /\ n \notin 0..(n - 1)
        /\ (0..(n - 1)) \cup {n} = 0..((n + 1) - 1)
    BY <1>1 DEF RegistryInv, RegistryConsistent, ProposalsDense
  <1>5. /\ DOMAIN assetTokenByRegistryIndex' = (DOMAIN assetTokenByRegistryIndex) \cup {n}
        /\ \A i \in DOMAIN assetTokenByRegistryIndex :
               assetTokenByRegistryIndex'[i] = assetTokenByRegistryIndex[i]
        /\ assetTokenByRegistryIndex'[n] = token
    BY <1>2, <1>4 DEF Put
  <1>6. \A i \in DOMAIN assetTokenByRegistryIndex :
            /\ assetTokenByRegistryIndex[i] \in Tokens
            /\ assetTokenByRegistryIndex[i] # token
    BY <1>1 DEF RegistryInv, RegistryConsistent, ProposalsDense, TypeInv, TypeOK,
                RegistryTypeOK
  <1>7. DOMAIN assetTokenByRegistryIndex' = 0..(proposedAssetCount' - 1)
    BY <1>2, <1>4, <1>5
  <1>8. \A i \in DOMAIN assetTokenByRegistryIndex' :
            /\ assetStatusByToken'[assetTokenByRegistryIndex'[i]] # "None"
            /\ assetRecordByToken'[assetTokenByRegistryIndex'[i]].registryIndex = i
    BY <1>1, <1>3, <1>5, <1>6 DEF RegistryInv, RegistryConsistent, ProposalsDense
  <1>9. ASSUME NEW t \in Tokens, assetStatusByToken'[t] # "None"
        PROVE  /\ assetRecordByToken'[t].registryIndex \in DOMAIN assetTokenByRegistryIndex'
               /\ assetTokenByRegistryIndex'[assetRecordByToken'[t].registryIndex] = t
               /\ assetRecordByToken'[t].identity \in proposedL2TokenIdentity'
    <2>1. CASE t = token
      BY <1>1, <1>2, <1>3, <1>5, <2>1
    <2>2. CASE t # token
      BY <1>2, <1>3, <1>5, <1>9, <2>2
      DEF RegistryInv, RegistryConsistent, ProposalsDense, ListedTokens, Listed
    <2>3. QED
      BY <2>1, <2>2
  <1>10. ASSUME NEW t \in Tokens, NEW u \in Tokens, t # u,
                assetStatusByToken'[t] # "None", assetStatusByToken'[u] # "None"
         PROVE  assetRecordByToken'[t].identity # assetRecordByToken'[u].identity
    <2>1. ASSUME NEW v \in Tokens, v # token, assetStatusByToken'[v] # "None"
          PROVE  assetRecordByToken'[v].identity # record.identity
      BY <1>1, <1>3, <2>1 DEF RegistryInv, ListedTokens, Listed
    <2>2. CASE t # token /\ u # token
      BY <1>3, <1>10, <2>2 DEF RegistryInv, RegistryConsistent, ProposalsDense
    <2>3. QED
      BY <1>3, <1>10, <2>1, <2>2
  <1>11. CustodyFollowsRegistry'
    BY <1>1, <1>2, <1>3
    DEF RegistryInv, RegistryConsistent, CustodyFollowsRegistry, CanonicalTokenRegistered
  <1>12. ProposalsDense'
    BY <1>7, <1>8, <1>9, <1>10 DEF ProposalsDense
  <1>13. ListedTokens'
    BY <1>9 DEF ListedTokens, Listed
  <1>14. QED
    BY <1>11, <1>12, <1>13 DEF RegistryInv, RegistryConsistent

\* A cancellation frees the last index; the others keep theirs.
LEMMA CancelRegistry ==
    ASSUME TypeInv, RegistryInv, NEW token \in Tokens, CancelLastPendingAsset(token)
    PROVE  RegistryInv'
  <1> DEFINE record == assetRecordByToken[token]
             k == record.registryIndex
  <1>1. /\ assetStatusByToken[token] = "Pending"
        /\ k + 1 = proposedAssetCount /\ k \in DOMAIN assetTokenByRegistryIndex
        /\ assetTokenByRegistryIndex[k] = record.token
        /\ proposedL2TokenIdentity' = proposedL2TokenIdentity \ {record.identity}
        /\ assetTokenByRegistryIndex' =
               [i \in DOMAIN assetTokenByRegistryIndex \ {k} |-> assetTokenByRegistryIndex[i]]
        /\ assetStatusByToken' = [assetStatusByToken EXCEPT ![token] = "None"]
        /\ assetRecordByToken' = [assetRecordByToken EXCEPT ![token] = NoRecord]
        /\ proposedAssetCount' = k
        /\ UNCHANGED <<allowedToken, canonicalRecord>>
    BY DEF CancelLastPendingAsset, IsTail, assetVars
  <1>2. record \in Records /\ record.token = token /\ k \in Nat
    <2>1. record \in Records /\ record.token = token
      BY <1>1 DEF TypeInv, Accounts
    <2>2. QED
      BY <2>1, SettlementAssumption DEF Records
  <1>3. /\ \A t \in Tokens : t # token =>
               /\ assetRecordByToken'[t] = assetRecordByToken[t]
               /\ assetStatusByToken'[t] = assetStatusByToken[t]
        /\ assetStatusByToken'[token] = "None"
    BY <1>1 DEF TypeInv, TypeOK, RegistryTypeOK
  <1>4. DOMAIN assetTokenByRegistryIndex = 0..k
    <2>1. DOMAIN assetTokenByRegistryIndex = 0..(proposedAssetCount - 1)
      BY DEF RegistryInv, RegistryConsistent, ProposalsDense
    <2>2. proposedAssetCount - 1 = k
      BY <1>1, <1>2
    <2>3. QED
      BY <2>1, <2>2
  <1>5. DOMAIN assetTokenByRegistryIndex' = 0..(proposedAssetCount' - 1)
    <2>1. (0..k) \ {k} = 0..(k - 1)
      BY <1>2
    <2>2. QED
      BY <1>1, <1>4, <2>1
  <1>6. \A i \in DOMAIN assetTokenByRegistryIndex' :
            /\ i \in DOMAIN assetTokenByRegistryIndex /\ i # k
            /\ assetTokenByRegistryIndex'[i] = assetTokenByRegistryIndex[i]
            /\ assetTokenByRegistryIndex[i] \in Tokens
    BY <1>1 DEF TypeInv, TypeOK, RegistryTypeOK
  <1> HIDE DEF k, record
  <1>7. \A i \in DOMAIN assetTokenByRegistryIndex' : assetTokenByRegistryIndex[i] # token
    <2>1. \A i \in DOMAIN assetTokenByRegistryIndex :
              assetRecordByToken[assetTokenByRegistryIndex[i]].registryIndex = i
      BY DEF RegistryInv, RegistryConsistent, ProposalsDense
    <2>2. QED
      BY <1>6, <2>1 DEF k, record
  <1>8. \A i \in DOMAIN assetTokenByRegistryIndex' :
            /\ assetStatusByToken'[assetTokenByRegistryIndex'[i]] # "None"
            /\ assetRecordByToken'[assetTokenByRegistryIndex'[i]].registryIndex = i
    BY <1>3, <1>6, <1>7 DEF RegistryInv, RegistryConsistent, ProposalsDense
  <1>9. ASSUME NEW t \in Tokens, assetStatusByToken'[t] # "None"
        PROVE  /\ assetRecordByToken'[t].registryIndex \in DOMAIN assetTokenByRegistryIndex'
               /\ assetTokenByRegistryIndex'[assetRecordByToken'[t].registryIndex] = t
               /\ assetRecordByToken'[t].identity \in proposedL2TokenIdentity'
    <2>1. t # token /\ assetRecordByToken'[t] = assetRecordByToken[t]
          /\ assetStatusByToken[t] # "None"
      BY <1>3, <1>9
    <2> DEFINE j == assetRecordByToken[t].registryIndex
    <2>2. /\ j \in DOMAIN assetTokenByRegistryIndex /\ assetTokenByRegistryIndex[j] = t
          /\ assetRecordByToken[t].identity \in proposedL2TokenIdentity
          /\ assetRecordByToken[t].identity # record.identity
      BY <1>1, <2>1
      DEF RegistryInv, RegistryConsistent, ProposalsDense, ListedTokens, Listed, record
    <2>3. j # k
      BY <1>1, <1>2, <2>1, <2>2
    <2>4. QED
      BY <1>1, <2>1, <2>2, <2>3
  <1>10. ASSUME NEW t \in Tokens, NEW u \in Tokens, t # u,
                assetStatusByToken'[t] # "None", assetStatusByToken'[u] # "None"
         PROVE  assetRecordByToken'[t].identity # assetRecordByToken'[u].identity
    BY <1>3, <1>10 DEF RegistryInv, RegistryConsistent, ProposalsDense
  <1>11. CustodyFollowsRegistry'
    BY <1>1, <1>3
    DEF RegistryInv, RegistryConsistent, CustodyFollowsRegistry, CanonicalTokenRegistered
  <1>12. ProposalsDense'
    BY <1>5, <1>8, <1>9, <1>10 DEF ProposalsDense
  <1>13. ListedTokens'
    BY <1>9 DEF ListedTokens, Listed
  <1>14. QED
    BY <1>11, <1>12, <1>13 DEF RegistryInv, RegistryConsistent
\* Activation and status changes move the status and custody together.
LEMMA StatusRegistry ==
    ASSUME TypeInv, RegistryInv, NEW token \in Tokens, NEW status \in AssetStatus,
           assetStatusByToken[token] # "None", status \notin {"None", "Pending"},
           assetStatusByToken' = [assetStatusByToken EXCEPT ![token] = status],
           allowedToken' = [allowedToken EXCEPT ![token] = (status = "Active")],
           canonicalRecord' = [canonicalRecord EXCEPT ![token] = assetRecordByToken[token]],
           UNCHANGED <<assetRecordByToken, assetTokenByRegistryIndex,
                       proposedL2TokenIdentity, proposedAssetCount>>
    PROVE  RegistryInv'
  <1>1. /\ \A t \in Tokens : t # token =>
               /\ assetStatusByToken'[t] = assetStatusByToken[t]
               /\ allowedToken'[t] = allowedToken[t]
               /\ canonicalRecord'[t] = canonicalRecord[t]
        /\ assetStatusByToken'[token] = status
        /\ allowedToken'[token] = (status = "Active")
        /\ canonicalRecord'[token] = assetRecordByToken[token]
    BY DEF TypeInv, TypeOK, RegistryTypeOK, BridgeTypeOK, Assets
  <1>2. \A t \in Tokens : assetStatusByToken'[t] # "None" <=> assetStatusByToken[t] # "None"
    BY <1>1
  <1>3. assetRecordByToken[token] # NoRecord
    BY ContractsAssumption DEF TypeInv, Accounts
  <1>4. ProposalsDense'
    <2>1. \A i \in DOMAIN assetTokenByRegistryIndex : assetTokenByRegistryIndex[i] \in Tokens
      BY DEF TypeInv, TypeOK, RegistryTypeOK
    <2>2. QED
      BY <1>2, <2>1 DEF RegistryInv, RegistryConsistent, ProposalsDense
  <1>5. ListedTokens'
    BY <1>2 DEF RegistryInv, ListedTokens, Listed
  <1>6. CustodyFollowsRegistry'
    <2> SUFFICES ASSUME NEW t \in Tokens
                 PROVE  /\ canonicalRecord'[t] # NoRecord
                               <=> assetStatusByToken'[t] \notin {"None", "Pending"}
                        /\ canonicalRecord'[t] # NoRecord
                               => canonicalRecord'[t] = assetRecordByToken[t]
                        /\ allowedToken'[t] <=> assetStatusByToken'[t] = "Active"
      BY DEF CustodyFollowsRegistry, CanonicalTokenRegistered
    <2>1. CASE t = token
      BY <1>1, <1>3, <2>1
    <2>2. CASE t # token
      BY <1>1, <2>2
      DEF RegistryInv, RegistryConsistent, CustodyFollowsRegistry, CanonicalTokenRegistered
    <2>3. QED
      BY <2>1, <2>2
  <1>7. QED
    BY <1>4, <1>5, <1>6 DEF RegistryInv, RegistryConsistent

\* What an activation does, once its proof of settlement is accepted.
LEMMA ActivateEffect ==
    ASSUME TypeInv, NEW token \in Tokens, assetStatusByToken[token] = "Pending",
           Activate(assetRecordByToken[token])
    PROVE  /\ assetRecordByToken[token] \in Records
           /\ assetStatusByToken' = [assetStatusByToken EXCEPT ![token] = "Active"]
           /\ allowedToken' = [allowedToken EXCEPT ![token] = TRUE]
           /\ canonicalRecord' =
                  [canonicalRecord EXCEPT ![token] = assetRecordByToken[token]]
           /\ UNCHANGED <<assetRecordByToken, assetTokenByRegistryIndex,
                          proposedL2TokenIdentity, proposedAssetCount>>
  <1>1. assetRecordByToken[token] \in Records /\ assetRecordByToken[token].token = token
    BY DEF TypeInv, Accounts
  <1>2. QED
    BY <1>1 DEF Activate, ActivateAssetRecordFromRegistry

LEMMA ActivateRegistry ==
    ASSUME TypeInv, RegistryInv, NEW token \in Tokens,
           assetStatusByToken[token] = "Pending", Activate(assetRecordByToken[token])
    PROVE  RegistryInv'
  <1>1. ("Active" = "Active") = TRUE /\ "Active" \in AssetStatus
        /\ "Active" \notin {"None", "Pending"} /\ assetStatusByToken[token] # "None"
    BY DEF AssetStatus
  <1>2. QED
    BY <1>1, ActivateEffect, StatusRegistry

LEMMA SetStatusRegistry ==
    ASSUME TypeInv, RegistryInv, NEW token \in Tokens, NEW status \in AssetStatus,
           SetAssetStatus(token, status)
    PROVE  RegistryInv'
  <1>1. canonicalRecord[token] = assetRecordByToken[token]
    BY DEF SetAssetStatus, RegistryInv, RegistryConsistent, CustodyFollowsRegistry
  <1>2. canonicalRecord' = [canonicalRecord EXCEPT ![token] = assetRecordByToken[token]]
    BY <1>1 DEF SetAssetStatus, SetAssetAllowedFromRegistry, TypeInv, TypeOK, BridgeTypeOK
  <1>3. QED
    BY <1>2, StatusRegistry DEF SetAssetStatus, SetAssetAllowedFromRegistry

LEMMA NextRegistry == TypeInv /\ RegistryInv /\ [Next]_vars => RegistryInv'
  <1> SUFFICES ASSUME TypeInv, RegistryInv, [Next]_vars PROVE RegistryInv'
    OBVIOUS
  <1>1. CASE Register
    <2>1. \/ \E record \in Records : ProposeAsset(record)
          \/ \E token \in Tokens :
                 \/ CancelLastPendingAsset(token)
                 \/ /\ assetStatusByToken[token] = "Pending"
                    /\ Activate(assetRecordByToken[token])
                 \/ \E status \in AssetStatus : SetAssetStatus(token, status)
      BY <1>1 DEF Register, ActivateAsset, ActivateAssetFromBatch
    <2>2. QED
      BY <2>1, ProposeRegistry, CancelRegistry, ActivateRegistry, SetStatusRegistry
  <1>2. CASE ~Register
    <2>1. UNCHANGED facetVars
      BY <1>2, FacetFrame
    <2>2. QED
      BY <2>1 DEF facetVars, registryVars, assetVars, RegistryInv, RegistryConsistent,
         ProposalsDense, CustodyFollowsRegistry, CanonicalTokenRegistered, ListedTokens,
         Listed
  <1>3. QED
    BY <1>1, <1>2

\* Through any sequence of proposals, cancellations, activations and status
\* changes, proposals occupy the indices below the count, one token each with
\* its own identity, and custody follows the registry's status.
THEOREM RegistryCorrect == Spec => []RegistryConsistent
  <1>1. RegistryInv => RegistryConsistent
    BY DEF RegistryInv
  <1>2. QED
    BY <1>1, InitTypes, NextTypes, InitRegistry, NextRegistry, PTL DEF Spec
-----------------------------------------------------------------------------
(* What custody is bound to.                                               *)

\* A hash that a V3 receipt settled is the hash of the registry's record at
\* that record's index, and so is every leaf of a V4 batch.
SettledHashes ==
    \A h \in DOMAIN settledAssetRecordCommitment :
        \E i \in DOMAIN assetRegistryRoot :
            h = RecordHash(assetRegistryRoot[i]) /\ assetRegistryRoot[i].registryIndex = i - 1

SettledTrees ==
    \A q \in DOMAIN assetRegistryRecordBatch :
        LET tree == assetRegistryRecordBatch[q].recordBatchRoot IN
        \A i \in DOMAIN tree :
            /\ i \in Nat /\ i + 1 \in DOMAIN assetRegistryRoot
            /\ tree[i] = <<RecordHash(assetRegistryRoot[i + 1]),
                           RecordCommitment(assetRegistryRoot[i + 1])>>

SettledInv ==
    RegistryCounted /\ SettledHashes /\ SettledTrees /\ ActivatedRecordsSettled

LEMMA InitSettled == Init => SettledInv
  BY EmptySeq DEF Init, SettlementInit, BridgeInit, SettledInv, RegistryCounted, SettledHashes,
         SettledTrees, ActivatedRecordsSettled, CanonicalTokenRegistered

\* The tree of a batch that is appended to a registry.
LEMMA TreeLeaves ==
    ASSUME NEW root \in Seq(Records), NEW appends \in Seq(Records)
    PROVE  LET tree == AssetRecordBatchRoot(Len(root), appends)
               log == root \o appends
           IN  \A i \in DOMAIN tree :
                   /\ i \in Nat /\ i + 1 \in DOMAIN log
                   /\ tree[i] = <<RecordHash(log[i + 1]), RecordCommitment(log[i + 1])>>
  <1> DEFINE n == Len(root)
             k == Len(appends)
             tree == AssetRecordBatchRoot(n, appends)
             log == root \o appends
  <1>1. /\ n \in Nat /\ k \in Nat /\ DOMAIN log = 1..(n + k)
        /\ \A j \in 1..k : log[n + j] = appends[j]
    <2>1. /\ n \in Nat /\ k \in Nat /\ log \in Seq(Records) /\ Len(log) = n + k
          /\ \A j \in 1..(n + k) : log[j] = IF j <= n THEN root[j] ELSE appends[j - n]
      BY LenProperties, ConcatProperties
    <2>2. DOMAIN log = 1..(n + k)
      BY <2>1, LenProperties
    <2> HIDE DEF n, k, log
    <2>3. ASSUME NEW j \in 1..k PROVE log[n + j] = appends[j]
      <3>1. n + j \in 1..(n + k) /\ ~(n + j <= n) /\ (n + j) - n = j
        BY <2>1
      <3>2. QED
        BY <2>1, <3>1
    <2>4. QED
      BY <2>1, <2>2, <2>3
  <1>2. DOMAIN tree = n..(n + k - 1)
    BY DEF AssetRecordBatchRoot
  <1>3. \A i \in n..(n + k - 1) :
            tree[i] = <<RecordHash(appends[i - n + 1]), RecordCommitment(appends[i - n + 1])>>
    BY DEF AssetRecordBatchRoot
  <1> HIDE DEF n, k, tree, log
  <1>4. ASSUME NEW i \in n..(n + k - 1)
        PROVE  /\ i \in Nat /\ i + 1 \in 1..(n + k)
               /\ log[i + 1] = appends[i - n + 1]
    <2>1. i - n + 1 \in 1..k /\ n + (i - n + 1) = i + 1 /\ i \in Nat /\ i + 1 \in 1..(n + k)
      BY <1>1
    <2>2. log[n + (i - n + 1)] = appends[i - n + 1]
      BY <1>1, <2>1
    <2>3. QED
      BY <2>1, <2>2
  <1>5. \A i \in DOMAIN tree :
            /\ i \in Nat /\ i + 1 \in DOMAIN log
            /\ tree[i] = <<RecordHash(log[i + 1]), RecordCommitment(log[i + 1])>>
    BY <1>1, <1>2, <1>3, <1>4
  <1>6. QED
    BY <1>5 DEF n, tree, log

LEMMA SettleSettled ==
    ASSUME TypeInv, SettledInv, Settle
    PROVE  SettledInv'
  <1> DEFINE root == assetRegistryRoot
             n == Len(root)
             new == assetRegistryRoot'
  <1>1. PICK appends \in Seq(Records) : RegistryGrows(appends)
    BY SettleRegistry DEF SettledInv
  <1>2. root \in Seq(Records) /\ n \in Nat /\ new = root \o appends
    BY <1>1, LenProperties DEF RegistryGrows, TypeInv, TypeOK, SettlementTypeOK
  <1>3. /\ DOMAIN root = 1..n /\ Len(appends) \in Nat
        /\ DOMAIN new = 1..(n + Len(appends)) /\ Len(new) = n + Len(appends)
        /\ \A i \in 1..n : new[i] = root[i]
        /\ Len(appends) = 1 => new[n + 1] = appends[1]
    <2>1. /\ new \in Seq(Records) /\ Len(new) = n + Len(appends) /\ Len(appends) \in Nat
          /\ \A j \in 1..(n + Len(appends)) :
                 new[j] = IF j <= n THEN root[j] ELSE appends[j - n]
      BY <1>2, LenProperties, ConcatProperties
    <2>2. DOMAIN root = 1..n /\ DOMAIN new = 1..(n + Len(appends))
      BY <1>2, <2>1, LenProperties
    <2> HIDE DEF n, new, root
    <2>3. \A j \in 1..n : j \in 1..(n + Len(appends)) /\ j <= n
      BY <1>2, <2>1
    <2>4. Len(appends) = 1 => n + 1 \in 1..(n + Len(appends)) /\ ~(n + 1 <= n)
                              /\ (n + 1) - n = 1
      BY <1>2
    <2>5. QED
      BY <2>1, <2>2, <2>3, <2>4
  <1>4. \A i \in DOMAIN root : i \in DOMAIN new /\ new[i] = root[i]
    BY <1>2, <1>3
  <1> HIDE DEF root, new, n
  <1>5. SettledHashes'
    <2> SUFFICES ASSUME NEW h \in DOMAIN settledAssetRecordCommitment'
                 PROVE  \E i \in DOMAIN new :
                            h = RecordHash(new[i]) /\ new[i].registryIndex = i - 1
      BY DEF SettledHashes, new
    <2>1. CASE h \in DOMAIN settledAssetRecordCommitment
      BY <1>4, <2>1 DEF SettledInv, SettledHashes, root
    <2>2. CASE h \notin DOMAIN settledAssetRecordCommitment
      <3>1. Len(appends) = 1 /\ h = RecordHash(appends[1])
        BY <1>1, <2>2 DEF RegistryGrows, Put
      <3>2. appends[1].registryIndex = n + 1 - 1
        BY <1>1, <3>1 DEF RegistryGrows, n, root
      <3>3. n + 1 \in DOMAIN new /\ new[n + 1] = appends[1]
        BY <1>2, <1>3, <3>1
      <3>4. h = RecordHash(new[n + 1])
        BY <3>1, <3>3
      <3>5. new[n + 1].registryIndex = (n + 1) - 1
        BY <1>2, <3>2, <3>3
      <3>6. QED
        BY <3>3, <3>4, <3>5
    <2>3. QED
      BY <2>1, <2>2
  <1>6. SettledTrees'
    <2> SUFFICES ASSUME NEW q \in DOMAIN assetRegistryRecordBatch',
                        NEW i \in DOMAIN assetRegistryRecordBatch'[q].recordBatchRoot
                 PROVE  /\ i \in Nat /\ i + 1 \in DOMAIN new
                        /\ assetRegistryRecordBatch'[q].recordBatchRoot[i]
                             = <<RecordHash(new[i + 1]), RecordCommitment(new[i + 1])>>
      BY DEF SettledTrees, new
    <2>1. CASE /\ q \in DOMAIN assetRegistryRecordBatch
               /\ assetRegistryRecordBatch'[q] = assetRegistryRecordBatch[q]
      <3>1. /\ i \in Nat /\ i + 1 \in DOMAIN root
            /\ assetRegistryRecordBatch[q].recordBatchRoot[i]
                 = <<RecordHash(root[i + 1]), RecordCommitment(root[i + 1])>>
        BY <2>1 DEF SettledInv, SettledTrees, root
      <3>2. QED
        BY <1>4, <2>1, <3>1
    <2>2. CASE ~(/\ q \in DOMAIN assetRegistryRecordBatch
                 /\ assetRegistryRecordBatch'[q] = assetRegistryRecordBatch[q])
      <3>1. assetRegistryRecordBatch'[q].recordBatchRoot = AssetRecordBatchRoot(n, appends)
        BY <1>1, <2>2 DEF RegistryGrows, Put, n, root
      <3>2. QED
        BY <1>2, <3>1, TreeLeaves DEF n
    <2>3. QED
      BY <2>1, <2>2
  <1>7. ActivatedRecordsSettled'
    <2> SUFFICES ASSUME NEW t \in Tokens, canonicalRecord[t] # NoRecord
                 PROVE  /\ canonicalRecord[t].registryIndex < Len(new)
                        /\ new[canonicalRecord[t].registryIndex + 1] = canonicalRecord[t]
      <3>1. UNCHANGED canonicalRecord
        BY DEF Settle, bridgeVars
      <3>2. QED
        BY <3>1 DEF ActivatedRecordsSettled, CanonicalTokenRegistered, new
    <2> DEFINE x == canonicalRecord[t].registryIndex
    <2>1. /\ x < n /\ root[x + 1] = canonicalRecord[t]
      BY DEF SettledInv, ActivatedRecordsSettled, CanonicalTokenRegistered, n, root
    <2>2. x \in Nat
      <3>1. canonicalRecord[t] \in Records
        BY DEF TypeInv, TypeOK, BridgeTypeOK
      <3>2. QED
        BY <3>1, SettlementAssumption DEF Records
    <2> HIDE DEF x
    <2>3. x + 1 \in 1..n /\ x < Len(new)
      BY <1>2, <1>3, <2>1, <2>2
    <2>4. QED
      BY <1>3, <2>1, <2>3 DEF x
  <1>8. RegistryCounted'
    BY SettleRegistry DEF SettledInv
  <1>9. QED
    BY <1>5, <1>6, <1>7, <1>8 DEF SettledInv

\* Either proof of settlement pins the record to its index of the registry.
LEMMA ActivationSettled ==
    ASSUME TypeInv, SettledInv, NEW record \in Records,
           SettledByReceipt(record) \/ \E sequence : SettledByBatch(record, sequence)
    PROVE  /\ record.registryIndex < Len(assetRegistryRoot)
           /\ assetRegistryRoot[record.registryIndex + 1] = record
  <1>1. assetRegistryRoot \in Seq(Records)
    BY DEF TypeInv, TypeOK, SettlementTypeOK
  <1>2. Len(assetRegistryRoot) \in Nat /\ DOMAIN assetRegistryRoot = 1..Len(assetRegistryRoot)
    BY <1>1, LenProperties
  <1>3. record.registryIndex \in Nat
    BY SettlementAssumption DEF Records
  <1>4. CASE SettledByReceipt(record)
    <2>1. PICK i \in DOMAIN assetRegistryRoot :
               /\ RecordHash(record) = RecordHash(assetRegistryRoot[i])
               /\ assetRegistryRoot[i].registryIndex = i - 1
      BY <1>4 DEF SettledByReceipt, SettledInv, SettledHashes
    <2>2. assetRegistryRoot[i] = record
      BY <2>1 DEF RecordHash
    <2>3. record.registryIndex + 1 = i /\ i <= Len(assetRegistryRoot)
      BY <1>2, <2>1, <2>2
    <2>4. QED
      BY <1>2, <1>3, <2>2, <2>3
  <1>5. ASSUME NEW sequence, SettledByBatch(record, sequence)
        PROVE  /\ record.registryIndex < Len(assetRegistryRoot)
               /\ assetRegistryRoot[record.registryIndex + 1] = record
    <2> DEFINE x == record.registryIndex
               tree == assetRegistryRecordBatch[sequence].recordBatchRoot
    <2>1. /\ sequence \in DOMAIN assetRegistryRecordBatch /\ x \in DOMAIN tree
          /\ tree[x] = <<RecordHash(record), RecordCommitment(record)>>
      BY <1>5 DEF SettledByBatch
    <2>2. /\ x + 1 \in DOMAIN assetRegistryRoot
          /\ tree[x] = <<RecordHash(assetRegistryRoot[x + 1]),
                         RecordCommitment(assetRegistryRoot[x + 1])>>
      BY <2>1 DEF SettledInv, SettledTrees
    <2>3. RecordHash(record) = RecordHash(assetRegistryRoot[x + 1])
      BY <2>1, <2>2
    <2>4. assetRegistryRoot[x + 1] = record
      BY <2>3 DEF RecordHash
    <2>5. QED
      BY <1>2, <1>3, <2>2, <2>4
  <1>6. QED
    BY <1>4, <1>5

LEMMA NextSettled == TypeInv /\ SettledInv /\ [Next]_vars => SettledInv'
  <1> SUFFICES ASSUME TypeInv, SettledInv, [Next]_vars PROVE SettledInv'
    OBVIOUS
  <1>1. CASE ~Settle
    <2>1. UNCHANGED <<assetRegistryRoot, assetRegistryCount, settledAssetRecordCommitment,
                      assetRegistryRecordBatch>>
      BY <1>1, InnerFrame DEF innerVars
    <2>2. RegistryCounted' /\ SettledHashes' /\ SettledTrees'
      BY <2>1 DEF SettledInv, RegistryCounted, SettledHashes, SettledTrees
    <2>3. ASSUME UNCHANGED canonicalRecord PROVE ActivatedRecordsSettled'
      BY <2>1, <2>3 DEF SettledInv, ActivatedRecordsSettled, CanonicalTokenRegistered
    <2>4. CASE ~Register
      BY <2>2, <2>3, <2>4, FacetFrame DEF facetVars, assetVars, SettledInv
    <2>5. ASSUME NEW token \in Tokens, assetStatusByToken[token] = "Pending",
                 Activate(assetRecordByToken[token]),
                 \/ SettledByReceipt(assetRecordByToken[token])
                 \/ \E sequence : SettledByBatch(assetRecordByToken[token], sequence)
          PROVE  ActivatedRecordsSettled'
      <3> DEFINE record == assetRecordByToken[token]
      <3>1. /\ record \in Records
            /\ canonicalRecord' = [canonicalRecord EXCEPT ![token] = record]
        BY <2>5, ActivateEffect
      <3>2. /\ record.registryIndex < Len(assetRegistryRoot)
            /\ assetRegistryRoot[record.registryIndex + 1] = record
        BY <2>5, <3>1, ActivationSettled
      <3> HIDE DEF record
      <3>3. /\ canonicalRecord'[token] = record
            /\ \A t \in Tokens : t # token => canonicalRecord'[t] = canonicalRecord[t]
        BY <3>1 DEF TypeInv, TypeOK, BridgeTypeOK
      <3>4. QED
        BY <2>1, <3>2, <3>3
        DEF SettledInv, ActivatedRecordsSettled, CanonicalTokenRegistered
    <2>6. CASE Register
      <3>1. \/ UNCHANGED canonicalRecord
            \/ \E token \in Tokens :
                   /\ assetStatusByToken[token] = "Pending"
                   /\ Activate(assetRecordByToken[token])
                   /\ \/ SettledByReceipt(assetRecordByToken[token])
                      \/ \E sequence : SettledByBatch(assetRecordByToken[token], sequence)
        BY <2>6 DEF Register, ProposeAsset, CancelLastPendingAsset, ActivateAsset,
                    ActivateAssetFromBatch, SetAssetStatus, SetAssetAllowedFromRegistry,
                    assetVars
      <3>2. QED
        BY <2>2, <2>3, <2>5, <3>1 DEF SettledInv
    <2>7. QED
      BY <2>4, <2>6
  <1>2. QED
    BY <1>1, SettleSettled

\* Custody is only ever bound to the record the L2 registry holds at that
\* record's index: no cancelled, replaced or merely counted proposal can be
\* activated in its place, by a V3 receipt or from a V4 batch.
THEOREM ActivationsCorrect == Spec => []ActivatedRecordsSettled
  <1>1. SettledInv => ActivatedRecordsSettled
    BY DEF SettledInv
  <1>2. QED
    BY <1>1, InitTypes, NextTypes, InitSettled, NextSettled, PTL DEF Spec
=============================================================================
