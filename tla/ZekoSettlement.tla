--------------------------- MODULE ZekoSettlement ---------------------------
(***************************************************************************)
(* contracts/src/ZekoSettlement.sol: the permissioned settlement contract. *)
(* It owns the outer state, the outer action log (as a hash-chain          *)
(* checkpoint and a length), the roots of the settled inner actions and    *)
(* the checkpoint of the asset registry.                                   *)
(*                                                                         *)
(* A mapping with a `valid' flag is a function whose DOMAIN holds the keys *)
(* with the flag set.  A checked uint32 addition that overflows reverts,   *)
(* which is a guard here.                                                  *)
(***************************************************************************)
EXTENDS ProofPrograms

CONSTANTS
    VkHashes,               \* Pickles verification-key identifiers
    InitialVkHash,
    Addresses,              \* addresses the admin may name as bridge
    NoAddress,              \* address(0) as bridgeContract, before it is set
    InitialLength,          \* initialOuterActionStateLength
    InitialInnerLength,     \* initialOuterState[4]
    MaxUint32,              \* largest uint32
    AssetRegistryCapacity,  \* ASSET_REGISTRY_CAPACITY (256 in the code)
    GenesisTimestamp, SlotDuration, ForkSlot

ASSUME SettlementAssumption ==
    /\ InitialVkHash \in VkHashes
    /\ NoAddress \notin Addresses
    /\ InitialLength \in Nat /\ InitialInnerLength \in Nat
    /\ MaxUint32 \in Nat /\ AssetRegistryCapacity \in Nat
    /\ InitialLength <= MaxUint32 /\ InitialInnerLength <= MaxUint32
    /\ AssetRegistryCapacity <= MaxUint32
    /\ GenesisTimestamp \in Nat /\ ForkSlot \in Nat
    /\ SlotDuration \in Nat \ {0}

VARIABLES
    vkHash,
    outerState,                 \* _outerState: ledger root, inner state, inner length
    actionState,                \* the outer action log, as a chain state
    outerActionStateLength,
    batchSequence,
    outerActionStateInfo,       \* checkpoint -> length
    acceptedInnerActionState,   \* inner state -> settlement that accepted it
    innerActionBatch,           \* sequence -> settled inner actions
    bridgeContract,             \* holder of BRIDGE_ROLE
    assetRegistryRoot,
    assetRegistryCount,
    settledAssetRecordCommitment,   \* record hash -> commitment (V3)
    assetRegistryRecordBatch,       \* sequence -> record batch (V4)
    timestamp                       \* block.timestamp

settlementVars ==
    <<vkHash, outerState, actionState, outerActionStateLength, batchSequence,
      outerActionStateInfo, acceptedInnerActionState,
      innerActionBatch, bridgeContract, assetRegistryRoot, assetRegistryCount,
      settledAssetRecordCommitment, assetRegistryRecordBatch>>

\* mapping[key] = value
Put(mapping, key, value) ==
    [k \in DOMAIN mapping \cup {key} |-> IF k = key THEN value ELSE mapping[k]]

InitialOuterState ==
    [ledger |-> InitialLength, innerActionState |-> << >>,
     innerActionLength |-> InitialInnerLength]

\* The state initialize leaves behind; `<< >>' is the genesis of both chains.
SettlementInit ==
    /\ timestamp = 0
    /\ vkHash = InitialVkHash
    /\ outerState = InitialOuterState
    /\ actionState = << >>
    /\ outerActionStateLength = InitialLength
    /\ batchSequence = 0
    /\ outerActionStateInfo = [s \in {<< >>} |-> InitialLength]
    /\ acceptedInnerActionState =
           [s \in {<< >>} |-> [settlementIndex |-> 0, acceptedAt |-> timestamp,
                               length |-> InitialInnerLength]]
    /\ innerActionBatch = [s \in {} |-> 0]
    /\ bridgeContract = NoAddress
    /\ assetRegistryRoot = << >>
    /\ assetRegistryCount = 0
    /\ settledAssetRecordCommitment = [s \in {} |-> 0]
    /\ assetRegistryRecordBatch = [s \in {} |-> 0]

VirtualSlotAt(time) ==
    IF time <= GenesisTimestamp
    THEN ForkSlot
    ELSE ForkSlot + ((time - GenesisTimestamp) \div SlotDuration)

CurrentVirtualSlot == VirtualSlotAt(timestamp)

-----------------------------------------------------------------------------
(* Administration.                                                         *)

SetVkHash(newVkHash) ==
    /\ vkHash' = newVkHash
    /\ UNCHANGED <<outerState, actionState, outerActionStateLength, batchSequence,
                   outerActionStateInfo, acceptedInnerActionState,
                   innerActionBatch, bridgeContract, assetRegistryRoot,
                   assetRegistryCount, settledAssetRecordCommitment,
                   assetRegistryRecordBatch, timestamp>>

\* The role moves from the old bridge to the new one.
SetBridgeContract(newBridge) ==
    /\ bridgeContract' = newBridge
    /\ UNCHANGED <<vkHash, outerState, actionState, outerActionStateLength,
                   batchSequence, outerActionStateInfo,
                   acceptedInnerActionState, innerActionBatch, assetRegistryRoot,
                   assetRegistryCount, settledAssetRecordCommitment,
                   assetRegistryRecordBatch, timestamp>>

-----------------------------------------------------------------------------
(* Outer witness actions, appended by the bridge.                          *)

KnownLengthAgrees(state, length) ==
    state \in DOMAIN outerActionStateInfo => outerActionStateInfo[state] = length

\* appendOuterWitnessBatch, called once for each action in `actions': the
\* caller's transaction reverts unless every call is accepted, so the calls
\* are one step that records every intermediate checkpoint.
AppendOuterWitnesses(stateBefore, actions, caller) ==
    LET n == Len(actions)
        states == {stateBefore \o SubSeq(actions, 1, i) : i \in 1..n}
        lengthOf(s) == outerActionStateLength + Len(s) - Len(stateBefore)
    IN  /\ caller = bridgeContract
        /\ stateBefore = actionState
        /\ n > 0
        /\ outerActionStateLength + n <= MaxUint32
        /\ \A s \in states : KnownLengthAgrees(s, lengthOf(s))
        /\ actionState' = stateBefore \o actions
        /\ outerActionStateLength' = outerActionStateLength + n
        /\ outerActionStateInfo' =
               [s \in DOMAIN outerActionStateInfo \cup states |->
                   IF s \in states THEN lengthOf(s) ELSE outerActionStateInfo[s]]
        /\ UNCHANGED <<vkHash, outerState, batchSequence, acceptedInnerActionState,
                       innerActionBatch, bridgeContract, assetRegistryRoot,
                       assetRegistryCount, settledAssetRecordCommitment,
                       assetRegistryRecordBatch, timestamp>>

-----------------------------------------------------------------------------
(* verifyAndUpdateRoot: the checks on a receipt, then one write per field. *)

\* Faults for the mutation runs: a check left out or weakened.
ReusableSequence(r) == r.batchSequence \in 1..(batchSequence + 1)
UncheckedReceipt(r) == TRUE
LateSettlement(r) == r.slotLower <= r.slotUpper /\ CurrentVirtualSlot >= r.slotLower

ExpectedSequence(r) == r.batchSequence = batchSequence + 1

SourceStateMatches(r) == r.stateBefore = outerState

SourceActionStateMatches(r) == r.outerActionStateBefore = actionState

SourceLengthMatches(r) ==
    /\ r.outerActionStateLengthBefore = outerActionStateLength
    /\ r.outerActionStateLengthAfter = r.outerActionStateLengthBefore + 1
    /\ r.outerActionStateLengthAfter <= MaxUint32

\* A settlement may only have consumed a prefix of the outer log that this
\* contract knows, with the length it has there.
SynchronizedCheckpointKnown(r) ==
    /\ r.synchronizedOuterActionStateLength <= r.outerActionStateLengthBefore
    /\ r.synchronizedOuterActionState \in DOMAIN outerActionStateInfo
    /\ outerActionStateInfo[r.synchronizedOuterActionState]
           = r.synchronizedOuterActionStateLength

InsideSlotRange(r) ==
    /\ r.slotLower <= r.slotUpper
    /\ CurrentVirtualSlot >= r.slotLower
    /\ CurrentVirtualSlot <= r.slotUpper

InnerActionBatchAccepted(r) ==
    /\ r.bridgeAddress = bridgeContract
    /\ r.stateAfter.innerActionLength >= r.stateBefore.innerActionLength
    /\ r.stateAfter.innerActionLength - r.stateBefore.innerActionLength
           = r.innerActionCount
    /\ r.innerActionStartIndex = r.stateBefore.innerActionLength

InnerActionBatch(r) ==
    [minaStateBefore |-> r.stateBefore.innerActionState,
     minaStateAfter |-> r.stateAfter.innerActionState,
     root |-> r.innerActionRoot,
     startIndex |-> r.innerActionStartIndex,
     count |-> r.innerActionCount,
     commitSlotUpper |-> r.slotUpper]

\* V3 settles exactly one registry record, V4 a non-empty batch.
AssetRegistryCountAdvances(r) ==
    /\ r.assetRegistryCount =
           assetRegistryCount + (IF r.version = 3 THEN 1 ELSE Len(r.assetRecords))
    /\ r.assetRegistryCount <= AssetRegistryCapacity

AssetRegistryRecordBatch(r) ==
    [registryCount |-> r.assetRegistryCount,
     recordBatchRoot |-> r.assetRecordBatchRoot]

VerifyAndUpdateRoot(r) ==
    /\ ExpectedSequence(r)
    /\ r.vkHash = vkHash
    /\ SourceStateMatches(r)
    /\ SourceActionStateMatches(r)
    /\ SourceLengthMatches(r)
    /\ SynchronizedCheckpointKnown(r)
    /\ InsideSlotRange(r)
    /\ r.stateAfter.innerActionLength <= MaxUint32
    /\ r.version >= 2 => InnerActionBatchAccepted(r)
    /\ r.version >= 3 => AssetRegistryCountAdvances(r)
    /\ outerState' = r.stateAfter
    /\ actionState' = r.outerActionStateAfter
    /\ outerActionStateLength' = r.outerActionStateLengthAfter
    /\ batchSequence' = r.batchSequence
    /\ outerActionStateInfo' =
           Put(outerActionStateInfo, r.outerActionStateAfter,
               r.outerActionStateLengthAfter)
    /\ acceptedInnerActionState' =
           Put(acceptedInnerActionState, r.stateAfter.innerActionState,
               [settlementIndex |-> r.batchSequence, acceptedAt |-> timestamp,
                length |-> r.stateAfter.innerActionLength])
    /\ innerActionBatch' =
           IF r.version >= 2
           THEN Put(innerActionBatch, r.batchSequence, InnerActionBatch(r))
           ELSE innerActionBatch
    /\ assetRegistryRoot' =
           IF r.version >= 3 THEN r.assetRegistryRoot ELSE assetRegistryRoot
    /\ assetRegistryCount' =
           IF r.version >= 3 THEN r.assetRegistryCount ELSE assetRegistryCount
    /\ settledAssetRecordCommitment' =
           IF r.version = 3
           THEN Put(settledAssetRecordCommitment, RecordHash(r.assetRecords[1]),
                    RecordCommitment(r.assetRecords[1]))
           ELSE settledAssetRecordCommitment
    /\ assetRegistryRecordBatch' =
           IF r.version = 4
           THEN Put(assetRegistryRecordBatch, r.batchSequence, AssetRegistryRecordBatch(r))
           ELSE assetRegistryRecordBatch
    /\ UNCHANGED <<vkHash, bridgeContract, timestamp>>
=============================================================================
