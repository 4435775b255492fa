------------------------- MODULE ZekoAssetRegistry --------------------------
(***************************************************************************)
(* contracts/src/ZekoAssetRegistry.sol: the registry facet.  It runs in    *)
(* the bridge's storage (delegatecall from the bridge's fallback): assets  *)
(* are proposed at the next index, settled on L2, activated against what   *)
(* the settlement contract accepted, and then switched on and off.         *)
(*                                                                         *)
(* A record is its token, registry index, L2 identity (owner and token id) *)
(* and inventory cap; the asset id binds token and identity.  The checks   *)
(* that a field is not zero, and the schema version, which only ever is 1, *)
(* are left out.                                                           *)
(***************************************************************************)
EXTENDS EthereumZekoBridge

CONSTANTS
    Identities,     \* L2 token identities
    InventoryCaps   \* caps a record may have

Records ==
    [token : Tokens, registryIndex : 0..(AssetRegistryCapacity - 1),
     identity : Identities, inventoryCap : InventoryCaps]

AssetStatus == {"None", "Pending", "Active", "Paused", "Disallowed"}

VARIABLES
    assetRecordByToken,
    assetTokenByRegistryIndex,  \* index -> token; absent is address(0)
    assetStatusByToken,
    proposedAssetRecord,        \* hashes of proposed records
    proposedAssetId,            \* asset ids of proposed records
    proposedL2TokenIdentity,
    proposedAssetCount

registryVars ==
    <<assetRecordByToken, assetTokenByRegistryIndex, assetStatusByToken,
      proposedAssetRecord, proposedAssetId, proposedL2TokenIdentity,
      proposedAssetCount>>

AssetId(record) == <<record.token, record.identity>>

RegistryInit ==
    /\ assetRecordByToken = [t \in Tokens |-> NoRecord]
    /\ assetTokenByRegistryIndex = [i \in {} |-> NoRecord]
    /\ assetStatusByToken = [t \in Tokens |-> "None"]
    /\ proposedAssetRecord = {}
    /\ proposedAssetId = {}
    /\ proposedL2TokenIdentity = {}
    /\ proposedAssetCount = 0

custodyUnchanged ==
    UNCHANGED <<depositVars, transitionVars, custodyVars, withdrawalVars,
                controlVars, settlementVars, timestamp>>

IdentityUnused(record) ==
    /\ RecordHash(record) \notin proposedAssetRecord
    /\ AssetId(record) \notin proposedAssetId
    /\ record.identity \notin proposedL2TokenIdentity

ProposeAsset(record) ==
    LET token == record.token IN
    /\ record.registryIndex = proposedAssetCount
    /\ record.registryIndex < AssetRegistryCapacity
    /\ ~CanonicalTokenRegistered(token)
    /\ assetStatusByToken[token] = "None"
    /\ ~allowedToken[token]
    /\ IdentityUnused(record)
    /\ assetRecordByToken' = [assetRecordByToken EXCEPT ![token] = record]
    /\ assetTokenByRegistryIndex' =
           Put(assetTokenByRegistryIndex, record.registryIndex, token)
    /\ assetStatusByToken' = [assetStatusByToken EXCEPT ![token] = "Pending"]
    /\ proposedAssetRecord' = proposedAssetRecord \cup {RecordHash(record)}
    /\ proposedAssetId' = proposedAssetId \cup {AssetId(record)}
    /\ proposedL2TokenIdentity' = proposedL2TokenIdentity \cup {record.identity}
    /\ proposedAssetCount' = record.registryIndex + 1
    /\ UNCHANGED assetVars
    /\ custodyUnchanged

\* Only the tail, and only while settlement has not reached its index.
NotSettled(record) ==
    /\ record.registryIndex >= assetRegistryCount
    /\ RecordHash(record) \notin DOMAIN settledAssetRecordCommitment

IsTail(record) ==
    /\ record.registryIndex + 1 = proposedAssetCount
    /\ record.registryIndex \in DOMAIN assetTokenByRegistryIndex
    /\ assetTokenByRegistryIndex[record.registryIndex] = record.token

CancelLastPendingAsset(token) ==
    LET record == assetRecordByToken[token] IN
    /\ assetStatusByToken[token] = "Pending"
    /\ IsTail(record)
    /\ NotSettled(record)
    /\ proposedAssetRecord' = proposedAssetRecord \ {RecordHash(record)}
    /\ proposedAssetId' = proposedAssetId \ {AssetId(record)}
    /\ proposedL2TokenIdentity' = proposedL2TokenIdentity \ {record.identity}
    /\ assetTokenByRegistryIndex' =
           [i \in DOMAIN assetTokenByRegistryIndex \ {record.registryIndex} |->
               assetTokenByRegistryIndex[i]]
    /\ assetStatusByToken' = [assetStatusByToken EXCEPT ![token] = "None"]
    /\ assetRecordByToken' = [assetRecordByToken EXCEPT ![token] = NoRecord]
    /\ proposedAssetCount' = record.registryIndex
    /\ UNCHANGED assetVars
    /\ custodyUnchanged

\* _activate: the registry's status and the bridge's custody state together.
Activate(record) ==
    /\ assetStatusByToken' = [assetStatusByToken EXCEPT ![record.token] = "Active"]
    /\ ActivateAssetRecordFromRegistry(record)
    /\ UNCHANGED <<assetRecordByToken, assetTokenByRegistryIndex,
                   proposedAssetRecord, proposedAssetId, proposedL2TokenIdentity,
                   proposedAssetCount>>
    /\ custodyUnchanged

SettledByReceipt(record) ==
    /\ RecordHash(record) \in DOMAIN settledAssetRecordCommitment
    /\ assetRegistryCount > record.registryIndex

ActivateAsset(token, expectedRegistryRoot) ==
    LET record == assetRecordByToken[token] IN
    /\ assetStatusByToken[token] = "Pending"
    /\ SettledByReceipt(record)
    /\ assetRegistryRoot = expectedRegistryRoot
    /\ Activate(record)

\* Fault: the batch reaches the index, but its leaf is not compared.
SettledByCountOnly(record, sequence) ==
    /\ sequence \in DOMAIN assetRegistryRecordBatch
    /\ record.registryIndex < assetRegistryRecordBatch[sequence].registryCount

\* The record, at its own index, must be a leaf of the batch `sequence' settled.
SettledByBatch(record, sequence) ==
    /\ sequence \in DOMAIN assetRegistryRecordBatch
    /\ record.registryIndex < assetRegistryRecordBatch[sequence].registryCount
    /\ LET root == assetRegistryRecordBatch[sequence].recordBatchRoot
       IN  /\ record.registryIndex \in DOMAIN root
           /\ root[record.registryIndex] = <<RecordHash(record), RecordCommitment(record)>>

ActivateAssetFromBatch(token, sequence) ==
    LET record == assetRecordByToken[token] IN
    /\ assetStatusByToken[token] = "Pending"
    /\ SettledByBatch(record, sequence)
    /\ Activate(record)

SetAssetStatus(token, newStatus) ==
    /\ assetStatusByToken[token] \notin {"None", "Pending"}
    /\ newStatus \notin {"None", "Pending"}
    /\ assetStatusByToken' = [assetStatusByToken EXCEPT ![token] = newStatus]
    /\ SetAssetAllowedFromRegistry(token, newStatus = "Active")
    /\ UNCHANGED <<assetRecordByToken, assetTokenByRegistryIndex,
                   proposedAssetRecord, proposedAssetId, proposedL2TokenIdentity,
                   proposedAssetCount>>
    /\ custodyUnchanged
=============================================================================
