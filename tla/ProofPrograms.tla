--------------------------- MODULE ProofPrograms ---------------------------
(***************************************************************************)
(* The two SP1 guests, as pure functions from the host's witness to the    *)
(* public values they commit: program/bridge (deposits to outer Witness    *)
(* actions) and program/settlement (an OCaml commit to a receipt).         *)
(*                                                                         *)
(* Hash chains and Merkle trees are collision free, so a chain state IS    *)
(* the sequence it hashes and a root IS the sequence of its leaves.  Every *)
(* value a guest takes from the host without binding it (lengths, batch    *)
(* sequence, bridge address, deposit nonce) is a parameter here; it is the *)
(* contracts that have to bind it.                                         *)
(***************************************************************************)
EXTENDS Integers, Sequences

CONSTANTS
    Native,      \* address(0): native ETH
    Gwei,        \* wei per Zeko unit of native ETH (10^9 in the code)
    MaxUint64    \* largest amount of a Mina token

ASSUME GuestAssumption == Gwei \in Nat \ {0} /\ MaxUint64 \in Nat

-----------------------------------------------------------------------------
(* Deposits: program/bridge.                                               *)

\* Native deposits are converted from wei to Zeko's 9 decimals.  An ERC-20
\* keeps its base units.
ConvertibleAmount(token, amount) ==
    token = Native => amount % Gwei = 0

ZekoAmount(token, amount) ==
    IF token = Native THEN amount \div Gwei ELSE amount

EthereumAmount(token, zekoAmount) ==
    IF token = Native THEN zekoAmount * Gwei ELSE zekoAmount

\* The Keccak leaf of a deposit: the Zeko amount, bound to its nonce.
DepositLeaf(nonce, token, zekoAmount) ==
    [nonce |-> nonce, token |-> token, amount |-> zekoAmount]

\* The outer action of a deposit.  The code's action fields bind amount,
\* recipient and asset; the leaf names the deposit they come from.
Witness(leaf) == [kind |-> "witness", deposit |-> leaf]

\* derive_bridge_transition: `deposits' are in Ethereum units, as in the logs.
BridgeTransition(depositState, nonce, deposits, zekoState, zekoLength) ==
    LET n == Len(deposits)
        leaf(i) == DepositLeaf(nonce + i, deposits[i].token,
                               ZekoAmount(deposits[i].token, deposits[i].amount))
        actions == [i \in 1..n |-> Witness(leaf(i))]
    IN  [ethereumStateBefore |-> depositState,
         ethereumStateAfter  |-> depositState \o [i \in 1..n |-> leaf(i)],
         ethereumNonceBefore |-> nonce,
         ethereumNonceAfter  |-> nonce + n,
         zekoActionStateBefore |-> zekoState,
         zekoActionStateAfter  |-> zekoState \o actions,
         zekoActionStateLengthBefore |-> zekoLength,
         zekoActionStateLengthAfter  |-> zekoLength + n,
         depositCount |-> n]

\* The guest's assertions on its input.
BridgeInputAccepted(deposits) ==
    /\ deposits # << >>
    /\ \A i \in 1..Len(deposits) :
           /\ deposits[i].amount > 0
           /\ ConvertibleAmount(deposits[i].token, deposits[i].amount)
           /\ ZekoAmount(deposits[i].token, deposits[i].amount) <= MaxUint64

-----------------------------------------------------------------------------
(* Receipts: program/settlement.                                           *)

\* The outer action of a settlement: the new outer state and how much of the
\* outer log the L2 ledger has consumed.
Commit(stateAfter, syncedLength) ==
    [kind |-> "commit", stateAfter |-> stateAfter, synced |-> syncedLength]

\* The account-update body replaces ledger root, inner action state and length.
OuterStateAfter(stateBefore, ledger, actions) ==
    [ledger |-> ledger,
     innerActionState |-> stateBefore.innerActionState \o actions,
     innerActionLength |-> stateBefore.innerActionLength + Len(actions)]

\* Leaves bind the bridge address, the global index and the exact action;
\* the root keeps them in their original order.
InnerActionLeaf(bridge, globalIndex, action) ==
    [bridge |-> bridge, index |-> globalIndex, action |-> action]

InnerActionRoot(bridge, startIndex, actions) ==
    [i \in 1..Len(actions) |->
        InnerActionLeaf(bridge, startIndex + i - 1, actions[i])]

\* Fault: the position is checked, the leaf is not.
MerklePositionOnly(root, offset, leaf) == offset + 1 \in DOMAIN root

\* _verifyInnerActionMerkleProof and compute_inner_action_root agree on the
\* position of a leaf.
MerkleIncludes(root, offset, leaf) ==
    offset + 1 \in DOMAIN root /\ root[offset + 1] = leaf

RecordHash(record) == [hashOf |-> record]
RecordCommitment(record) == [leafOf |-> record]

\* validate_registry_transition and validate_registry_batch: dense appends at
\* the old count, exactly one for V3, at least one for V4, none before.
RegistryAppendsAccepted(version, oldRegistry, appends) ==
    /\ Len(appends) = CASE version = 3 -> 1
                        [] version = 4 -> Len(appends)
                        [] OTHER -> 0
    /\ version = 4 => appends # << >>
    /\ \A i \in 1..Len(appends) :
           appends[i].registryIndex = Len(oldRegistry) + i - 1

\* The V4 tree keeps every record of the batch at its registry index.
AssetRecordBatchRoot(oldCount, appends) ==
    [i \in oldCount .. (oldCount + Len(appends) - 1) |->
        <<RecordHash(appends[i - oldCount + 1]),
          RecordCommitment(appends[i - oldCount + 1])>>]

\* derive_receipt_bytes.  `body' is what the Pickles proof binds: the source
\* outer state and action state, the L2 ledger, the inner actions, the
\* synchronized outer state and length, the slot range.  `host' is what the
\* host adds: format version, batch sequence, outer length, bridge address.
Receipt(body, host, vk, oldRegistry, appends) ==
    LET after == OuterStateAfter(body.stateBefore, body.ledger, body.actions)
        start == body.stateBefore.innerActionLength
        root == oldRegistry \o appends
    IN  [version |-> host.version,
         batchSequence |-> host.batchSequence,
         vkHash |-> vk,
         stateBefore |-> body.stateBefore,
         stateAfter |-> after,
         outerActionStateBefore |-> body.outerActionState,
         outerActionStateAfter |->
             Append(body.outerActionState, Commit(after, body.synchronizedLength)),
         outerActionStateLengthBefore |-> host.outerLength,
         outerActionStateLengthAfter |-> host.outerLength + 1,
         synchronizedOuterActionState |-> body.synchronized,
         synchronizedOuterActionStateLength |-> body.synchronizedLength,
         slotLower |-> body.slotLower,
         slotUpper |-> body.slotUpper,
         bridgeAddress |-> host.bridge,
         innerActionRoot |-> InnerActionRoot(host.bridge, start, body.actions),
         innerActionStartIndex |-> start,
         innerActionCount |-> Len(body.actions),
         assetRegistryRoot |-> root,
         assetRegistryCount |-> Len(root),
         assetRecords |-> appends,
         assetRecordBatchRoot |-> AssetRecordBatchRoot(Len(oldRegistry), appends)]
=============================================================================
