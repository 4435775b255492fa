--------------------------- MODULE InnerActionTree --------------------------
(***************************************************************************)
(* The Keccak tree over a settlement's inner actions (inner_action_commit- *)
(* ment in lib/src/lib.rs): the guest commits to it, the gateway makes     *)
(* proofs from its rows (api/src/main.rs), and the bridge contract checks  *)
(* them.  The other modules say that a proof shows the leaf at a position  *)
(* (ProofPrograms!MerkleIncludes); this one is the algorithm.  Keccak is   *)
(* free of collisions: a digest is the tuple that was hashed.              *)
(***************************************************************************)
EXTENDS Integers, Sequences, SequencesExt, FiniteSets

CONSTANTS
    Depth,          \* TREE_DEPTH
    Recipients,
    Tokens,
    Start,          \* global index of the batch's first action
    MaxBatch,       \* actions in the accepted batch
    MaxOld          \* actions in the batch that a reorganization replaced

MaxLeaves == 2^Depth

ASSUME TreeAssumption ==
    Depth \in Nat \ {0} /\ Start \in Nat /\ MaxBatch \in 0..MaxLeaves /\ MaxOld \in Nat

VARIABLES
    actions,    \* the batch's actions
    root,       \* what the settlement contract accepted, or << >>
    rows        \* gateway_inner_action_leaves of this sequence, by offset

treeVars == <<actions, root, rows>>

\* A withdrawal of the native asset or of a token, or any other action.
Native(recipient) == [kind |-> "native", token |-> "none", to |-> recipient]
Token(token, recipient) == [kind |-> "token", token |-> token, to |-> recipient]
Raw == [kind |-> "raw", token |-> "none", to |-> "none"]

Actions ==
    {Native(r) : r \in Recipients} \union {Raw}
    \union {Token(t, r) : t \in Tokens, r \in Recipients}

-----------------------------------------------------------------------------
(* lib.rs.                                                                 *)

Chain == "chain"
Bridge == "bridge"
Amount == "amount"
ZeroHash == << >>

\* The words that are hashed, with the domain first.  A registered token's
\* index, commitment and asset identifier are functions of the token.
NativeLeaf(index, to, fields) ==
    <<"ZEKO_NATIVE_WITHDRAWAL_LEAF_V2", Chain, Bridge, index, to, Amount, fields>>

TokenLeaf(index, token, to, fields) ==
    <<"ZEKO_ERC20_WITHDRAWAL_LEAF_V4", Chain, Bridge, index, token, "encoding",
      <<"registryIndex", token>>, <<"commitment", token>>, <<"assetId", token>>,
      to, Amount, fields>>

RawLeaf(index, fields) ==
    <<"ZEKO_RAW_INNER_ACTION_LEAF_V2", Chain, Bridge, index, fields>>

Node(left, right) == <<"ZEKO_INNER_ACTION_NODE_V2", left, right>>

\* action_fields_hash
FieldsHash(action) == <<"ZEKO_INNER_ACTION_FIELDS_V2", action>>

\* Fault: a token's withdrawal is committed as if it were native.
LeafOfNative(index, action) ==
    IF action.kind = "raw" THEN RawLeaf(index, FieldsHash(action))
    ELSE NativeLeaf(index, action.to, FieldsHash(action))

\* The leaf that the guest, the indexer and the archive's recovery commit to.
LeafOf(index, action) ==
    CASE action.kind = "native" -> NativeLeaf(index, action.to, FieldsHash(action))
      [] action.kind = "token" ->
           TokenLeaf(index, action.token, action.to, FieldsHash(action))
      [] OTHER -> RawLeaf(index, FieldsHash(action))

Leaves(batch) == [i \in DOMAIN batch |-> LeafOf(Start + i - 1, batch[i])]

ZeroHashes ==
    LET zero[level \in 0..Depth] ==
          IF level = 0 THEN ZeroHash ELSE Node(zero[level - 1], zero[level - 1])
    IN zero

\* chunks(2), the last one completed with the level's zero hash.
Above(nodes, level) ==
    [i \in 1..((Len(nodes) + 1) \div 2) |->
        Node(nodes[2 * i - 1],
             IF 2 * i <= Len(nodes) THEN nodes[2 * i] ELSE ZeroHashes[level])]

Levels(leaves) ==
    LET nodes[level \in 0..Depth] ==
          IF level = 0 THEN leaves ELSE Above(nodes[level - 1], level - 1)
    IN nodes

Root(leaves) ==
    IF leaves = << >> THEN ZeroHashes[Depth] ELSE Levels(leaves)[Depth][1]

\* index ^ 1
Sibling(index) == IF index % 2 = 0 THEN index + 1 ELSE index - 1

\* Fault: the path is not halved on the way up.
MerkleProofFlat(leaves, target) ==
    [level \in 0..(Depth - 1) |->
        LET nodes == Levels(leaves)[level] IN
        IF Sibling(target) < Len(nodes) THEN nodes[Sibling(target) + 1]
        ELSE ZeroHashes[level]]

MerkleProof(leaves, target) ==
    [level \in 0..(Depth - 1) |->
        LET nodes == Levels(leaves)[level]
            sibling == Sibling(target \div 2^level) IN
        IF sibling < Len(nodes) THEN nodes[sibling + 1] ELSE ZeroHashes[level]]

\* The hash that leaf and siblings lead to.
Computed(leaf, index, siblings) ==
    LET at[level \in 0..Depth] ==
          IF level = 0 THEN leaf
          ELSE IF (index \div 2^(level - 1)) % 2 = 0
               THEN Node(at[level - 1], siblings[level - 1])
               ELSE Node(siblings[level - 1], at[level - 1])
    IN at[Depth]

VerifyMerkleProof(leaf, index, siblings, expected) ==
    index < MaxLeaves /\ Computed(leaf, index, siblings) = expected

-----------------------------------------------------------------------------
(* The settlement and the gateway's rows.                                  *)

Row(batch, offset, accepted) ==
    [index |-> Start + offset, action |-> batch[offset + 1], root |-> accepted,
     leaf |-> LeafOf(Start + offset, batch[offset + 1])]

RowsOf(batch) ==
    [offset \in 0..(Len(batch) - 1) |-> Row(batch, offset, Root(Leaves(batch)))]

AppendAction ==
    /\ root = << >> /\ Len(actions) < MaxBatch
    /\ \E action \in Actions : actions' = Append(actions, action)
    /\ UNCHANGED <<root, rows>>

\* The batch is accepted and its rows are written, by offset, over those of a
\* batch that had the sequence before and that may be longer.
Settle ==
    /\ root = << >>
    /\ root' = Root(Leaves(actions))
    /\ \E old \in BoundedSeq(Actions, MaxOld) :
         rows' = [offset \in DOMAIN RowsOf(actions) \union DOMAIN RowsOf(old) |->
                    IF offset \in DOMAIN RowsOf(actions)
                    THEN RowsOf(actions)[offset] ELSE RowsOf(old)[offset]]
    /\ UNCHANGED actions

\* build_inner_action_batch_proof: contiguous rows of one root, and a proof
\* that leads to it; an empty set where the gateway answers with an error.
\* The rows' offsets and indices are contiguous already.
ProofFor(offset) ==
    LET leaves == [i \in 1..Cardinality(DOMAIN rows) |-> rows[i - 1].leaf]
        siblings == MerkleProof(leaves, offset) IN
    IF /\ offset \in DOMAIN rows
       /\ Cardinality(DOMAIN rows) <= MaxLeaves
       /\ \A o \in DOMAIN rows :
            rows[o].root = rows[0].root /\ rows[o].index = rows[0].index + o
       /\ VerifyMerkleProof(rows[offset].leaf, offset, siblings, rows[0].root)
    THEN {siblings} ELSE {}

-----------------------------------------------------------------------------
(* EthereumZekoBridge.sol: the leaf is computed from the call's arguments  *)
(* and the batch's start, and _verifyInnerActionMerkleProof checks it.     *)

ContractLeaf(index, claim) ==
    IF claim.kind = "native" THEN NativeLeaf(index, claim.to, FieldsHash(claim.of))
    ELSE TokenLeaf(index, claim.token, claim.to, FieldsHash(claim.of))

ClaimAccepted(claim, offset, siblings) ==
    /\ root # << >> /\ offset < Len(actions)
    /\ Computed(ContractLeaf(Start + offset, claim), offset, siblings) = root

TreeInit == actions = << >> /\ root = << >> /\ rows = << >>

TreeNext == AppendAction \/ Settle

TreeSpec == TreeInit /\ [][TreeNext]_treeVars

-----------------------------------------------------------------------------
(* Properties.                                                             *)

\* The perfect tree over 2^Depth leaves, the unused ones zero: node `position'
\* of each height.
Perfect(leaves) ==
    LET node[height \in 0..Depth] ==
          [position \in 0..(2^(Depth - height) - 1) |->
             IF height > 0
             THEN Node(node[height - 1][2 * position], node[height - 1][2 * position + 1])
             ELSE IF position < Len(leaves) THEN leaves[position + 1] ELSE ZeroHash]
    IN node

\* root() hashes only the nodes that are there and completes each level with a
\* precomputed hash; the result is the root of the whole tree.
RootIsPerfect == Root(Leaves(actions)) = Perfect(Leaves(actions))[Depth][0]

\* What a claimant may call the contract with.
Claims ==
    [kind : {"native"}, token : {"none"}, to : Recipients \union {"other"}, of : Actions]
    \union
    [kind : {"token"}, token : Tokens, to : Recipients \union {"other"}, of : Actions]

\* Every digest there is in the accepted tree, to be used as a sibling.
Digests ==
    UNION {{Perfect(Leaves(actions))[h][p] : p \in 0..(2^(Depth - h) - 1)} :
             h \in 0..(Depth - 1)}

\* A claim that the bridge accepts, with whatever siblings and at whatever
\* offset, is the withdrawal that the accepted batch has at that offset.
OnlyCommittedClaims ==
    root # << >> /\ DOMAIN rows = 0..(Len(actions) - 1) =>
      \A claim \in Claims, offset \in 0..MaxLeaves :
        (\E siblings \in [0..(Depth - 1) -> Digests] :
             ClaimAccepted(claim, offset, siblings))
        => /\ offset < Len(actions)
           /\ actions[offset + 1] = claim.of
           /\ claim.of = [kind |-> claim.kind, token |-> claim.token, to |-> claim.to]

\* Whatever rows an earlier batch has left behind them, once the rows of the
\* accepted batch are written the proof that the gateway serves for a
\* withdrawal is one the bridge accepts.
ServedProofIsAccepted ==
    actions # << >> => \A offset \in DOMAIN rows : \A siblings \in ProofFor(offset) :
        LET a == rows[offset].action IN
        a.kind # "raw" =>
          ClaimAccepted([kind |-> a.kind, token |-> a.token, to |-> a.to, of |-> a],
                        offset, siblings)

\* When the rows are those of the accepted batch, each of its actions has a
\* proof: no withdrawal is left without one because of where it stands.
EveryActionIsProvable ==
    root # << >> /\ DOMAIN rows = 0..(Len(actions) - 1) =>
        \A offset \in DOMAIN rows : ProofFor(offset) # {}

\* The guest's root, the gateway's proofs and the bridge's check fit together,
\* at every size of the batch and over whatever rows there were before.
ProofsAgree == RootIsPerfect /\ ServedProofIsAccepted /\ EveryActionIsProvable

=============================================================================
