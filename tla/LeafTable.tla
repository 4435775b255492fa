----------------------------- MODULE LeafTable ------------------------------
(***************************************************************************)
(* gateway_inner_action_leaves: the settled inner actions that withdrawal  *)
(* proofs are made from, written when a known settlement is applied        *)
(* (api/src/indexer.rs) and otherwise recovered from the Zeko archive      *)
(* (api/src/withdrawal_activity.rs), and the proofs served from them       *)
(* (api/src/main.rs).  A root stands for the range of actions it commits   *)
(* to: inner actions are numbered, and number i is one action for good.    *)
(***************************************************************************)
EXTENDS DepositTable

VARIABLES
    leaves,     \* rows by <<settlement sequence, offset>>
    archived,   \* inner actions the archive has
    recovery    \* what the recovery loop has read and not yet written

leafVars == <<leaves, archived, recovery>>

Sequence(tx) == Len(Commits(tx.base)) + 1

\* Fault: the count is taken for the last offset.
RootShort(tx) == [start |-> tx.actions[1].start, count |-> tx.actions[1].count - 1]

Root(tx) == [start |-> tx.actions[1].start, count |-> tx.actions[1].count]

LeafRow(root, offset, n, id) ==
    [index |-> root.start + offset, root |-> root, n |-> n, id |-> id,
     removed |-> FALSE]

\* The leaves of the settlement tx, as read from block n, written over what
\* is there.
LeavesOf(tx, n, id) ==
    Upsert(leaves, {Sequence(tx)} \X (0..(Root(tx).count - 1)),
           LAMBDA key : LeafRow(Root(tx), key[2], n, id))

\* store_inner_action_leaves: a settlement whose job carried its batch.
LeavesApplied(tx, n, id) ==
    IF /\ tx.kind = "settlement" /\ tx \notin DOMAIN history
       /\ tx \in DOMAIN jobs /\ ~jobs[tx].recovered
    THEN LeavesOf(tx, n, id) ELSE leaves

-----------------------------------------------------------------------------
(* The recovery loop.                                                      *)

HasLeaves(seq) == \E key \in Live(leaves) : key[1] = seq

\* Settlement rows with a batch, final or not, whose sequence has no leaf.
Missing ==
    {tx \in Live(rows) :
        /\ tx.kind = "settlement" /\ rows[tx].batch
        /\ Root(tx).count > 0 /\ ~HasLeaves(Sequence(tx))}

\* Fault: the end of the range is taken to be inclusive.
CoveredInclusive(tx) == Root(tx).start + Root(tx).count < archived

\* The archive has all the actions of the batch.
Covered(tx) == Root(tx).start + Root(tx).count <= archived

\* The archive's actions and then the rows are read; batches the archive does
\* not cover yet are left for the next round.
ReadMissing ==
    /\ recovery = {}
    /\ recovery' = {[tx |-> tx, n |-> rows[tx].n, id |-> rows[tx].id] :
         tx \in {t \in Missing : Covered(t)}}
    /\ recovery' # {}
    /\ UNCHANGED <<leaves, archived>>

\* recover_batch, after it has asked Ethereum for the token identities: the
\* root is the one in the row that was read.
WriteMissing ==
    \E found \in recovery :
        /\ \A other \in recovery : Sequence(found.tx) <= Sequence(other.tx)
        /\ leaves' = LeavesOf(found.tx, found.n, found.id)
        /\ recovery' = recovery \ {found}
        /\ UNCHANGED archived

\* Fault: an RPC call fails and the round ends.
RecoveryFails ==
    /\ recovery # {}
    /\ recovery' = {}
    /\ UNCHANGED <<leaves, archived>>

ArchiveGrows ==
    /\ archived < MaxInner
    /\ archived' = archived + 1
    /\ UNCHANGED <<leaves, recovery>>

-----------------------------------------------------------------------------
(* load_inner_action_batch_proof and build_inner_action_batch_proof.       *)

LeavesAt(seq) == {key[2] : key \in {k \in Live(leaves) : k[1] = seq}}

Leaf(seq, offset) == leaves[<<seq, offset>>]

\* The rows are the whole of one committed batch.
Provable(seq) ==
    LET found == LeavesAt(seq) IN
    /\ found # {} /\ found = 0..(Cardinality(found) - 1)
    /\ \A offset \in found :
         /\ Leaf(seq, offset).root = Leaf(seq, 0).root
         /\ Leaf(seq, offset).index = Leaf(seq, 0).index + offset
    /\ Leaf(seq, 0).root = [start |-> Leaf(seq, 0).index,
                            count |-> Cardinality(found)]

\* pending_action_page: archived actions that are in no leaf.
Pending ==
    {index \in 0..(archived - 1) :
        \A key \in Live(leaves) : leaves[key].index # index}

LeafInit == leaves = << >> /\ archived = 0 /\ recovery = {}

=============================================================================
