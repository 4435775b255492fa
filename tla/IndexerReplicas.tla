-------------------------- MODULE IndexerReplicas ---------------------------
(***************************************************************************)
(* The indexer of every gateway replica on one database.  Only the proof   *)
(* worker is elected; main.rs starts an indexer in each process.  What one *)
(* of them read from Ethereum and from the tables, another may have rolled *)
(* back before it writes.  The steps here are those of api/src/indexer.rs  *)
(* cut at every database write, for the block rows and for one settlement  *)
(* job in finalized mode; the other tables are in GatewayTables, where one *)
(* indexer runs.                                                           *)
(***************************************************************************)
EXTENDS Integers, FiniteSetsExt, SequencesExt

CONSTANTS
    Deployments     \* the indexers that run, and bounds: blocks ever mined,
                    \* whose hashes are 1, 2, ..., and reorganizations

ASSUME ReplicasAssumption ==
    \A d \in Deployments : /\ IsFiniteSet(d.indexers)
                           /\ {d.maxBlocks, d.maxReorgs} \subseteq Nat

VARIABLES
    deployment, \* the one of them that this behaviour is about
    chain,      \* Ethereum: the canonical chain, block hashes by height
    made,       \* every block ever mined: its parent, and the outcome of the
                \* job's transaction in it
    final,      \* height of the consensus-finalized block
    reorgs,
    blocks,     \* gateway_blocks that are canonical: hashes by height
    marks,      \* the heights marked finalized
    job,        \* the row of proof_jobs
    ready,      \* gateway_config.recovery_ready
    tick        \* where each indexer is, and what it has read

chainVars == <<chain, made, final, reorgs>>
vars == <<deployment, chainVars, blocks, marks, job, ready, tick>>

Indexers == deployment.indexers
MaxBlocks == deployment.maxBlocks
MaxReorgs == deployment.maxReorgs

\* signed: prepared_transaction; hash: transaction_hash is not NULL.
Queued == [status |-> "queued", signed |-> FALSE, hash |-> FALSE, block |-> 0]

Idle == [at |-> "idle", head |-> 0, fin |-> 0, next |-> 0, id |-> 0,
         ancestor |-> 0, status |-> "none", block |-> 0]

At(i, phase) == tick[i].at = phase

Goto(i, phase) == tick' = [tick EXCEPT ![i].at = phase]

Highest == Max({0} \union DOMAIN blocks)

\* What the job's transaction did in the block at height n of the chain.
Outcome(n) == made[chain[n]].tx

-----------------------------------------------------------------------------
(* Ethereum (external), and the elected worker, which sends the same       *)
(* signed bytes whenever it finds the job claimable.                       *)

Mine ==
    \E tx \in {"none", "accepted", "reverted"} :
        /\ Len(made) < MaxBlocks
        /\ tx # "none" => /\ job.signed
                          /\ \A n \in DOMAIN chain : Outcome(n) = "none"
        /\ made' = Append(made, [parent |-> IF chain = << >> THEN 0
                                            ELSE Last(chain),
                                 tx |-> tx])
        /\ chain' = Append(chain, Len(made) + 1)
        /\ UNCHANGED <<final, reorgs, blocks, marks, job, ready, tick>>

Finalize ==
    /\ final < Len(chain)
    /\ final' = final + 1
    /\ UNCHANGED <<chain, made, reorgs, blocks, marks, job, ready, tick>>

Reorg ==
    /\ reorgs < MaxReorgs
    /\ \E n \in final..(Len(chain) - 1) : chain' = SubSeq(chain, 1, n)
    /\ reorgs' = reorgs + 1
    /\ UNCHANGED <<made, final, blocks, marks, job, ready, tick>>

Send ==
    /\ ready /\ job.status = "queued"
    /\ job' = [job EXCEPT !.status = "submitted", !.signed = TRUE, !.hash = TRUE]
    /\ UNCHANGED <<chainVars, blocks, marks, ready, tick>>

-----------------------------------------------------------------------------
(* index_blocks                                                            *)

Begin(i) ==
    /\ At(i, "idle") /\ chain # << >>
    /\ tick' = [tick EXCEPT ![i] = [Idle EXCEPT
                    !.at = "tip", !.head = Len(chain), !.fin = final]]
    /\ UNCHANGED <<chainVars, blocks, marks, job, ready>>

\* common_ancestor: the highest block at or below n that the two chains
\* share, or that the gateway has no row for.
CommonAncestor(n) ==
    CHOOSE k \in 0..n :
        /\ k = 0 \/ k \notin DOMAIN blocks \/ blocks[k] = chain[k]
        /\ \A m \in (k + 1)..n : m \in DOMAIN blocks /\ blocks[m] # chain[m]

\* No child block will reveal a reorganization at a head that did not move.
TipMoved(i) ==
    LET head == tick[i].head IN
    \/ Highest > head
    \/ Highest = head /\ blocks[head] # chain[head]

\* After a rollback the loop starts at the highest block that is left.
CheckTip(i) ==
    /\ At(i, "tip") /\ tick[i].head \in DOMAIN chain
    /\ tick' = [tick EXCEPT ![i] =
         IF TipMoved(i)
         THEN [@ EXCEPT !.at = "rollback", !.next = 0,
                        !.ancestor = CommonAncestor(tick[i].head)]
         ELSE [@ EXCEPT !.at = "fetch", !.next = Highest + 1]]
    /\ UNCHANGED <<chainVars, blocks, marks, job, ready>>

\* Fault: the parent's row is not compared.
FetchAnyBlock(i) ==
    LET n == tick[i].next IN
    /\ At(i, "fetch") /\ n <= tick[i].head /\ n \in DOMAIN chain
    /\ tick' = [tick EXCEPT ![i].at = "insert", ![i].id = chain[n]]
    /\ UNCHANGED <<chainVars, blocks, marks, job, ready>>

\* ethereum.block and ensure_parent: the parent's row, if there is one, must
\* be the block's parent.
FetchBlock(i) ==
    LET n == tick[i].next IN
    /\ At(i, "fetch") /\ n <= tick[i].head /\ n \in DOMAIN chain
    /\ tick' = [tick EXCEPT ![i] =
         IF n - 1 \in DOMAIN blocks /\ blocks[n - 1] # made[chain[n]].parent
         THEN [@ EXCEPT !.at = "rollback", !.id = chain[n],
                        !.ancestor = CommonAncestor(n - 1)]
         ELSE [@ EXCEPT !.at = "insert", !.id = chain[n]]]
    /\ UNCHANGED <<chainVars, blocks, marks, job, ready>>

\* rollback_after on the job: its transaction is to be sent again.
Requeued(n) ==
    IF job.status \in {"submitted", "confirmed"} /\ job.block > n
    THEN [job EXCEPT !.status = "queued", !.hash = FALSE, !.block = 0]
    ELSE job

CanonicalRows(n) == [k \in {k \in DOMAIN blocks : k <= n} |-> blocks[k]]

\* rollback_canonical_chain.  In ensure_parent the block is then inserted
\* when it is the ancestor's child; otherwise the tick ends with an error.
RollBack(i) ==
    LET n == tick[i].ancestor
        next == tick[i].next IN
    /\ At(i, "rollback")
    /\ \A k \in marks : k <= n      \* a conflict with it fails closed
    /\ blocks' = CanonicalRows(n)
    /\ job' = Requeued(n)
    /\ ready' = FALSE
    /\ tick' = [tick EXCEPT ![i] =
         IF next = 0 THEN [@ EXCEPT !.at = "latest"]
         ELSE IF next = n + 1 THEN [@ EXCEPT !.at = "insert"]
         ELSE Idle]
    /\ UNCHANGED <<chainVars, marks>>

ReadLatest(i) ==
    /\ At(i, "latest")
    /\ tick' = [tick EXCEPT ![i].at = "fetch", ![i].next = Highest + 1]
    /\ UNCHANGED <<chainVars, blocks, marks, job, ready>>

\* index_bridge_deposits: the logs were read by the block's hash; the row
\* and its deposits are written whatever the table holds by now.
InsertBlock(i) ==
    LET n == tick[i].next IN
    /\ At(i, "insert")
    /\ blocks' = [k \in DOMAIN blocks \union {n} |->
                    IF k = n THEN tick[i].id ELSE blocks[k]]
    /\ marks' = marks \ {n}
    /\ tick' = [tick EXCEPT ![i].at = "fetch", ![i].next = n + 1]
    /\ UNCHANGED <<chainVars, job, ready>>

\* The checks between indexing the blocks and advancing finality; the final
\* block is compared where the table has a row for it.
HeadHeld(i) ==
    LET head == tick[i].head
        fin == tick[i].fin IN
    /\ head \in DOMAIN chain /\ head \in DOMAIN blocks
    /\ blocks[head] = chain[head]
    /\ fin \in DOMAIN blocks => blocks[fin] = chain[fin]
    /\ \A k \in marks : k <= fin

FinishBlocks(i) ==
    /\ At(i, "fetch") /\ tick[i].next > tick[i].head
    /\ HeadHeld(i)
    /\ marks' = {k \in DOMAIN blocks : k <= tick[i].fin}
    /\ Goto(i, "recover")
    /\ UNCHANGED <<chainVars, blocks, job, ready>>

-----------------------------------------------------------------------------
(* recover_gateway_state and reconcile_jobs, on the job's row              *)

\* The heights whose block is canonical both here and on Ethereum and holds
\* the job's transaction.
Receipts == {n \in DOMAIN chain \intersect DOMAIN blocks :
               blocks[n] = chain[n] /\ Outcome(n) # "none"}

\* An accepted, final transaction confirms its job, which is found by its
\* hash or by its signed bytes.
Recover(i) ==
    LET accepted == {n \in Receipts : n \in marks /\ Outcome(n) = "accepted"} IN
    /\ At(i, "recover")
    /\ job' = IF accepted = {} THEN job
              ELSE [job EXCEPT !.status = "confirmed", !.hash = TRUE,
                               !.block = Max(accepted)]
    /\ Goto(i, "reconcile")
    /\ UNCHANGED <<chainVars, blocks, marks, ready>>

\* Fault: inclusion settles the outcome.
WhenIncluded(i, n) == n <= tick[i].head

TransactionIsFinalized(i, n) == n <= tick[i].fin

\* The job has a hash to ask for, and its outcome is not recorded for good.
Reconcilable ==
    /\ job.hash
    /\ \/ job.status = "submitted"
       \/ job.status = "confirmed" /\ job.block \notin marks

\* The row, the receipt and the canonical hash are read ...
ReadJob(i) ==
    /\ At(i, "reconcile") /\ Reconcilable
    /\ \E n \in Receipts :
         LET confirmed == TransactionIsFinalized(i, n) IN
         tick' = [tick EXCEPT ![i].at = "status", ![i].block = n,
            ![i].status = IF ~confirmed THEN "submitted"
                          ELSE IF Outcome(n) = "reverted"
                          THEN "ethereum_reverted" ELSE "confirmed"]
    /\ UNCHANGED <<chainVars, blocks, marks, job, ready>>

\* ... and the status written later: the WHERE clause names only the id.
WriteStatus(i) ==
    /\ At(i, "status")
    /\ job' = [job EXCEPT !.status = tick[i].status,
                          !.block = IF tick[i].status = "ethereum_reverted"
                                    THEN @ ELSE tick[i].block]
    /\ Goto(i, "end")
    /\ UNCHANGED <<chainVars, blocks, marks, ready>>

\* Nothing (more) to reconcile: work may be admitted and claimed again.
EndTick(i) ==
    /\ At(i, "reconcile") \/ At(i, "end")
    /\ At(i, "reconcile") => ~Reconcilable \/ Receipts = {}
    /\ ready' = TRUE
    /\ tick' = [tick EXCEPT ![i] = Idle]
    /\ UNCHANGED <<chainVars, blocks, marks, job>>

\* A failed RPC call or check, or a crash of the replica.
TickFails(i) ==
    /\ ~At(i, "idle")
    /\ tick' = [tick EXCEPT ![i] = Idle]
    /\ UNCHANGED <<chainVars, blocks, marks, job, ready>>

-----------------------------------------------------------------------------
Init ==
    /\ deployment \in Deployments
    /\ chain = << >> /\ made = << >> /\ final = 0 /\ reorgs = 0
    /\ blocks = << >> /\ marks = {} /\ job = Queued /\ ready = FALSE
    /\ tick = [i \in Indexers |-> Idle]

Replica(i) ==
    \/ Begin(i) \/ CheckTip(i) \/ FetchBlock(i) \/ RollBack(i) \/ ReadLatest(i)
    \/ InsertBlock(i) \/ FinishBlocks(i) \/ Recover(i) \/ ReadJob(i)
    \/ WriteStatus(i) \/ EndTick(i) \/ TickFails(i)

Next ==
    /\ \/ Mine \/ Finalize \/ Reorg \/ Send
       \/ \E i \in Indexers : Replica(i)
    /\ UNCHANGED deployment

Spec == Init /\ [][Next]_vars

-----------------------------------------------------------------------------
\* Rows name blocks that were mined; only canonical rows are marked final.
TypeOK ==
    /\ deployment \in Deployments
    /\ DOMAIN blocks \subseteq 1..MaxBlocks
    /\ \A n \in DOMAIN blocks : blocks[n] \in 1..Len(made)
    /\ marks \subseteq DOMAIN blocks
    /\ job.status \in {"queued", "submitted", "confirmed", "ethereum_reverted"}
    /\ job.block \in 0..MaxBlocks
    /\ ready \in BOOLEAN
    /\ \A i \in Indexers : tick[i].next \in 0..(MaxBlocks + 1)

\* However the replicas interleave, a job is recorded as confirmed or as
\* reverted only on that outcome in a consensus-final block
\* (transaction_is_finalized).
OutcomesAreFinal ==
    /\ job.status = "confirmed" => \E n \in 1..final : Outcome(n) = "accepted"
    /\ job.status = "ethereum_reverted" =>
         \E n \in 1..final : Outcome(n) = "reverted"

\* The two that follow hold of one indexer, and of no more than one: the
\* README describes how another one breaks them.
Alone == Cardinality(Indexers) = 1

\* docs/content/architecture.md:74-76: after a reorganization the indexer
\* "requeues the existing paid proof request".  A job is claimable, or
\* reconcile_jobs follows it by its hash; submitted without a hash it is
\* neither, and keeps the outer writer.
JobIsFollowed == Alone /\ job.status \in {"submitted", "confirmed"} => job.hash

\* index_bridge_deposits (api/src/indexer.rs:547-549): the block row "is the
\* next tick's cursor, so persist it atomically with every deposit"; a failed
\* read "must not skip this block".  Every block up to the height marked
\* final is indexed, with its deposits, and is the chain's.
FinalBlocksTrue ==
    Alone => \A m \in marks : \A n \in 1..m :
               n \in DOMAIN blocks /\ blocks[n] = chain[n]

\* One indexer loses neither its job nor a final block, at whatever step of a
\* tick a call fails or the chain is reorganized.
NothingIsLost == JobIsFollowed /\ FinalBlocksTrue

=============================================================================
