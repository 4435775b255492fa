--------------------------- MODULE GatewayIndexer ---------------------------
(***************************************************************************)
(* The gateway's Ethereum indexer (api/src/indexer.rs) in finalized mode:  *)
(* it follows the canonical chain, rolls its tables back when the chain    *)
(* reorganizes, applies finalized receipts to the virtual outer account    *)
(* and settles the outcome of submitted jobs.  One tick runs index_blocks, *)
(* recover_gateway_state and reconcile_jobs in that order; applying a      *)
(* receipt and recording the job's status are two transactions.            *)
(***************************************************************************)
EXTENDS ProofWorker, SequencesExt

VARIABLES
    indexed,        \* gateway_blocks: the canonical blocks
    indexedFinal,   \* the highest one marked finalized
    history,        \* gateway_account_history: rows [job, before, block]
    indexer         \* where the tick is, and the status it is about to write

indexerVars == <<indexed, indexedFinal, history, indexer>>

\* row is the last job the tick has reconciled: it looks at each job once.
Tick(pc, row) == [pc |-> pc, row |-> row, job |-> 0, status |-> "none",
                  block |-> 0, hash |-> 0]

Prefix(blocks, n) == SubSeq(blocks, 1, n)

\* common_ancestor: the height up to which the indexed blocks are canonical.
CommonAncestor ==
    Max({n \in 0..Len(indexed) :
           n <= Len(chain) /\ Prefix(indexed, n) = Prefix(chain, n)})

Applied(j) == \E h \in history : h.job = j

-----------------------------------------------------------------------------
(* index_blocks                                                            *)

\* Jobs whose recorded block is above the ancestor and not settled otherwise.
Orphaned(n) == {j \in DOMAIN jobs : /\ jobs[j].block > n
                                    /\ jobs[j].status \in {"submitted", "confirmed"}}

\* The earliest orphaned settlement is the only one that can be replayed.
RetrySettlement(n) ==
    LET settlements == {j \in Orphaned(n) : jobs[j].kind = "settlement"} IN
    {j \in settlements :
       \A k \in settlements \ {j} :
          \/ jobs[j].block < jobs[k].block
          \/ jobs[j].block = jobs[k].block /\ j < k}

Requeued(job) ==
    [job EXCEPT !.status = IF job.approved THEN "approved" ELSE "queued",
                !.hash = 0, !.block = 0]

RolledBack(j, n) ==
    LET job == jobs[j]
        retry == RetrySettlement(n) IN
    IF /\ retry # {} /\ job.kind = "settlement" /\ j \notin retry
       /\ job.status \in Active \union {"queued", "confirmed"}
    THEN [job EXCEPT !.status = "reorged"]
    ELSE IF j \in Orphaned(n) /\ (job.kind # "settlement" \/ j \in retry)
    THEN Requeued(job)
    ELSE job

\* rollback_after: undo what the orphaned blocks did, newest first.
AccountAt(n) ==
    LET undone == {h \in history : h.block > n} IN
    IF undone = {} THEN account
    ELSE (CHOOSE h \in undone : \A g \in undone : h.block <= g.block).before

Rollback ==
    LET n == CommonAncestor IN
    /\ indexer.pc = "start"
    /\ n < Len(indexed)
    /\ indexedFinal <= n        \* a reorg below it fails closed
    /\ jobs' = [j \in DOMAIN jobs |-> RolledBack(j, n)]
    /\ account' = AccountAt(n)
    /\ history' = {h \in history : h.block <= n}
    /\ indexed' = Prefix(indexed, n)
    /\ pending' = {j \in pending : ~(/\ jobs'[j].status = "reorged"
                                     /\ jobs'[j].hash = 0
                                     /\ jobs'[j].prepared = 0)}
                  \union RetrySettlement(n)
    /\ recoveryReady' = FALSE
    /\ UNCHANGED <<chainVars, writer, token, workerVars, indexedFinal, indexer>>

IndexedThrough(head) == Prefix(chain, head)

\* Index up to the head and mark the consensus-finalized blocks.
IndexBlocks ==
    /\ indexer.pc = "start"
    /\ CommonAncestor = Len(indexed)
    /\ indexed' = IndexedThrough(Len(chain))
    /\ indexedFinal' = final
    /\ indexer' = Tick("tick", 0)
    /\ UNCHANGED <<chainVars, writerVars, workerVars, history>>

-----------------------------------------------------------------------------
(* apply_confirmed_settlement, apply_confirmed_bridge                      *)

Settlements(state) ==
    Len(SelectSeq(state, LAMBDA b : jobs[b.tx[1]].kind = "settlement"))

\* A bridge receipt must start from the account's action state; a settlement
\* receipt replaces the account, guarded by the fee payer's nonce, which
\* counts the settlements applied.
Applicable(j) ==
    IF jobs[j].kind = "bridge" THEN jobs[j].base = account
    ELSE Settlements(jobs[j].base) = Settlements(account)

\* Apply the receipt in block p unless this job's snapshot says it was done.
Apply(j, p) ==
    IF Applied(j)
    THEN UNCHANGED <<account, history, pending>>
    ELSE /\ Applicable(j)
         /\ account' = Append(jobs[j].base, indexed[p])
         /\ history' = history \union {[job |-> j, before |-> account,
                                        block |-> p]}
         /\ pending' = pending \ {j}

-----------------------------------------------------------------------------
(* recover_gateway_state                                                   *)

\* The transaction's job is confirmed under its hash and applied.
Recovered(tx) ==
    LET job == jobs[tx[1]] IN
    job.hash = tx[2] /\ job.status = "confirmed" /\ Applied(tx[1])

\* Fault: accepted events are replayed before they are final.
UnrecoveredAtHead ==
    {p \in DOMAIN indexed :
       /\ indexed[p].ok
       /\ ~Recovered(indexed[p].tx)}

\* Finalized accepted events whose job is not confirmed and applied yet.
Unrecovered ==
    {p \in 1..indexedFinal :
       /\ indexed[p].ok
       /\ ~Recovered(indexed[p].tx)}

\* They are replayed in canonical order, before any job is reconciled.
RecoverGatewayState ==
    /\ indexer.pc = "tick" /\ Unrecovered # {}
    /\ LET p == Min(Unrecovered)
           tx == indexed[p].tx IN
       /\ Apply(tx[1], p)
       /\ indexer' = [pc |-> "recovered", row |-> 0, job |-> tx[1],
                      status |-> "confirmed", block |-> p, hash |-> tx[2]]
    /\ UNCHANGED <<chainVars, jobs, writer, token, recoveryReady, workerVars,
                   indexed, indexedFinal>>

-----------------------------------------------------------------------------
(* reconcile_jobs                                                          *)

\* The block of the job's transaction, if its receipt is in a canonical one.
Receipts(j) ==
    {p \in 1..CommonAncestor : chain[p].tx = <<j, jobs[j].hash>>}

Reconcilable(j) ==
    /\ jobs[j].hash # 0
    /\ jobs[j].status \in {"submitted", "confirmed", "reorged"}
    /\ ~(jobs[j].status = "confirmed" /\ jobs[j].block \in 1..indexedFinal
         /\ Applied(j))

\* Fault: inclusion in any indexed block settles the outcome.
AfterOneConfirmation(p) == p <= Len(indexed)

TransactionIsFinalized(p) == p <= indexedFinal

ReconcileJob(j) ==
    /\ indexer.pc = "tick" /\ Unrecovered = {} /\ indexer.row < j
    /\ Reconcilable(j)
    /\ \E p \in Receipts(j) :
         LET confirmed == TransactionIsFinalized(p)
             ok == chain[p].ok IN
         /\ jobs[j].status = "reorged" => confirmed /\ ~ok
         /\ IF confirmed /\ ~ok
            THEN /\ jobs' = [jobs EXCEPT ![j].status = "ethereum_reverted"]
                 /\ pending' = pending \ {j}
                 /\ indexer' = Tick("tick", j)
                 /\ UNCHANGED <<account, history>>
            ELSE /\ IF confirmed THEN Apply(j, p)
                    ELSE UNCHANGED <<account, history, pending>>
                 /\ indexer' = [pc |-> "reconciled", row |-> j, job |-> j,
                                status |-> IF confirmed THEN "confirmed"
                                                        ELSE "submitted",
                                block |-> p, hash |-> jobs[j].hash]
                 /\ UNCHANGED jobs
    /\ UNCHANGED <<chainVars, writer, token, recoveryReady, workerVars,
                   indexed, indexedFinal>>

\* The status statement that follows an application; it has no WHERE clause
\* but the id.  Only recovery writes the transaction hash.
WriteStatus ==
    LET j == indexer.job IN
    /\ indexer.pc \in {"recovered", "reconciled"}
    /\ jobs' = [jobs EXCEPT
         ![j].status = indexer.status, ![j].block = indexer.block,
         ![j].hash = IF indexer.pc = "recovered" THEN indexer.hash ELSE @]
    /\ indexer' = Tick("tick", indexer.row)
    /\ UNCHANGED <<chainVars, writer, token, account, pending, recoveryReady,
                   workerVars, indexed, indexedFinal, history>>

\* The tick ends; the gateway may admit and claim work again.
EndTick ==
    /\ indexer.pc = "tick" /\ Unrecovered = {}
    /\ recoveryReady' = TRUE
    /\ indexer' = Tick("start", 0)
    /\ UNCHANGED <<chainVars, jobs, writer, token, account, pending,
                   workerVars, indexed, indexedFinal, history>>

\* An RPC error or a crash: the next tick starts over.
AbortTick ==
    /\ indexer.pc # "start" /\ Fault
    /\ indexer' = Tick("start", 0)
    /\ UNCHANGED <<chain, final, mempool, writerVars, workerVars, indexed,
                   indexedFinal, history>>

=============================================================================
