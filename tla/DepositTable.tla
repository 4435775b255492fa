---------------------------- MODULE DepositTable ----------------------------
(***************************************************************************)
(* gateway_bridge_deposits: the deposits the gateway has seen, the proof   *)
(* job that batches each of them, and the status a depositor is shown      *)
(* (api/src/main.rs, indexer.rs).                                          *)
(***************************************************************************)
EXTENDS VirtualAccount

\* The automatic loop and, when there is one, an operator.
Batchers == setup.batchers

VARIABLES
    deposits,   \* rows by nonce
    batch       \* per batcher: the batch it is putting together

depositVars == <<deposits, batch>>

\* A row as index_bridge_deposits inserts it.  job: bridge_job_id; seq:
\* outer_action_sequence; sync: the settlement job that synchronized it.
DepositRow(ev, n, id) ==
    [who |-> ev.who, n |-> n, id |-> id, removed |-> FALSE,
     job |-> None, seq |-> 0, sync |-> None]

\* ON CONFLICT (nonce): the event is rewritten, the job columns are kept.
Reindexed(row, ev, n, id) ==
    [row EXCEPT !.who = ev.who, !.n = n, !.id = id, !.removed = FALSE]

\* The deposit rows with the event of block n of the chain.
DepositsWith(n) ==
    LET ev == EventAt(chain, n) IN
    IF ev.kind # "deposit" THEN deposits
    ELSE Upsert(deposits, {ev.nonce}, LAMBDA nonce :
            IF nonce \in DOMAIN deposits
            THEN Reindexed(deposits[nonce], ev, n, chain[n])
            ELSE DepositRow(ev, n, chain[n]))

-----------------------------------------------------------------------------
(* Batching.                                                               *)

NoBatch == [at |-> "idle"]

\* The contracts' state at one pinned block: every getter is bound to its hash,
\* or the snapshot is thrown away.
Pinned(hashes) ==
    [at |-> "pinned", base |-> Outer(hashes),
     pending |-> SubSeq(Deposits(hashes), Len(Witnesses(Outer(hashes))) + 1,
                        Len(Deposits(hashes)))]

\* canonical_deposit_batch, first part: what is to be bridged.
PinBatch(b) ==
    /\ batch[b] = NoBatch
    /\ WriterFree
    /\ Pinned(chain).pending # << >>
    /\ batch' = [batch EXCEPT ![b] = Pinned(chain)]
    /\ UNCHANGED deposits

\* The row of a pinned deposit is indexed, live, final, and the same deposit:
\* the rows' accumulators are checked from the first state to the last.
Ready(w) ==
    /\ w.nonce \in DOMAIN deposits
    /\ ~deposits[w.nonce].removed /\ Settled(deposits[w.nonce])
    /\ deposits[w.nonce].who = w.who

\* Second part: the rows.
LoadBatch(b) ==
    /\ batch[b].at = "pinned"
    /\ batch' = [batch EXCEPT ![b] =
         IF \A i \in DOMAIN @.pending : Ready(@.pending[i])
         THEN [@ EXCEPT !.at = "loaded"] ELSE NoBatch]
    /\ UNCHANGED deposits

Nonces(b) == {batch[b].pending[i].nonce : i \in DOMAIN batch[b].pending}

\* Fault: a failed batch can be retried by nobody.
EligibleOnce(nonce, retry) ==
    ~deposits[nonce].removed /\ deposits[nonce].job = None

\* A row that no job holds, or whose job an operator may give up.
Eligible(nonce, retry) ==
    /\ ~deposits[nonce].removed
    /\ \/ deposits[nonce].job = None
       \/ /\ retry
          /\ jobs[deposits[nonce].job].status
               \in {"failed", "ethereum_reverted", "reorged"}

\* Fault: the writer is only looked at before the batch is read.
BatchQueuesUnlocked(b) ==
    /\ account.state = batch[b].base
    /\ \A nonce \in Nonces(b) : Eligible(nonce, b = "operator")
    /\ nextJob <= MaxJobs

\* The conditions under the lock.
BatchQueues(b) ==
    /\ WriterFree /\ account.state = batch[b].base
    /\ \A nonce \in Nonces(b) : Eligible(nonce, b = "operator")
    /\ nextJob <= MaxJobs

\* queue_canonical_deposit_batch: one transaction under the writer's lock.
QueueBatch(b) ==
    /\ batch[b].at = "loaded"
    /\ batch' = [batch EXCEPT ![b] = NoBatch]
    /\ IF BatchQueues(b)
       THEN LET tx == Proved("bridge", nextJob, batch[b].base, batch[b].pending)
            IN  /\ jobs' = Upsert(jobs, {tx}, LAMBDA t : Job("queued", 0, 0))
                /\ deposits' = [nonce \in DOMAIN deposits |->
                     IF nonce \in Nonces(b)
                     THEN [deposits[nonce] EXCEPT !.job = tx]
                     ELSE deposits[nonce]]
                /\ nextJob' = nextJob + 1
       ELSE UNCHANGED <<jobs, deposits, nextJob>>
    /\ UNCHANGED <<account, history, actions, ready>>

-----------------------------------------------------------------------------
(* The effects of other operations on the rows.                            *)

\* apply_confirmed_bridge finds every deposit it witnesses.
BridgeFits(tx) ==
    \A i \in DOMAIN tx.actions :
        LET nonce == tx.actions[i].nonce IN
        /\ nonce \in DOMAIN deposits /\ ~deposits[nonce].removed
        /\ deposits[nonce].job \in {None, tx}

DepositsBridged(tx) ==
    [nonce \in DOMAIN deposits |->
        IF \E i \in DOMAIN tx.actions : tx.actions[i].nonce = nonce
        THEN [deposits[nonce] EXCEPT
                !.job = tx,
                !.seq = Len(tx.base) + nonce - tx.actions[1].nonce + 1]
        ELSE deposits[nonce]]

\* apply_confirmed_settlement marks what it synchronizes with.
DepositsSynchronized(tx) ==
    [nonce \in DOMAIN deposits |->
        LET row == deposits[nonce] IN
        IF /\ ~row.removed /\ row.job # None /\ row.seq > 0
           /\ row.seq <= tx.actions[1].sync /\ row.sync = None
        THEN [row EXCEPT !.sync = tx] ELSE row]

DepositsApplied(tx) ==
    IF tx.kind = "bridge" THEN DepositsBridged(tx) ELSE DepositsSynchronized(tx)

ApplyFits(tx) == tx.kind = "bridge" => BridgeFits(tx)

JobBlock(tx) == IF tx \in DOMAIN jobs THEN jobs[tx].block ELSE 0

\* Fault: a row keeps its jobs when it is removed.
DepositOnlyRemoved(row, n) == [row EXCEPT !.removed = @ \/ row.n > n]

\* rollback_after(n): a row forgets a settlement, and then a bridge job, that
\* was in an orphaned block.
DepositRolledBack(row, n) ==
    LET gone == row.removed \/ row.n > n IN
    IF JobBlock(row.job) > n
    THEN [row EXCEPT !.removed = gone, !.job = None, !.seq = 0, !.sync = None]
    ELSE [row EXCEPT !.removed = gone,
                     !.sync = IF JobBlock(row.sync) > n THEN None ELSE @]

DepositsRolledBack(n) ==
    [nonce \in DOMAIN deposits |-> DepositRolledBack(deposits[nonce], n)]

-----------------------------------------------------------------------------
(* get_native_deposit.                                                     *)

Progress(row) ==
    IF ~Settled(row) THEN "confirming"
    ELSE IF row.sync # None THEN "synchronized"
    ELSE IF row.seq > 0 THEN "bridgeProven"
    ELSE IF row.job = None THEN "locked"
    ELSE CASE jobs[row.job].status = "queued" -> "proofQueued"
           [] jobs[row.job].status = "submitted" -> "submitting"
           [] jobs[row.job].status = "confirmed" -> "bridgeProven"
           [] OTHER -> "proofFailed"

\* The nonces whose status can be read: the row's block is still canonical.
Readable ==
    {nonce \in DOMAIN deposits :
        /\ ~deposits[nonce].removed
        /\ deposits[nonce].n \in DOMAIN blocks
        /\ blocks[deposits[nonce].n] = deposits[nonce].id}

DepositInit ==
    /\ deposits = << >>
    /\ batch = [b \in Batchers |-> NoBatch]

=============================================================================
