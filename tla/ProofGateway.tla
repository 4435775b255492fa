---------------------------- MODULE ProofGateway ----------------------------
(***************************************************************************)
(* The gateway as a whole: sequencers and the deposit loop ask for the     *)
(* outer writer, workers carry jobs from the queue to Ethereum, an         *)
(* operator approves and cancels, the indexer follows the chain, and the   *)
(* chain mines, finalizes, reorganizes and forgets.  What they share is    *)
(* the database; what they promise is below.                               *)
(***************************************************************************)
EXTENDS GatewayIndexer

vars == <<chainVars, writerVars, workerVars, indexerVars>>

JobIds == 1..MaxJobs

Init ==
    /\ chain = << >> /\ final = 0 /\ mempool = {} /\ faults = 0
    /\ jobs = << >>
    /\ writer = [reservation |-> 0, owner |-> NoOwner, fencing |-> 0,
                 live |-> FALSE, checkpoint |-> << >>, job |-> 0]
    /\ token = [o \in Owners |-> 0]
    /\ account = << >> /\ pending = {} /\ recoveryReady = TRUE
    /\ lockHolder = NoReplica
    /\ worker = [w \in Replicas |-> IdleWorker]
    /\ purchased = [j \in JobIds |-> 0]
    /\ indexed = << >> /\ indexedFinal = 0 /\ history = {}
    /\ indexer = Tick("start", 0)

Ethereum ==
    /\ \/ \E tx \in mempool : Mine(tx, jobs[tx[1]].base)
       \/ Finalize
       \/ Reorg
       \/ Evict
    /\ UNCHANGED <<writerVars, workerVars, indexerVars>>

Admission ==
    /\ \/ \E o \in Owners : \/ Acquire(o) \/ Release(o)
                            \/ AttachSettlement(o) \/ ReplaySettlement(o)
       \/ LeaseExpires
       \/ AttachBridge
    /\ UNCHANGED <<chainVars, workerVars, indexerVars>>

Progress(w) ==
    \/ Elect(w) \/ RecoverInterrupted(w) \/ ClaimJob(w)
    \/ Preflight(w) \/ Validate(w) \/ SetProving(w)
    \/ BeginProofRequest(w) \/ RequestProof(w) \/ FinishProofRequest(w)
    \/ WaitProof(w) \/ Metrics(w)
    \/ Send(w) \/ Sign(w) \/ Broadcast(w) \/ MarkSubmitted(w)
    \/ RecordFailure(w)

Interruption(w) == LoseSession(w) \/ Crash(w)

Operator == \E j \in DOMAIN jobs : ApproveProof(j) \/ CancelProof(j)

IndexerStep ==
    \/ Rollback \/ IndexBlocks \/ RecoverGatewayState
    \/ WriteStatus \/ EndTick

Next ==
    \/ Ethereum
    \/ Admission
    \/ /\ \/ \E w \in Replicas : Progress(w) \/ Interruption(w) \/ Demote(w)
          \/ Operator
       /\ UNCHANGED indexerVars
    \/ IndexerStep
    \/ \E j \in DOMAIN jobs : ReconcileJob(j)
    \/ AbortTick

Spec == Init /\ [][Next]_vars

-----------------------------------------------------------------------------
Statuses == {"queued"} \union Active \union Finished

Txs == JobIds \X Nat

Blocks == [tx : Txs, ok : BOOLEAN]

JobRows ==
    [kind : {"settlement", "bridge"}, status : Statuses, attempts : Nat,
     intent : Nat, requestId : Nat, proof : BOOLEAN, prepared : Nat,
     hash : Nat, approved : BOOLEAN, block : Nat, base : Seq(Blocks),
     reservation : Nat]

Stages ==
    {"idle", "recover", "claim", "preflight", "validateApproved", "validateSend",
     "setProving", "begin", "request", "finish", "wait", "metrics", "send",
     "sign", "broadcast", "mark", "fail"}

\* Every variable keeps its type.
TypeOK ==
    /\ chain \in Seq(Blocks) /\ final \in 0..Len(chain)
    /\ mempool \subseteq Txs /\ faults \in 0..MaxFaults
    /\ jobs \in Seq(JobRows) /\ Len(jobs) <= MaxJobs
    /\ writer \in [reservation : Nat, owner : Owners \union {Bridge, NoOwner},
                   fencing : Nat, live : BOOLEAN, checkpoint : Seq(Blocks),
                   job : 0..Len(jobs)]
    /\ token \in [Owners -> Nat]
    /\ account \in Seq(Blocks) /\ pending \subseteq DOMAIN jobs
    /\ recoveryReady \in BOOLEAN
    /\ lockHolder \in Replicas \union {NoReplica}
    /\ worker \in [Replicas -> [pc : Stages, job : 0..Len(jobs), attempt : Nat,
                                requestId : Nat, tx : Nat,
                                class : {"none", "retryable", "fatal"}]]
    /\ purchased \in [JobIds -> Nat]
    /\ indexed \in Seq(Blocks) /\ indexedFinal \in 0..Len(indexed)
    /\ history \subseteq [job : JobIds, before : Seq(Blocks), block : Nat]
    /\ indexer \in [pc : {"start", "tick", "recovered", "reconciled"},
                    row : 0..Len(jobs), job : 0..Len(jobs),
                    status : {"none", "confirmed", "submitted"},
                    block : Nat, hash : Nat]

-----------------------------------------------------------------------------
Final(j) == \E p \in 1..final : chain[p].tx[1] = j

\* A job that may still change the outer account.  A settlement finalized on
\* chain counts as over even while a rollback has marked it reorged.
Open(j) == ~Released(jobs[j]) /\ ~(jobs[j].status = "reorged" /\ Final(j))

\* The proving service is never paid twice for one job, whatever crashes,
\* fails, is fenced or answers late between the intent and the request id
\* (begin_proof_request, finish_proof_request, recover_interrupted).
OnePurchase == \A j \in JobIds : purchased[j] <= 1

\* One job has one Ethereum transaction: whatever was broadcast or mined for it
\* are the bytes it saved, however many workers retried the submission (send).
OneTransaction ==
    \A tx \in mempool \union {b.tx : b \in Range(chain)} :
        jobs[tx[1]].prepared = tx[2]

\* At most one job is open, and the writer row is attached to it: settlements
\* and bridge batches take turns on the outer account (lock, ensure_no_jobs).
SingleWriter ==
    \A j \in DOMAIN jobs : Open(j) => writer.job = j

\* The state a job or a live lease builds on stays the gateway's state until the
\* job's own receipt is applied: nobody moves it in between (attach_settlement,
\* attach_bridge, apply_confirmed_*).
CheckpointHeld ==
    /\ \A j \in DOMAIN jobs : Open(j) /\ ~Applied(j) => jobs[j].base = account
    /\ writer.live => writer.checkpoint = account

\* A job given up (failed, rejected) has no transaction that could still be
\* mined: what may have been broadcast is never abandoned (record_failure,
\* cancel_proof).
NothingSignedIsDropped ==
    \A tx \in mempool \union {b.tx : b \in Range(chain)} :
        jobs[tx[1]].status \notin {"executed", "failed", "proof_failed", "rejected"}

\* A final status is what the finalized chain says of the job's transaction
\* (reconcile_jobs, recover_gateway_state).
OutcomeIsFinal ==
    \A j \in DOMAIN jobs :
        LET Outcome(ok) == \E p \in 1..final : chain[p].tx[1] = j
                                               /\ chain[p].ok = ok IN
        /\ jobs[j].status = "confirmed" => Outcome(TRUE)
        /\ jobs[j].status = "ethereum_reverted" => Outcome(FALSE)

\* The virtual account is the outer state of a finalized block: no receipt is
\* applied twice, out of order, or before finality (apply_confirmed_*).
AccountIsFinalized ==
    \E n \in 0..final : account = OuterState(Prefix(chain, n))

\* What the database records of the chain is final, whatever is reorganized,
\* and whichever of the two transactions of a receipt was interrupted.
RecordsAreFinal == OutcomeIsFinal /\ AccountIsFinalized

\* The sequencer's command stays in the pool until its receipt is applied or
\* its job is over: no failure on the way loses it (record_failure, rollback).
PendingKept ==
    \A j \in DOMAIN jobs :
        jobs[j].kind = "settlement" /\ Open(j) /\ ~Applied(j) => j \in pending

-----------------------------------------------------------------------------
(* Liveness                                                                *)

\* Workers, the indexer loop and the chain keep going; every row is looked at
\* in every tick.  Nothing is assumed of clients, the operator or faults.
Fairness ==
    /\ \A w \in Replicas : WF_vars(Progress(w) /\ UNCHANGED indexerVars)
                           /\ WF_vars(Demote(w) /\ UNCHANGED indexerVars)
    /\ WF_vars(IndexerStep)
    /\ \A j \in JobIds : SF_vars(j \in DOMAIN jobs /\ ReconcileJob(j))
    /\ WF_vars(Ethereum /\ chain' # chain /\ faults' = faults)
    /\ WF_vars(Ethereum /\ final' # final)

FairSpec == Spec /\ Fairness

\* A proof request whose answer was lost waits for the operator, by design.
Ambiguous(job) == job.intent # 0 /\ job.requestId = 0

\* Every admitted job ends, or is left to the operator: the writer row is not
\* held for ever by work that could go on (worker_loop, reconcile_jobs).
EveryJobEnds ==
    <>[](\A j \in DOMAIN jobs : Released(jobs[j]) \/ Ambiguous(jobs[j]))

-----------------------------------------------------------------------------
(* What a document or a comment says and the code does not do              *)

\* "If the transaction is reorged before finality, the job stays submitted"
\* (docs/content/gateway/proving.md).
SubmittedStays ==
    [][\A j \in DOMAIN jobs : jobs[j].status = "submitted" =>
         jobs'[j].status \in {"submitted", "confirmed", "ethereum_reverted"}]_vars

\* "invalidate dependent/later work" (rollback_after): a settlement confirmed
\* in a finalized block is neither.
OnlyLaterWorkInvalidated ==
    [][\A j \in DOMAIN jobs :
         jobs[j].status = "confirmed" => jobs'[j].status = "confirmed"]_vars

\* "An idempotent replay of a terminal job must not resurrect its pool row"
\* (send_zkapp): a finished settlement has no pool row.
NoTerminalPoolRow ==
    \A j \in pending : jobs[j].status \notin {"confirmed", "ethereum_reverted"}

=============================================================================
