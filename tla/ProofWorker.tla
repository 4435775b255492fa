---------------------------- MODULE ProofWorker -----------------------------
(***************************************************************************)
(* The proof worker of each gateway replica (api/src/main.rs, claim_job    *)
(* and process_job; api/src/submission.rs) and the operator's approval and *)
(* cancellation.  A replica elects itself with a PostgreSQL session lock;  *)
(* when the session dies it goes on working until it notices, beside the   *)
(* replica elected next.  Each step is one database statement or one call  *)
(* to a service; everything between two of them may interleave.            *)
(***************************************************************************)
EXTENDS OuterWriter, FiniteSetsExt

CONSTANTS
    Replicas,
    NoReplica,
    RequireApproval     \* API_REQUIRE_PROOF_APPROVAL

ASSUME WorkerAssumption ==
    NoReplica \notin Replicas /\ RequireApproval \in BOOLEAN

VARIABLES
    lockHolder,     \* the replica whose session holds WORKER_LOCK
    worker,         \* where each replica's worker is, and what it remembers
    purchased       \* paid SP1 requests per job (external)

workerVars == <<lockHolder, worker, purchased>>

\* attempt is the attempts value read at the claim; requestId and tx what the
\* worker read or made since; class the error it is about to record.
IdleWorker == [pc |-> "idle", job |-> 0, attempt |-> 0, requestId |-> 0,
               tx |-> 0, class |-> "none"]

At(w, pc) == worker[w].pc = pc

Goto(w, pc) == worker' = [worker EXCEPT ![w].pc = pc]

\* The error of process_job: its class decides what record_failure does.
Fail(w, class) ==
    worker' = [worker EXCEPT ![w].pc = "fail", ![w].class = class]

\* An RPC, prover or lifetime check fails; nothing else happens.
ServiceFails(w) ==
    /\ Fault
    /\ \E class \in {"retryable", "fatal"} : Fail(w, class)
    /\ UNCHANGED <<chain, final, mempool, writerVars, lockHolder, purchased>>

\* The worker's claim has not been fenced and the row is in these statuses.
Holds(w, statuses) ==
    LET job == jobs[worker[w].job] IN
    job.attempts = worker[w].attempt /\ job.status \in statuses

\* Statement whose WHERE clause no longer matches: an error of its own.
Fenced(w) ==
    /\ Fail(w, "fatal")
    /\ UNCHANGED <<chainVars, writerVars, lockHolder, purchased>>

\* validate_preflight against the latest block.
Fresh(w) == jobs[worker[w].job].base = OuterState(chain)

Update(w, job) == jobs' = [jobs EXCEPT ![worker[w].job] = job]

-----------------------------------------------------------------------------
(* Ownership: run_owned_worker                                             *)

Elect(w) ==
    /\ At(w, "idle") /\ lockHolder = NoReplica
    /\ lockHolder' = w
    /\ Goto(w, "recover")
    /\ UNCHANGED <<chainVars, writerVars, purchased>>

\* Faults: the intent is forgotten; signed bytes count as broadcast.
InterruptedForgotten(job) ==
    IF job.status \notin {"validating", "proof_requested", "proving",
                          "submitting"}
    THEN job
    ELSE [job EXCEPT !.status = IF job.approved THEN "approved" ELSE "queued",
                     !.intent = job.requestId,
                     !.attempts = job.attempts + 1]

InterruptedAsSubmitted(job) ==
    IF job.status \notin {"validating", "proof_requested", "proving",
                          "submitting"}
    THEN job
    ELSE [job EXCEPT
            !.status = IF job.intent # 0 /\ job.requestId = 0 THEN "queued"
                       ELSE IF job.hash # 0 THEN "submitted"
                       ELSE IF job.approved THEN "approved" ELSE "queued",
            !.attempts = job.attempts + 1]

\* recover_interrupted: every stage in flight goes back to where it can be
\* claimed, and the attempt that ran it is fenced.
Interrupted(job) ==
    IF job.status \notin {"validating", "proof_requested", "proving",
                          "submitting"}
    THEN job
    ELSE [job EXCEPT
            !.status = IF job.intent # 0 /\ job.requestId = 0 THEN "queued"
                       ELSE IF job.hash # 0 /\ job.prepared = 0 THEN "submitted"
                       ELSE IF job.approved THEN "approved" ELSE "queued",
            !.attempts = job.attempts + 1]

RecoverInterrupted(w) ==
    /\ At(w, "recover")
    /\ jobs' = [j \in DOMAIN jobs |-> Interrupted(jobs[j])]
    /\ Goto(w, "claim")
    /\ UNCHANGED <<chainVars, writer, token, account, pending, recoveryReady,
                   lockHolder, purchased>>

LoseSession(w) ==
    /\ lockHolder = w /\ Fault
    /\ lockHolder' = NoReplica
    /\ UNCHANGED <<chain, final, mempool, writerVars, worker, purchased>>

\* A worker that finds its session gone is dropped wherever it is.
Demote(w) ==
    /\ lockHolder # w /\ ~At(w, "idle")
    /\ worker' = [worker EXCEPT ![w] = IdleWorker]
    /\ UNCHANGED <<chainVars, writerVars, lockHolder, purchased>>

\* The replica crashes, or fails to persist a failure and gives the lock up.
Crash(w) ==
    /\ lockHolder = w /\ Fault
    /\ lockHolder' = NoReplica
    /\ worker' = [worker EXCEPT ![w] = IdleWorker]
    /\ UNCHANGED <<chain, final, mempool, writerVars, purchased>>

-----------------------------------------------------------------------------
(* claim_job                                                               *)

Active == {"validating", "awaiting_approval", "approved", "proof_requested",
           "proving", "submitting", "submitted"}

Claimable(j, row) ==
    LET job == jobs[j] IN
    /\ job.status \in {"queued", "approved"}
    /\ job.intent = 0 \/ job.requestId # 0
    /\ row.reservation = 0 \/ row.job = j
    /\ \A k \in DOMAIN jobs \ {j} :
         (jobs[k].kind # job.kind \/ job.kind = "settlement")
            => jobs[k].status \notin Active

\* Where process_job starts, from the row as it was claimed.
Entry(job) ==
    IF job.proof THEN IF job.prepared # 0 THEN "send" ELSE "validateSend"
    ELSE IF job.requestId # 0 THEN "setProving"
    ELSE IF job.status = "approved" THEN "validateApproved" ELSE "preflight"

ClaimJob(w) ==
    LET row == Locked
        claimable == {j \in DOMAIN jobs : Claimable(j, row)} IN
    /\ At(w, "claim") /\ recoveryReady
    /\ writer' = row
    /\ IF claimable = {}
       THEN UNCHANGED <<jobs, worker>>
       ELSE LET j == Min(claimable)
                job == jobs[j] IN
            /\ jobs' = [jobs EXCEPT
                 ![j].status = IF job.status = "approved" THEN "proving"
                                                          ELSE "validating",
                 ![j].attempts = job.attempts + 1]
            /\ worker' = [worker EXCEPT ![w] =
                 [pc |-> Entry(job), job |-> j, attempt |-> job.attempts + 1,
                  requestId |-> job.requestId, tx |-> 0, class |-> "none"]]
    /\ UNCHANGED <<chainVars, token, account, pending, recoveryReady,
                   lockHolder, purchased>>

-----------------------------------------------------------------------------
(* process_job                                                             *)

\* The first pass over a queued job: digest, preflight, validation, public
\* values, all under the same WHERE clause; then approval or proving.
Preflight(w) ==
    LET held == Holds(w, {"validating"}) /\ jobs[worker[w].job].intent = 0 IN
    /\ At(w, "preflight")
    /\ \/ ServiceFails(w)
       \/ ~(held /\ Fresh(w)) /\ Fenced(w)
       \/ /\ held /\ Fresh(w)
          /\ IF RequireApproval
             THEN /\ Update(w, [jobs[worker[w].job] EXCEPT
                                  !.status = "awaiting_approval"])
                  /\ Goto(w, "claim")
             ELSE /\ Goto(w, "setProving")
                  /\ UNCHANGED jobs
          /\ UNCHANGED <<chainVars, writer, token, account, pending,
                         recoveryReady, lockHolder, purchased>>

\* Lifetime and validate_preflight before an approved proof is requested or a
\* saved one is sent.
Validate(w) ==
    /\ At(w, "validateApproved") \/ At(w, "validateSend")
    /\ \/ ServiceFails(w)
       \/ ~Fresh(w) /\ Fenced(w)
       \/ /\ Fresh(w)
          /\ Goto(w, IF At(w, "validateSend") THEN "send" ELSE "setProving")
          /\ UNCHANGED <<chainVars, writerVars, lockHolder, purchased>>

\* set_status excludes only the statuses named here.
SetProving(w) ==
    LET job == jobs[worker[w].job] IN
    /\ At(w, "setProving")
    /\ \/ /\ job.attempts = worker[w].attempt
          /\ job.status \notin {"reorged", "rejected", "confirmed",
                                "ethereum_reverted", "failed", "executed"}
          /\ Update(w, [job EXCEPT !.status = "proving"])
          /\ Goto(w, IF worker[w].requestId # 0 THEN "wait" ELSE "begin")
          /\ UNCHANGED <<chainVars, writer, token, account, pending,
                         recoveryReady, lockHolder, purchased>>
       \/ /\ \/ job.attempts # worker[w].attempt
             \/ job.status \in {"reorged", "rejected", "confirmed",
                                "ethereum_reverted", "failed", "executed"}
          /\ Fenced(w)

\* May this attempt seal a proof request?
CanBegin(w) ==
    LET job == jobs[worker[w].job] IN
    Holds(w, {"proving"}) /\ job.intent = 0 /\ job.requestId = 0

BeginProofRequest(w) ==
    /\ At(w, "begin")
    /\ \/ ServiceFails(w)
       \/ ~CanBegin(w) /\ Fenced(w)
       \/ /\ CanBegin(w)
          /\ Update(w, [jobs[worker[w].job] EXCEPT !.intent = worker[w].attempt])
          /\ Goto(w, "request")
          /\ UNCHANGED <<chainVars, writer, token, account, pending,
                         recoveryReady, lockHolder, purchased>>

\* prover::request_proof, not idempotent: it may fail before the network takes
\* the order, or after.
RequestProof(w) ==
    /\ At(w, "request")
    /\ \/ ServiceFails(w)
       \/ /\ purchased' = [purchased EXCEPT ![worker[w].job] = @ + 1]
          /\ \/ Goto(w, "finish") /\ UNCHANGED faults
             \/ Fault /\ Fail(w, "retryable")
          /\ UNCHANGED <<chain, final, mempool, writerVars, lockHolder>>

\* The answer is saved under its intent, not under the attempt: it may come
\* late.
CanFinish(w) ==
    LET job == jobs[worker[w].job] IN
    /\ job.intent = worker[w].attempt
    /\ job.requestId \in {0, worker[w].attempt}
    /\ job.status \in {"queued", "approved", "proving", "proof_requested"}

FinishProofRequest(w) ==
    LET job == jobs[worker[w].job] IN
    /\ At(w, "finish")
    /\ \/ ~CanFinish(w) /\ Fenced(w)
       \/ /\ CanFinish(w)
          /\ Update(w, [job EXCEPT !.requestId = worker[w].attempt,
                          !.status = IF @ = "proving" THEN "proof_requested"
                                                      ELSE @])
          /\ worker' = [worker EXCEPT ![w].pc = "wait",
                                      ![w].requestId = worker[w].attempt]
          /\ UNCHANGED <<chainVars, writer, token, account, pending,
                         recoveryReady, lockHolder, purchased>>

\* wait_proof, then the proof is saved before anything else.
WaitProof(w) ==
    LET held == Holds(w, {"proving", "proof_requested"}) IN
    /\ At(w, "wait")
    /\ \/ ServiceFails(w)
       \/ ~held /\ Fenced(w)
       \/ /\ held
          /\ Update(w, [jobs[worker[w].job] EXCEPT !.proof = TRUE])
          /\ Goto(w, "metrics")
          /\ UNCHANGED <<chainVars, writer, token, account, pending,
                         recoveryReady, lockHolder, purchased>>

\* The metrics statement, then lifetime and validation before sending.
Metrics(w) ==
    LET held == Holds(w, {"proving", "proof_requested"}) IN
    /\ At(w, "metrics")
    /\ \/ ServiceFails(w)
       \/ ~(held /\ Fresh(w)) /\ Fenced(w)
       \/ /\ held /\ Fresh(w)
          /\ Goto(w, "send")
          /\ UNCHANGED <<chainVars, writerVars, lockHolder, purchased>>

-----------------------------------------------------------------------------
(* submission::send                                                        *)

Sending == {"validating", "proving", "proof_requested", "submitting"}

Send(w) ==
    LET job == jobs[worker[w].job] IN
    /\ At(w, "send")
    /\ \/ ~Holds(w, Sending) /\ Fenced(w)
       \/ /\ Holds(w, Sending)
          /\ Update(w, [job EXCEPT !.proof = TRUE, !.status = "submitting",
                          !.hash = IF job.prepared # 0 THEN job.prepared
                                                       ELSE @])
          /\ worker' = [worker EXCEPT
               ![w].pc = IF job.prepared # 0 THEN "broadcast" ELSE "sign",
               ![w].tx = job.prepared]
          /\ UNCHANGED <<chainVars, writer, token, account, pending,
                         recoveryReady, lockHolder, purchased>>

\* Fault: the save is not fenced.
CanSignUnfenced(w) == jobs[worker[w].job].status = "submitting"

\* prepare_submission signs; the bytes are saved before they leave the process.
CanSign(w) ==
    Holds(w, {"submitting"}) /\ jobs[worker[w].job].prepared = 0

Sign(w) ==
    /\ At(w, "sign")
    /\ \/ ServiceFails(w)
       \/ ~CanSign(w) /\ Fenced(w)
       \/ /\ CanSign(w)
          /\ Update(w, [jobs[worker[w].job] EXCEPT
                          !.prepared = worker[w].attempt,
                          !.hash = worker[w].attempt])
          /\ worker' = [worker EXCEPT ![w].pc = "broadcast",
                                      ![w].tx = worker[w].attempt]
          /\ UNCHANGED <<chainVars, writer, token, account, pending,
                         recoveryReady, lockHolder, purchased>>

\* broadcast_submission: a transaction already seen is not sent again; the
\* bytes may propagate although the call fails.
Broadcast(w) ==
    LET tx == <<worker[w].job, worker[w].tx>> IN
    /\ At(w, "broadcast")
    /\ \/ ServiceFails(w)
       \/ /\ mempool' = IF Mined(tx) THEN mempool ELSE mempool \union {tx}
          /\ \/ Goto(w, "mark") /\ UNCHANGED faults
             \/ Fault /\ Fail(w, "retryable")
          /\ UNCHANGED <<chain, final, writerVars, lockHolder, purchased>>

MarkSubmitted(w) ==
    /\ At(w, "mark")
    /\ IF Holds(w, {"submitting"})
       THEN Update(w, [jobs[worker[w].job] EXCEPT !.status = "submitted"])
       ELSE UNCHANGED jobs
    /\ Goto(w, "claim")
    /\ UNCHANGED <<chainVars, writer, token, account, pending, recoveryReady,
                   lockHolder, purchased>>

-----------------------------------------------------------------------------
(* submission::record_failure                                              *)

Finished == {"confirmed", "reorged", "rejected", "ethereum_reverted",
             "failed", "proof_failed", "executed"}

\* Fault: only the error decides.
FailedStatusByClass(job, class) ==
    IF job.intent # 0 /\ job.requestId = 0 THEN "queued"
    ELSE IF class = "retryable"
    THEN IF job.approved THEN "approved" ELSE "queued"
    ELSE "failed"

\* A request that may have been placed blocks the job; a transaction that may
\* have been broadcast, or a passing error, retries it; otherwise it fails.
FailedStatus(job, class) ==
    IF job.intent # 0 /\ job.requestId = 0 THEN "queued"
    ELSE IF class = "retryable" \/ job.prepared # 0 \/ job.hash # 0
    THEN IF job.approved THEN "approved" ELSE "queued"
    ELSE "failed"

\* Fault: a job to be retried unapproved loses its pool row.
KeepsPoolRowIfApproved(status) == status = "approved"

KeepsPoolRow(status) == status # "failed"

RecordFailure(w) ==
    LET j == worker[w].job
        job == jobs[j]
        status == FailedStatus(job, worker[w].class) IN
    /\ At(w, "fail")
    /\ IF job.attempts # worker[w].attempt \/ job.status \in Finished
       THEN UNCHANGED <<jobs, pending>>
       ELSE /\ Update(w, [job EXCEPT !.status = status])
            /\ pending' = IF KeepsPoolRow(status) THEN pending ELSE pending \ {j}
    /\ Goto(w, "claim")
    /\ UNCHANGED <<chainVars, writer, token, account, recoveryReady,
                   lockHolder, purchased>>

-----------------------------------------------------------------------------
(* The operator                                                            *)

\* approve_proof validates the job before its statement, so that check may be
\* stale by then and guards nothing; only the statement's own clause does.
ApproveProof(j) ==
    /\ RequireApproval
    /\ jobs[j].status = "awaiting_approval"
    /\ jobs' = [jobs EXCEPT ![j].status = "approved", ![j].approved = TRUE]
    /\ UNCHANGED <<chainVars, writer, token, account, pending, recoveryReady,
                   workerVars>>

Cancellable(job) ==
    /\ job.requestId = 0 /\ job.intent = 0
    /\ job.prepared = 0 /\ job.hash = 0
    /\ job.status \in {"queued", "validating", "awaiting_approval", "approved"}

CancelProof(j) ==
    /\ Cancellable(jobs[j])
    /\ jobs' = [jobs EXCEPT ![j].status = "rejected"]
    /\ pending' = pending \ {j}
    /\ UNCHANGED <<chainVars, writer, token, account, recoveryReady,
                   workerVars>>

=============================================================================
