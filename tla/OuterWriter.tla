---------------------------- MODULE OuterWriter -----------------------------
(***************************************************************************)
(* The gateway's outer-writer reservation (api/src/outer_writer.rs): the   *)
(* one row through which bridge batches and settlements take turns as      *)
(* writers of the outer account.  Every operation here is one database     *)
(* transaction under the gateway_config row lock; one that returns an      *)
(* error rolls back and is not a step.                                     *)
(***************************************************************************)
EXTENDS EthereumChain, FiniteSets

CONSTANTS
    Owners,         \* sequencer processes, by owner_id
    Bridge,         \* the owner of a row attached to a bridge batch
    NoOwner,
    MaxJobs,
    MaxReservations \* bound on fencing tokens drawn by leases and batches

ASSUME WriterAssumption ==
    /\ MaxJobs \in Nat /\ MaxReservations \in Nat
    /\ Bridge \notin Owners /\ NoOwner \notin Owners

VARIABLES
    jobs,           \* proof_jobs, in order of creation
    writer,         \* gateway_outer_writer
    token,          \* the reservation each owner holds, 0 for none
    account,        \* the virtual outer account: the OuterState it stands for
    pending,        \* gateway_pending_commands: jobs with a pool row
    recoveryReady   \* gateway_config.recovery_ready

writerVars == <<jobs, writer, token, account, pending, recoveryReady>>

\* A job row.  intent, requestId, prepared and hash are NULL (0) or name the
\* attempt that drew the intent, made the request, signed the transaction.
\* base is the outer state the proof starts from; block the height recorded
\* for the transaction; reservation the idempotency key of a settlement.
NewJob(kind, base, reservation) ==
    [kind |-> kind, status |-> "queued", attempts |-> 0, intent |-> 0,
     requestId |-> 0, proof |-> FALSE, prepared |-> 0, hash |-> 0,
     approved |-> FALSE, block |-> 0, base |-> base,
     reservation |-> reservation]

\* No transaction of the job can be accepted any more: its outcome is final,
\* or it ended with nothing signed.
Released(job) ==
    \/ job.status \in {"confirmed", "ethereum_reverted"}
    \/ /\ job.hash = 0 /\ job.prepared = 0
       /\ job.status \in {"executed", "failed", "proof_failed", "rejected",
                          "reorged"}

Free(row) == [row EXCEPT !.reservation = 0, !.owner = NoOwner, !.live = FALSE,
                         !.checkpoint = << >>, !.job = 0]

\* Fault: the lease of an accepted job expires too.
LockedUntilExpiry ==
    IF ~writer.live \/ (writer.job # 0 /\ Released(jobs[writer.job]))
    THEN Free(writer) ELSE writer

\* lock(): the row once expired leases and finished jobs are cleared.  The
\* reservation id and its fencing token are drawn together: one number is both.
Locked ==
    IF \/ writer.job = 0 /\ ~writer.live
       \/ writer.job # 0 /\ Released(jobs[writer.job])
    THEN Free(writer) ELSE writer

NoJobs == \A j \in DOMAIN jobs : Released(jobs[j])

-----------------------------------------------------------------------------
\* acquire: the checkpoint was read from some finalized block before the row
\* was locked.  An owner that already holds the lease gets it back.
Acquire(o) ==
    LET row == Locked IN
    /\ recoveryReady
    /\ \/ /\ row.reservation # 0 /\ row.job = 0 /\ row.owner = o
          /\ writer' = [row EXCEPT !.live = TRUE]
       \/ /\ row.reservation = 0 /\ NoJobs /\ row.fencing < MaxReservations
          /\ \E n \in 0..final : OuterState(SubSeq(chain, 1, n)) = account
          /\ writer' = [reservation |-> row.fencing + 1, owner |-> o,
                        fencing |-> row.fencing + 1, live |-> TRUE,
                        checkpoint |-> account, job |-> 0]
    /\ token' = [token EXCEPT ![o] = writer'.reservation]
    /\ UNCHANGED <<jobs, account, pending, recoveryReady>>

Release(o) ==
    LET row == Locked IN
    /\ recoveryReady /\ token[o] # 0
    /\ \/ row.reservation = 0
       \/ row.reservation = token[o] /\ row.job = 0
    /\ writer' = Free(row)
    /\ token' = [token EXCEPT ![o] = 0]
    /\ UNCHANGED <<jobs, account, pending, recoveryReady>>

\* Time passes without a renewal; a renewal in time leaves the row live.
LeaseExpires ==
    /\ writer.reservation # 0 /\ writer.job = 0 /\ writer.live
    /\ writer' = [writer EXCEPT !.live = FALSE]
    /\ UNCHANGED <<jobs, token, account, pending, recoveryReady>>

\* The settlement this token already bought, if any.
Existing(o) == {j \in DOMAIN jobs : jobs[j].reservation = token[o]}

\* sendZkapp of a new settlement: insert the job, attach it, add its pool row.
AttachSettlement(o) ==
    LET row == Locked IN
    /\ recoveryReady /\ token[o] # 0 /\ Existing(o) = {}
    /\ Len(jobs) < MaxJobs
    /\ row.reservation = token[o] /\ row.job = 0 /\ row.live
    /\ NoJobs
    /\ row.checkpoint = account
    /\ jobs' = Append(jobs, NewJob("settlement", row.checkpoint, token[o]))
    /\ writer' = [row EXCEPT !.job = Len(jobs) + 1, !.live = FALSE]
    /\ pending' = pending \union {Len(jobs) + 1}
    /\ UNCHANGED <<token, account, recoveryReady>>

\* May the replay of an admitted settlement restore its pool row?
PoolRowAllowed(job) ==
    \/ job.status \notin {"confirmed", "executed", "failed", "proof_failed",
                          "ethereum_reverted", "reorged", "rejected"}
    \/ /\ job.hash # 0 \/ job.prepared # 0
       /\ job.status \notin {"confirmed", "ethereum_reverted"}

\* sendZkapp again, with the same frozen payload: the first job is the answer.
ReplaySettlement(o) ==
    /\ recoveryReady /\ token[o] # 0 /\ Existing(o) # {}
    /\ writer' = Locked
    /\ pending' = pending \union {j \in Existing(o) : PoolRowAllowed(jobs[j])}
    /\ UNCHANGED <<jobs, token, account, recoveryReady>>

\* A deposit batch is prepared by the gateway and rechecked at admission.
AttachBridge ==
    LET row == Locked IN
    /\ recoveryReady /\ Len(jobs) < MaxJobs /\ row.fencing < MaxReservations
    /\ row.reservation = 0
    /\ NoJobs
    /\ jobs' = Append(jobs, NewJob("bridge", account, 0))
    /\ writer' = [reservation |-> row.fencing + 1, owner |-> Bridge,
                  fencing |-> row.fencing + 1, live |-> FALSE,
                  checkpoint |-> << >>, job |-> Len(jobs) + 1]
    /\ UNCHANGED <<token, account, pending, recoveryReady>>

=============================================================================
