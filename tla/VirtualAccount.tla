--------------------------- MODULE VirtualAccount ---------------------------
(***************************************************************************)
(* The virtual Mina account and action log that the sequencer reads, and   *)
(* the proof jobs whose accepted transactions move them                    *)
(* (api/src/indexer.rs, graphql.rs).  The account stands for its action    *)
(* state and its fee payer's nonce; every application keeps a snapshot of  *)
(* the account before it, for rollbacks.  The worker that takes a job from *)
(* its row to Ethereum is the subject of ProofGateway: here a job is       *)
(* proved and sent in one step, or fails.                                  *)
(***************************************************************************)
EXTENDS EventIndex

MaxJobs == setup.maxJobs                \* proof jobs ever queued
MaxSettlements == setup.maxSettlements  \* how many of them are settlements
MaxInner == setup.maxInner              \* inner actions on the L2

VARIABLES
    jobs,       \* proof_jobs, by the transaction they make
    account,    \* the outer account and its fee payer
    history,    \* gateway_account_history: the account before each job
    actions,    \* gateway_actions, by the transaction that made them
    ready,      \* gateway_config.recovery_ready
    nextJob     \* job ids are never reused, even by a new database

accountVars == <<jobs, account, history, actions, ready, nextJob>>

None == [kind |-> "none"]

\* A job row.  nonce: the fee payer's nonce in a settlement's submission;
\* recovered: a row made for an event whose job the database does not know.
Job(status, nonce, block) ==
    [status |-> status, signed |-> FALSE, nonce |-> nonce, block |-> block,
     recovered |-> FALSE]

RecoveredJob(nonce, block) ==
    [Job("confirmed", nonce, block) EXCEPT !.recovered = TRUE]

\* Nothing the job has signed can be accepted any more.
Released(job) ==
    \/ job.status \in {"confirmed", "ethereum_reverted"}
    \/ job.status \in {"failed", "reorged"} /\ ~job.signed

\* The outer writer takes no new job while one is unreleased.
WriterFree == \A tx \in DOMAIN jobs : Released(jobs[tx])

\* The state after tx, and the states of the action rows it makes.
StateAfter(tx) == tx.base \o tx.actions
ActionStates(tx) ==
    {tx.base \o SubSeq(tx.actions, 1, k) : k \in 1..Len(tx.actions)}

-----------------------------------------------------------------------------
(* Applying an accepted transaction.                                       *)

\* update_outer_account_actions insists on the state before; the settlement's
\* update_outer_account does not, but update_fee_payer insists on the nonce.
AccountFits(tx, nonce) ==
    IF tx.kind = "bridge" THEN account.state = tx.base ELSE account.nonce = nonce

AccountAfter(tx) ==
    [state |-> StateAfter(tx),
     nonce |-> account.nonce + IF tx.kind = "settlement" THEN 1 ELSE 0]

\* gateway_actions ON CONFLICT: a bridge row is rewritten, a settlement row
\* only becomes visible again.
ActionRow(tx, n, id) ==
    IF tx.kind = "settlement" /\ tx \in DOMAIN actions
    THEN [actions[tx] EXCEPT !.removed = FALSE]
    ELSE [n |-> n, id |-> id, removed |-> FALSE]

\* snapshot_account: the account before the job, for a rollback.
Snapshots(tx, n) ==
    Upsert(history, {tx}, LAMBDA t : [before |-> account, n |-> n])

AlreadyApplied(tx) ==
    /\ tx \in DOMAIN history
    /\ tx \in DOMAIN jobs /\ jobs[tx].status = "confirmed"

\* The row that recovery makes for an event whose job it does not find.
JobRecovered(tx, n) ==
    /\ jobs' = Upsert(jobs, {tx}, LAMBDA t : RecoveredJob(account.nonce, n))
    /\ UNCHANGED <<account, history, actions, ready, nextJob>>

\* apply_confirmed_bridge and apply_confirmed_settlement on these tables.
AccountApplied(tx, n, id) ==
    /\ IF tx \in DOMAIN history
       THEN UNCHANGED <<account, history, actions>>
       ELSE /\ AccountFits(tx, jobs[tx].nonce)
            /\ account' = AccountAfter(tx)
            /\ history' = Snapshots(tx, n)
            /\ actions' = Upsert(actions, {tx}, LAMBDA t : ActionRow(tx, n, id))
    /\ UNCHANGED <<jobs, ready, nextJob>>

\* The statement after them, which does not share their transaction.
JobConfirmed(tx, n) ==
    /\ jobs' = [jobs EXCEPT ![tx].status = "confirmed", ![tx].block = n]
    /\ UNCHANGED <<account, history, actions, ready, nextJob>>

\* The finalized events that have not been applied, oldest first.
Unapplied ==
    {tx \in Live(rows) :
        /\ tx.kind \in {"bridge", "settlement"}
        /\ Settled(rows[tx]) /\ ~AlreadyApplied(tx)}

NextUnapplied ==
    CHOOSE tx \in Unapplied : \A t \in Unapplied : rows[tx].n <= rows[t].n

-----------------------------------------------------------------------------
(* rollback_after(n) on these tables.                                      *)

Orphaned(n) == {tx \in DOMAIN history : history[tx].n > n}

\* Fault: the snapshots are dropped without being restored.
AccountKept(n) == account

\* The snapshots are restored from the newest to the oldest.
AccountBefore(n) ==
    IF Orphaned(n) = {} THEN account
    ELSE history[CHOOSE tx \in Orphaned(n) :
            \A t \in Orphaned(n) : history[tx].n <= history[t].n].before

Lost(tx, n) ==
    jobs[tx].block > n /\ jobs[tx].status \in {"submitted", "confirmed"}

\* Only the earliest orphaned settlement can be replayed: the others are
\* given up, the ones below the ancestor among them.
Retried(n) ==
    LET lost == {tx \in DOMAIN jobs : /\ tx.kind = "settlement"
                                      /\ ~jobs[tx].recovered /\ Lost(tx, n)}
    IN  {tx \in lost : \A t \in lost : jobs[tx].block <= jobs[t].block}

JobRolledBack(tx, n) ==
    LET job == jobs[tx] IN
    IF tx.kind = "settlement" /\ Retried(n) \notin {{}, {tx}}
       /\ job.status \in {"queued", "submitted", "confirmed"}
    THEN [job EXCEPT !.status = "reorged"]
    ELSE IF Lost(tx, n) /\ (tx.kind = "bridge" \/ tx \in Retried(n))
    THEN [job EXCEPT !.status = "queued", !.block = 0]
    ELSE job

\* Rows that only stood for recovered history go with their blocks.
AccountRolledBack(n) ==
    /\ account' = AccountBefore(n)
    /\ history' = [tx \in DOMAIN history \ Orphaned(n) |-> history[tx]]
    /\ actions' = RemovedAfter(actions, n)
    /\ jobs' = [tx \in {t \in DOMAIN jobs :
                          ~(jobs[t].recovered /\ jobs[t].block > n)} |->
                  JobRolledBack(tx, n)]
    /\ ready' = FALSE
    /\ UNCHANGED nextJob

-----------------------------------------------------------------------------
(* Jobs.                                                                   *)

\* The sequencer settles on top of the account it reads.
QueueSettlement ==
    /\ ready /\ WriterFree
    /\ nextJob <= MaxJobs
    /\ Len(Commits(account.state)) < MaxSettlements
    /\ \E sync \in Synchronized(account.state)..Len(account.state),
          count \in 0..(MaxInner - InnerLength(account.state)) :
         jobs' = Upsert(jobs,
            {Proved("settlement", nextJob, account.state,
                    <<Commit(sync, InnerLength(account.state), count)>>)},
            LAMBDA tx : Job("queued", account.nonce, 0))
    /\ nextJob' = nextJob + 1
    /\ UNCHANGED <<account, history, actions, ready>>

\* The worker sends the job's transaction (the same one, once signed).
JobSubmitted ==
    /\ ready
    /\ \E tx \in DOMAIN jobs :
         /\ jobs[tx].status = "queued"
         /\ jobs' = [jobs EXCEPT ![tx].status = "submitted", ![tx].signed = TRUE]
         /\ sent' = sent \union {tx}
    /\ UNCHANGED <<account, history, actions, ready, nextJob>>

JobFailed ==
    /\ ready
    /\ \E tx \in DOMAIN jobs :
         /\ jobs[tx].status = "queued" /\ ~jobs[tx].signed
         /\ jobs' = [jobs EXCEPT ![tx].status = "failed"]
    /\ UNCHANGED <<account, history, actions, ready, nextJob>>

\* transaction_is_finalized.
TransactionFinal(n) ==
    IF Finalized THEN n <= tick.fin
    ELSE (IF n <= tick.head THEN tick.head - n ELSE 0) + 1 >= Confirmations

\* The receipt of a polled job, in a block the gateway has indexed.
Receipt(tx) ==
    {n \in DOMAIN chain \intersect DOMAIN blocks :
        /\ EventAt(chain, n) \in {tx, Reverted(tx)}
        /\ blocks[n] = chain[n]}

Succeeded(tx, n) == EventAt(chain, n) = tx

AccountInit ==
    /\ jobs = << >> /\ history = << >> /\ actions = << >>
    /\ account = [state |-> << >>, nonce |-> 0]
    /\ ready = FALSE /\ nextJob = 1

-----------------------------------------------------------------------------
(* graphql.rs actions(): what an archive query returns.                    *)

\* The rows it may return, as action states: visible, in a block that is
\* canonical and final.
Served ==
    UNION {ActionStates(tx) : tx \in {t \in Live(actions) : Settled(actions[t])}}

\* The rows the bounds of a query are looked up in need not be final.
Visible == UNION {ActionStates(tx) : tx \in Live(actions)}

=============================================================================
