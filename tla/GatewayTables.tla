--------------------------- MODULE GatewayTables ----------------------------
(***************************************************************************)
(* The gateway's tables together: a tick of the indexer moves all of them, *)
(* a rollback undoes all of them in one transaction, and an empty database *)
(* is filled again from Ethereum and the archive.                          *)
(***************************************************************************)
EXTENDS LeafTable

VARIABLES
    losses,     \* how often the database was lost
    cut         \* transactions a tick has applied and not lived to confirm in
                \* confirmation mode; no part of the gateway

MaxLosses == setup.maxLosses    \* how often the database is lost

vars == <<chainVars, indexVars, accountVars, depositVars, leafVars, losses, cut>>

-----------------------------------------------------------------------------
(* Steps of the tick that touch several tables.                            *)

RollBack(n) ==
    /\ IndexRolledBack(n)
    /\ AccountRolledBack(n)
    /\ deposits' = DepositsRolledBack(n)
    /\ leaves' = RemovedAfter(leaves, n)
    /\ UNCHANGED <<batch, archived, recovery>>

\* index_blocks looks at its own tip when the head has not moved past it.
CheckTip ==
    /\ At("tip") /\ tick.head \in DOMAIN chain
    /\ IF TipMoved
       THEN /\ MayRollBack(CommonAncestor(tick.head))
            /\ RollBack(CommonAncestor(tick.head))
       ELSE UNCHANGED <<blocks, marked, rows, last, accountVars, depositVars,
                        leafVars>>
    /\ Goto("blocks")

\* One block and its deposits.
IndexBlock ==
    /\ At("blocks") /\ NextBlock <= tick.head /\ NextBlock \in DOMAIN chain
    /\ ParentMatches
    /\ BlockIndexed
    /\ deposits' = DepositsWith(NextBlock)
    /\ UNCHANGED <<accountVars, batch, leafVars>>

\* ensure_parent: the rollback commits, and the tick then gives up, since the
\* ancestor is below the parent it looked at.
OrphanedParent ==
    /\ At("blocks") /\ NextBlock <= tick.head /\ NextBlock \in DOMAIN chain
    /\ ~ParentMatches
    /\ MayRollBack(CommonAncestor(Len(blocks)))
    /\ RollBack(CommonAncestor(Len(blocks)))
    /\ tick' = Idle

\* apply_confirmed_bridge or apply_confirmed_settlement, each a transaction;
\* the tick has then to confirm the job.
Apply(tx, n, id, phase) ==
    /\ ApplyFits(tx)
    /\ AccountApplied(tx, n, id)
    /\ deposits' = DepositsApplied(tx)
    /\ leaves' = LeavesApplied(tx, n, id)
    /\ tick' = [tick EXCEPT !.at = phase, !.done = <<tx, n>>]
    /\ UNCHANGED <<blocks, marked, rows, last, batch, archived, recovery>>

\* A tick that ends before this leaves an applied job unconfirmed.
Confirm ==
    /\ tick.at \in {"recovering", "reconciling"}
    /\ JobConfirmed(tick.done[1], tick.done[2])
    /\ tick' = [tick EXCEPT
         !.at = IF At("recovering") THEN "recover" ELSE "reconcile", !.done = << >>]
    /\ UNCHANGED <<blocks, marked, rows, last, depositVars, leafVars>>

\* recover_gateway_state, one event: its job's row is made first, if need be.
RecoverJob ==
    /\ At("recover") /\ Unapplied # {} /\ NextUnapplied \notin DOMAIN jobs
    /\ JobRecovered(NextUnapplied, rows[NextUnapplied].n)
    /\ UNCHANGED <<indexVars, depositVars, leafVars>>

Recover ==
    /\ At("recover") /\ Unapplied # {} /\ NextUnapplied \in DOMAIN jobs
    /\ LET tx == NextUnapplied IN Apply(tx, rows[tx].n, rows[tx].id, "recovering")

Recovered ==
    /\ At("recover") /\ Unapplied = {}
    /\ Goto("reconcile")
    /\ UNCHANGED <<blocks, marked, rows, last, accountVars, depositVars,
                   leafVars>>

\* reconcile_jobs, one job: a polled transaction with a receipt.
Polled(tx) == jobs[tx].status \in {"submitted", "confirmed", "reorged"}

\* A success that is final is applied unless it has been.
ReconcileApplied(tx, n) ==
    /\ Succeeded(tx, n) /\ TransactionFinal(n)
    /\ jobs[tx].status # "reorged"
    /\ ~AlreadyApplied(tx)
    /\ Apply(tx, n, blocks[n], "reconciling")

ReconcileStatus(tx, n, status) ==
    /\ jobs[tx].status # status \/ jobs[tx].block # n
    /\ jobs' = [jobs EXCEPT ![tx].status = status, ![tx].block = n]
    /\ UNCHANGED <<account, history, actions, ready, nextJob, indexVars,
                   depositVars, leafVars>>

ReconcileReverted(tx, n) ==
    /\ ~Succeeded(tx, n) /\ TransactionFinal(n)
    /\ ReconcileStatus(tx, jobs[tx].block, "ethereum_reverted")

ReconcileIncluded(tx, n) ==
    /\ jobs[tx].status # "reorged"
    /\ TransactionFinal(n) => Succeeded(tx, n) /\ AlreadyApplied(tx)
    /\ ReconcileStatus(tx, n,
         IF TransactionFinal(n) THEN "confirmed" ELSE "submitted")

Reconcile ==
    /\ At("reconcile")
    /\ \E tx \in {t \in DOMAIN jobs : Polled(t)} :
         \E n \in Receipt(tx) :
            \/ ReconcileApplied(tx, n)
            \/ ReconcileReverted(tx, n)
            \/ ReconcileIncluded(tx, n)

\* The tick is done: the gateway takes settlements again.
EndTick ==
    /\ At("reconcile")
    /\ ready' = TRUE
    /\ tick' = Idle
    /\ UNCHANGED <<blocks, marked, rows, last, jobs, account, history, actions,
                   nextJob, depositVars, leafVars>>

\* Fault: the database is lost; the service starts on an empty one.
LoseDatabase ==
    /\ losses < MaxLosses
    /\ losses' = losses + 1 /\ cut' = {}
    /\ blocks' = << >> /\ marked' = 0 /\ rows' = << >> /\ last' = 0
    /\ tick' = Idle
    /\ jobs' = << >> /\ history' = << >> /\ actions' = << >>
    /\ account' = [state |-> << >>, nonce |-> 0] /\ ready' = FALSE
    /\ deposits' = << >> /\ leaves' = << >> /\ recovery' = {}
    /\ batch' = [b \in Batchers |-> NoBatch]
    /\ UNCHANGED <<chainVars, nextJob, archived>>

-----------------------------------------------------------------------------
Init ==
    /\ ChainInit /\ IndexInit /\ AccountInit /\ DepositInit /\ LeafInit
    /\ losses = 0 /\ cut = {}

TickStep ==
    \/ CheckTip \/ IndexBlock \/ OrphanedParent \/ RecoverJob \/ Recover
    \/ Recovered \/ Reconcile \/ Confirm \/ EndTick

IndexStep ==
    \/ BeginTick \/ FinishBlocks \/ IndexTransitions \/ IndexSettlements
    \/ IndexBatches \/ IndexClaims

ChainStep ==
    \/ MineDeposit \/ MineClaim \/ MineSent \/ Finalize \/ Reorg \/ FlipBack

LeafStep ==
    \/ ReadMissing \/ WriteMissing \/ RecoveryFails \/ ArchiveGrows

Confirmed == {tx \in DOMAIN jobs : jobs[tx].status = "confirmed"}

Tick ==
    \/ TickStep /\ cut' = cut \ Confirmed' /\ UNCHANGED <<chainVars, losses>>
    \/ IndexStep /\ UNCHANGED <<chainVars, accountVars, depositVars, leafVars,
                               losses, cut>>

TickEnds ==
    /\ TickFails
    /\ cut' = IF ~Finalized /\ tick.done # << >>
              THEN cut \union {tick.done[1]} ELSE cut
    /\ UNCHANGED <<chainVars, accountVars, depositVars, leafVars, losses>>

Chain ==
    /\ ChainStep
    /\ UNCHANGED <<indexVars, accountVars, depositVars, leafVars, losses, cut>>

Work ==
    \/ /\ QueueSettlement \/ JobFailed
       /\ UNCHANGED <<chainVars, indexVars, depositVars, leafVars, losses, cut>>
    \/ /\ JobSubmitted
       /\ UNCHANGED <<setup, chain, made, final, reorgs, fork, indexVars, depositVars,
                      leafVars, losses, cut>>

Batching(b) ==
    \/ /\ PinBatch(b) \/ LoadBatch(b)
       /\ UNCHANGED <<chainVars, indexVars, accountVars, leafVars, losses, cut>>
    \/ /\ QueueBatch(b)
       /\ UNCHANGED <<chainVars, indexVars, leafVars, losses, cut>>

Archive ==
    /\ LeafStep
    /\ UNCHANGED <<chainVars, indexVars, accountVars, depositVars, losses, cut>>

Next ==
    \/ Tick \/ TickEnds \/ Chain \/ Work \/ Archive \/ LoseDatabase
    \/ \E b \in Batchers : Batching(b)

Spec == Init /\ [][Next]_vars

\* A call that fails is made again by the next tick or round and does not fail
\* every time (SF); the loops run, transactions are mined and blocks become
\* final (WF).
Fairness ==
    /\ \A phase \in {"idle", "tip", "blocks", "transitions", "settlements",
                     "batches", "claims", "recover", "reconcile"} :
         SF_vars(At(phase) /\ Tick)
    /\ SF_vars(Tick /\ Confirm)
    /\ WF_vars("loop" \in Batchers /\ Batching("loop"))
    /\ WF_vars(Chain /\ (Finalize \/ MineSent))
    /\ WF_vars(Work /\ JobSubmitted)
    /\ WF_vars(Archive /\ ArchiveGrows)
    /\ SF_vars(Archive /\ ReadMissing) /\ SF_vars(Archive /\ WriteMissing)

FairSpec == Spec /\ Fairness

-----------------------------------------------------------------------------
(* Properties.                                                             *)

TypeOK ==
    /\ chain \in Seq(1..MaxBlocks) /\ blocks \in Seq(1..MaxBlocks)
    /\ final \in 0..Len(chain) /\ marked \in 0..Len(blocks)
    /\ last \in 0..MaxBlocks /\ tick.head \in 0..MaxBlocks
    /\ ready \in BOOLEAN /\ nextJob \in 1..(MaxJobs + 1)
    /\ DOMAIN history \subseteq DOMAIN jobs
    /\ DOMAIN deposits \subseteq 1..MaxDeposits
    /\ archived \in 0..MaxInner

\* The outer log that the gateway takes to be final.
FinalLog == Outer(SubSeq(blocks, 1, marked))

\* The virtual account never runs ahead of or away from the finalized outer
\* log, through rollbacks of applied state (apply_confirmed_*, rollback_after).
AccountIsFinalLog == IsPrefix(account.state, FinalLog)

\* An archive query returns every action of the account and no other, so the
\* sequencer never sees a gap in the log (graphql.rs actions).  Confirmation
\* mode rolls applied actions back and does lose them: see the README.
ActionsMatchAccount ==
    Finalized =>
      Served = {SubSeq(account.state, 1, k) : k \in 1..Len(account.state)}

\* What a sequencer builds on is final: the account, and the actions that an
\* archive query gives it for that account.
AccountIsTrue == AccountIsFinalLog /\ ActionsMatchAccount

\* The place of a witness in the finalized log, 0 when it has none.
Position(w) ==
    IF \E k \in DOMAIN FinalLog : FinalLog[k] = w
    THEN CHOOSE k \in DOMAIN FinalLog : FinalLog[k] = w ELSE 0

\* What get_native_deposit tells the depositor is so: a proven deposit is in
\* the finalized outer log as that depositor's, at the sequence the row has,
\* and a finalized settlement has reached a synchronized one, through rollbacks
\* and applications that are repeated.  A job whose tick ended between applying
\* and confirming it has no block in its row, and its deposits keep their marks
\* when that block is rolled back, which only confirmation mode does: see the
\* README.
DepositStatusTrue ==
    \A nonce \in Readable :
        LET row == deposits[nonce]
            at == Position(Witness(nonce, row.who)) IN
        /\ Progress(row) \in {"bridgeProven", "synchronized"} =>
             (at > 0 /\ row.seq = at) \/ row.job \in cut
        /\ Progress(row) = "synchronized" =>
             Synchronized(FinalLog) >= at \/ row.sync \in cut

\* The batches whose outcome is open.
OpenBatches == {tx \in DOMAIN jobs : tx.kind = "bridge" /\ ~Released(jobs[tx])}

\* A deposit is in at most one of them: none is proved, or paid for, twice.  In
\* finalized mode there is one at a time; in confirmation mode a rollback may
\* open a confirmed batch again beside its successor, with other deposits
\* (queue_canonical_deposit_batch, rollback_after).
OneBatchPerDeposit ==
    \A t, u \in OpenBatches : t # u =>
        /\ ~Finalized
        /\ \A w \in Range(t.actions), v \in Range(u.actions) : w.nonce # v.nonce

\* While the gateway's blocks agree with the chain, the explorer rows of the
\* indexed range are exactly the chain's events (index_explorer_events reads
\* by number what ensure_parent checks by hash).  That takes an endpoint which
\* does not go back to a fork it has left.
RowsMatchChain ==
    ~StaleProvider /\ last <= Len(blocks) /\ IsPrefix(SubSeq(blocks, 1, last), chain) =>
        \A n \in 1..last :
            {tx \in Live(rows) : rows[tx].n = n /\ rows[tx].id = chain[n]}
              = {EventAt(chain, n)} \intersect
                {ev \in Range(made) : ev.kind \in {"bridge", "settlement", "claim"}}

\* The next event to recover can be applied: otherwise every later tick stops
\* at it (the ensure! calls of apply_confirmed_bridge and advance_fee_payer).
\* Transactions that were pending when a database was lost can get there, see
\* the README; without a loss DepositsAreProven is the stronger statement.
RecoveryNeverWedged ==
    At("recover") /\ Unapplied # {} =>
        LET tx == NextUnapplied IN
        /\ ApplyFits(tx)
        /\ tx \in DOMAIN jobs \ DOMAIN history => AccountFits(tx, jobs[tx].nonce)

\* If there are leaves of a finalized settlement, they are its whole batch, so
\* that each action has a proof, and under its root, whichever of the two
\* writers stored them and however the chain moved in between
\* (store_inner_action_leaves, recover_batch, build_inner_action_batch_proof).
\* A settlement that was pending when a database was lost can break it: see the
\* README.
ServedBatchAccepted ==
    \A seq \in DOMAIN Commits(FinalLog) :
        LeavesAt(seq) # {} =>
            LET commit == Commits(FinalLog)[seq] IN
            /\ Provable(seq)
            /\ Leaf(seq, 0).root = [start |-> commit.start, count |-> commit.count]

\* docs/content/protocol/withdrawals.md:71: the gateway exposes claimable
\* leaves after Ethereum consensus finality.
ExposedAfterFinality ==
    \A key \in Live(leaves) : Provable(key[1]) => Settled(leaves[key])

FinalChain == SubSeq(chain, 1, final)

\* The operator does not stop asking for a batch: an assumption about a person,
\* where Fairness is about the code.
OperatorAsks == WF_vars("operator" \in Batchers /\ Batching("operator"))

\* All the jobs there may be have failed.
Exhausted ==
    nextJob > MaxJobs /\ \A tx \in DOMAIN jobs : jobs[tx].status = "failed"

\* Every deposit that is final is proved in the end, although a batch that
\* contains it may fail: the automatic loop leaves it and the operator's
\* request takes it over (queue_canonical_deposit_batch, allow_terminal_retry).
DepositsAreProven ==
    OperatorAsks =>
      \A nonce \in 1..Largest("maxDeposits") :
        "operator" \in Batchers /\ nonce \in DOMAIN Deposits(FinalChain) ~>
            \/ /\ nonce \in Readable
               /\ Progress(deposits[nonce]) \in {"bridgeProven", "synchronized"}
            \/ Exhausted

\* The leaves of every final settlement can be proved in the end, also after
\* the database was lost with the job that carried them.
BatchesAreServed ==
    \A seq \in 1..Largest("maxSettlements") :
        /\ seq \in DOMAIN Commits(Outer(FinalChain))
        /\ Commits(Outer(FinalChain))[seq].count > 0
        ~> Provable(seq)

=============================================================================
