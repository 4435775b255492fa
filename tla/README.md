# A TLA+ development for the Zeko Ethereum settlement repository

This directory models the parts of the repository that hold protocol state and
face concurrency, failure or two readers of the same bytes:

- the **contracts** on Ethereum (`contracts/src`) with the two **SP1 guests**
  whose public values they consume (`program/settlement`, `program/bridge`);
- the **gateway** (`api/src`) over PostgreSQL: the outer-writer reservation,
  the proof worker, the submission of transactions, the Ethereum indexer with
  its tables, the RPC transport, the explorer's lists and the withdrawal lists;
- the **encodings** they share (`lib/src/lib.rs`): receipts, the tree over
  inner actions, words and addresses.

`PROJECT.json` lists components, runs, mutants, hazards and theorems, and maps
each definition to the lines it models.

## 1. Inventory

| Component | State | Operations | Correct when |
| --- | --- | --- | --- |
| `ZekoSettlement` | outer state (8 fields), outer action state and length, checkpoints, inner batches, settled registry, vk hash, bridge role | `verifyAndUpdateRoot`, `appendOuterWitnessBatch`, setters | history only grows; checkpoints are prefixes; batches match the L2's inner log |
| `EthereumZekoBridge` | deposit accumulator, bridged nonce, liabilities, cursors, delay, pause, custody bindings | two deposits, `submitBridgeTransition`, two claims, pause, delay, emergency withdrawal, registry callbacks | deposits are bridged once, withdrawals paid once, escrow covers what is owed |
| `ZekoAssetRegistry` | proposals by token and index, identities, status | propose, cancel tail, activate (receipt or batch), set status | proposals dense; only settled records get custody; custody follows status |
| Guests | none | derive a receipt / a bridge transition | what they bind is what the contracts assume |
| Shared types (`lib.rs`, `ZekoAddress.sol`) | none | encode and decode receipts, hash and prove inner actions, parse and print words and addresses | every reader accepts the same bytes and reads the same values |
| Outer writer (`outer_writer.rs`) | one row: reservation, fencing token, lease, checkpoint, job | acquire, renew, release, attach | one writer; its checkpoint stays true |
| Worker and submission (`main.rs`, `submission.rs`) | job rows: status, attempts, intent, request id, proof, signed bytes, hash | elect, recover, claim, preflight, approve, request, wait, sign, broadcast, fail, cancel | one purchase and one transaction per job; nothing signed is given up; jobs end |
| Indexer (`indexer.rs`) | blocks, finality marks, deposits, actions, leaves, explorer rows, virtual account and its snapshots, readiness flag | index, roll back, recover, reconcile, by one replica or several | tables, outcomes and account are those of the chain |
| Deposit batches (`main.rs`) | `bridge_job_id` of the deposit rows | pin a block, load the finalized range, queue under the writer lock | no deposit is in two open batches; each is proved in the end |
| Withdrawal activity (`withdrawal_activity.rs`) | leaf rows | rebuild the leaves of settled batches from the Zeko archive | a served batch is the whole accepted one; each is served in the end |
| Withdrawal reads (`main.rs`) | none | list, prove and classify a recipient's withdrawals | what is called claimable is paid; a client that follows the list forfeits nothing that the list had in time |
| Explorer (`explorer.rs`) | none | five lists with filters, limits and cursors | a walk sees each lasting row exactly once |
| RPC transport (`rpc.rs`) | permits, pacing deadline, cool-downs | call, retry, back off, time out | permits and rate are kept; a signed transaction is posted once; calls return |
| Facade (`graphql.rs`) | pool rows | `sendZkapp`, `actions` | a command is pooled while it is open; queries return the account's actions |
| UIs, snap, scripts, Pickles verifier, vendored code | none of their own, or not this protocol's | | not modelled (section 8) |

**Interaction.** Sequencers obtain a reservation and hand settlements to the
facade; the deposit loop attaches bridge batches. Either becomes a row of
`proof_jobs`. The worker of the elected replica carries it through proving to a
signed Ethereum transaction. The contracts accept it or revert. The indexer
reads the chain back, applies finalized receipts to the virtual account the
sequencer sees, and closes the job, which frees the writer. The archive loop
fills in leaves the indexer cannot derive. The bridge calls the settlement
contract for each Witness action; the registry runs inside the bridge's storage
and reads the settlement contract. Every call to Ethereum goes through the
transport.

**Hard behaviours.** Stale and competing proofs on one outer log; deposits
between proof and submission; cancel-and-replace of proposals while receipts
are in flight; replicas that lost their session but still run; service calls
that fail after taking effect; crashes between two statements; leases that
expire under their holder; reorgs below, at and above submitted work; an
endpoint that answers from another fork; a lost database; two indexers; a
client that pages or claims while rows change. The hazards in `PROJECT.json`
give the lines.

Hazards the code has and no property covers: native emergency withdrawals have
no liability check, so ETH custody may fall below its liability until refilled
(`EthereumZekoBridge.sol:411`, intended); a submitted transaction that the
network forgets is never rebroadcast (`indexer.rs:1088`); a conflict with a
finalized block stops the indexer for good (`indexer.rs:283`, by design);
deposits that keep coming faster than a proof is made let no batch land
(`main.rs:876`); one archive action that does not parse ends the recovery round
for every later settlement (`withdrawal_activity.rs:460`); a settlement changes
from an event row to a recovered job under a paging client (`explorer.rs:470`).

## 2. Modules

```
ProofPrograms <- ZekoSettlement <- EthereumZekoBridge <- ZekoAssetRegistry
              <- ZekoContracts <- LedgerRefinement <- MCContracts
LedgerRefinement INSTANCE EscrowLedger                    (refinement)
ZekoContracts <- ContractsProofs <- LedgerProofs         (proofs; LogLemmas)

EthereumChain <- OuterWriter <- ProofWorker <- GatewayIndexer
              <- ProofGateway <- MCGateway, MCWriter
ProofGateway <- GatewayProofs                             (proofs; LogLemmas)

LogChain <- EventIndex <- VirtualAccount <- DepositTable <- LeafTable
         <- GatewayTables <- MCTables, TablesProofs       (proofs; LogLemmas)
IndexerReplicas <- MCReplicas, ReplicaProofs              (proofs; LogLemmas)

RpcTransport <- MCRpc, RpcProofs                          (proofs)

ExplorerPages, WithdrawalClaims <- GatewayClients
               <- MCClients, ClientProofs                 (proofs; LogLemmas)
PublicValues, InnerActionTree, WordCodec <- Codecs <- MCCodecs
```

An arrow reads "is extended by". Each file extends the one whose state its
operations also change; the last of each line composes them into `Next`.

**Instances chosen in `Init`.** Some questions need several small instances and
not one large one. `Setups` (`LogChain`), `Deployments` (`IndexerReplicas`),
`Clienteles` (`WithdrawalClaims`) and `Loads` (`MCWriter`) are sets of
instances; a variable that never changes holds the one a behaviour is about.
`GatewayClients` and `Codecs` choose in the same way which of their
independent parts a behaviour exercises.

### Contracts

A hash or accumulator is represented by the sequence it commits to, which is
what collision resistance gives; `actionState` is the outer log itself,
`stateAfter[3]` the inner log, `assetRegistryRoot` the records. A Keccak root
over leaves is the sequence of leaves. Amounts keep the 10^9 unit conversion
(`Gwei`) and the `uint64`/`uint32` limits (`MaxUint64`, `MaxUint32`) as
constants. `claims` and `balance` are history and ERC-20 state.

The **environment** of `ZekoContracts` decides what makes the checks mean
something. `Settle` offers the contract every receipt a guest can produce: on
any past outer state, any prefix of the outer log as source, any prefix or an
orphaned deposit as the synchronized state, any slot range, and any host-chosen
sequence number, length and bridge address the guest does not bind.
`BridgeDeposits` does the same for transitions. So the contract's own
comparisons, and not the model's, keep bad proofs out. The L2 is one
assumption, `L2Sound`: the circuits never pay out more of an asset than the
deposits in the log they consumed.

**Refinement.** `EscrowLedger` is what the three contracts promise together:
deposits are recorded, each is credited once and in order, withdrawals are
requested against what was credited, and each is paid once, to the recipient
and in the asset that was requested. `LedgerRefinement` maps the deposit
accumulator, the bridged nonce, the inner log and the claims to it;
`ImplementsLedger` says that every step is a step of the ledger or none.

### Gateway core

A job row has the columns of `proof_jobs` that decide control. Intents,
request ids, signed bytes and hashes are named by the attempt that made them,
0 for NULL, so that two signings would be two transactions. The chain has one
outer transaction per block; `OuterState` of a prefix is what the contract
accepted in it, and stands for the settlement contract's state. A transaction
succeeds only on the state its proof starts from, and may revert even then.

One action is one database transaction, one statement outside a transaction,
or one service call. A step of `process_job` may find that its `WHERE` clause
no longer matches (`Fenced`) or that a service failed (`ServiceFails`, in both
error classes); both lead to `record_failure`. `Elect`, `LoseSession`,
`Demote` and `Crash` are the session-level advisory lock: a replica that lost
it works on until it notices. `RequestProof` and `Broadcast` may fail before
or after they take effect. In the indexer, applying a receipt and writing the
status are two steps, as in the code; `AbortTick` is an RPC error or crash
between any two steps.

Abstractions a reader of the code should know:

- `ProofGateway` is about finalized mode and one indexer; confirmation mode is
  in `GatewayTables`, several indexers are in `IndexerReplicas`. Execute-only
  and local-mock modes are left out.
- A reservation id and its fencing token are drawn together and are one number.
  A lease is live or expired; renewing a live one changes nothing. The
  checkpoint an owner reads before the lock is any finalized one.
- Back-off times are left out: a retry may happen at once or late.
- `validate_preflight` is the comparison of the proof's starting state with
  the chain's; slot lifetimes fail as `ServiceFails` does.
- `reconcile_jobs` selects its rows at the start of the pass; the model reads
  each row when it comes to it. No other actor moves a submitted, confirmed or
  reorged row, so the difference is only a job submitted during the pass.

### Gateway tables

`GatewayTables` has the rows the core leaves out: blocks, deposits, actions,
leaves, explorer events, jobs with the account and its snapshots. `LogChain` is
a chain of one event per block that can be reorganized above finality, and an
endpoint that may answer from the fork it just left. A tick reads the head,
walks to the common ancestor, rolls back, indexes blocks and then events,
recovers and reconciles, and may fail between any two of these. Applying a
receipt (`Apply`: account, snapshot, actions, deposits and leaves in one
transaction) and confirming its job (`Confirm`, a statement of its own) are two
steps, and for an event without a job recovery makes the job's row before both
(`RecoverJob`); `tick.done` is what the tick carries from the first to the
second. `cut` is history, for item 12 of section 6. The walk to the
ancestor and the rollback are one step each (one database transaction), and the
1000-block ranges of the event scan are one range. Proving is one step here:
the core has its detail. `IndexerReplicas` splits the same tick at each read
and write, for several replicas, with one settlement job whose sending is one
step.

### Transport

`RpcTransport` is one call of each caller as it acquires a permit, is paced,
posts, is answered, retries and returns, while the operation time-out can drop
it anywhere. Time is a counter of deadlines relative to now. The shared state
is the semaphore and the pacing deadline that cool-downs push away.

### Clients

`ExplorerPages` walks one list with any filter and limits while the tables
change. Keys are distinct: a block has one transaction
(`docs/content/explorer.md:21`) and an instant one settlement. The cursors carry
only the first sort column, so rows that share it could be split by a page
boundary; that case is left out. `WithdrawalClaims` follows the gateway's reads one by one
(rows, slot, delay, cursor), with claims and changes of the delay in between.
A client claims the first row that is not processed. The bridge does not look
at the sender and takes any index from the cursor on, so strangers claim what
they like (`StrangerClaims`); `passed` remembers what they forfeit. Leaves have
two writers, the indexer (`StoreApplied`, which needs the job) and the archive
loop (`RecoverBatch`), each in canonical order and neither waiting for the
other; a clientele's `lost` settlements have no job, so that the indexer may
store a later batch before the loop has stored an earlier one. An index is
`Overtaken` when that has happened to it.

### Encodings

`PublicValues` has the real widths and offsets; a byte is the field it belongs
to and its position, so a shifted or swapped read shows. `InnerActionTree` is
the algorithm that `ProofPrograms!MerkleIncludes` stands for; a digest is the
tuple that was hashed, and hints of token identities are always supplied.
`WordCodec` keeps the digit-by-digit algorithms with small bases and widths;
SHA-256 is external and any function of the bytes.

## 3. Runs

| Run | Instance | Checks |
| --- | --- | --- |
| `native` | 2 recipients, native asset, 2 deposits, V1 and V2 receipts, 2 delays | `CheckpointsArePrefixes`, `DepositsBridgedOnce`, `BatchesMatchInnerLog`, `ClaimedOnce`, `WithdrawalsCovered`, `HistoryOnlyGrows`, `DelayRunsFromAcceptance` |
| `token` | one ERC-20 from proposal to claim, 2 recipients, fee on transfer, donation, cap, pause, emergency | `TypeOK`, `ClaimsMatchInnerLog`, `EscrowBacked`, `ImplementsLedger` |
| `registry` | 2 tokens and identities, V3 and V4 receipts, 2 verification keys, 2 bridges | `RegistryConsistent` (proposals dense, custody follows status), `ActivatedRecordsSettled` |
| `workers` | 1 job, 2 replicas (symmetric), approval on, 3 faults | `OnePurchase`, `OneTransaction`, `NothingSignedIsDropped` |
| `writer` | deposit loop, 2 jobs, 3 reservations; 2 sequencers and 1 fault, or 1 sequencer and 2 faults | `SingleWriter`, `CheckpointHeld`, `PendingKept`, `RecordsAreFinal` (outcomes and account) |
| `liveness` | 2 jobs, 1 fault, lossless network, fair | `EveryJobEnds` |
| `rpc` | 2 callers, 1 permit, 2 retries, time-out 3, fair | `PermitsConserved`, `PostedAtMost`, `EveryCallReturns` |
| `tables` | 1 reorganization each: 2 deposits with loop and operator; a batch and a settlement, or 2 deposits, in confirmation mode; 2 settlements with a stale endpoint; a settlement with 2 inner actions and the archive loop | `OneBatchPerDeposit`, `AccountIsTrue` (the account and its actions), `DepositStatusTrue`, `RowsMatchChain`, `ServedBatchAccepted` |
| `tables_live` | a deposit whose batches may fail; a settlement and a lost database; fair | `DepositsAreProven`, `BatchesAreServed` |
| `clients` | 5 lists, 4 keys, limits 0 to above the maximum; 1 recipient, 3 assets, 2 tabs or a gateway without the first job, 2 batches, 2 delays, claims of strangers; fair | `WalkIsExact` (every lasting row, none twice), `ClaimableIsAccepted`, `EveryWithdrawalIsPaid` |
| `replicas` | 2 indexers with 1 reorganization, or 1 with 2 | `OutcomesAreFinal`, `NothingIsLost` (the job, final blocks) |
| `codecs` | 5 kinds of receipts with up to 2 actions; trees of depth 3 with up to 5 leaves; words of two bytes | `ReceiptsAgree`, `OnlyCommittedClaims`, `ProofsAgree`, `TextsAgree` |

All of them hold. Where a run names a conjunction, its parts are definitions of
their own in the same module, each with its comment. Some properties are
stated for the case in which the code keeps them, and section 6 says what
happens otherwise: in `AccountIsTrue`, that queries return the account's
actions is about finalized mode; `RowsMatchChain` is about an endpoint that
does not go back to a fork it left; `NothingIsLost` is about one indexer;
`DepositStatusTrue` excepts, in confirmation mode, a deposit whose job was
applied by a tick that ended before confirming it, until it is confirmed;
`ClaimableIsAccepted` and `EveryWithdrawalIsPaid` except withdrawals that a
stranger's claim or a late leaf has forfeited; `DepositsAreProven` ends when
every job there may be has failed (`Exhausted`).
`OneBatchPerDeposit` says more of finalized mode than of confirmation mode:
there a rollback may set a confirmed batch back to pending when a later batch is
already queued, and what holds is that the two share no deposit.
`TypeOK` of `ProofGateway`, `GatewayTables` and `IndexerReplicas` documents the
rows of those modules.

**Bounds.** Every cap is a constant of the `.cfg` or a field of an instance.
Two settlements after an initial state give a stale, a current and a next
receipt; two deposits give an overlapping and a contiguous range; two
recipients and two batches give cursors something to skip; two tokens and two
identities give cancel and replace. In the gateway, two jobs are a predecessor
and a successor, three reservations let one lapse between them, and two or
three faults allow a crash during the recovery from another one. Three to five
blocks hold a deposit, its batch, a settlement and their replacement after a
reorganization. Two retries are a first, a middle and a last attempt. Four keys
with pages of at most two give a first, a middle and a last page while one row
vanishes. Five of eight leaves leave an odd level at every height. Attempts and
reservations are bounded only through jobs and faults, not directly. Deadlock
checking is off where the instance simply runs out of deposits, settlements,
jobs or blocks.

**Mutants.** Each property has a mutated definition beside the code it models
(marked as a fault) that violates it under the same configuration.

## 4. Fairness

Nothing is assumed of clients that submit work, of admins, of the sequencer or
of faults, which are finite in every instance.

- `ProofGateway`: weak fairness of each worker's next step and of the drop of a
  worker without its lock (`worker_loop` retries for ever, every 5 s), of the
  indexer's next step (`run` ticks for ever), of mining and of finality; strong
  fairness of reconciling each row, since a pass looks at every selected row.
  `LossyNetwork` is off in this run: a submitted transaction that the network
  drops is never sent again by the code, so its job does hold the writer until
  an operator resends the saved bytes. A proof request whose answer was lost
  also waits for the operator, by design (`Ambiguous`).
- `GatewayTables`: strong fairness of each phase of a tick (a failed tick starts
  again and reaches the phase again), of confirming what was applied and of the
  archive round; weak fairness of the batching loop, of mining, finality,
  submission and of the archive's growth. That an operator keeps asking for a
  batch is not the code's doing: it is the hypothesis `OperatorAsks` of
  `DepositsAreProven`, and without it a deposit whose batch failed stays.
- `GatewayClients`: slots pass, the indexer and the archive loop store what they
  find settled, and each claiming client goes on. Nothing is assumed of
  strangers or of a client that walks a list.
- `RpcTransport`: time passes, a call that can take a step takes it, and the
  operation time-out fires. Nothing is assumed of the provider.

## 5. Proofs

TLAPS checks the following for all values of the constants that satisfy the
named assumptions. Every invariant has one lemma per action that can disturb
it; an action that cannot is covered by a frame lemma.

**Contracts.** One inductive invariant, `ContractsInv` (`LedgerProofs`), built
in layers, each inductive given the ones before it:

- `TypeInv` (`ContractsProofs`, theorem `TypeCorrect`: `TypeOK`). Types alone
  are not inductive: that a subtraction in a claim stays a natural number needs
  `Accounts`, which relates `totalDepositedByToken` to the liabilities.
- `CheckpointsArePrefixes` (`ContractsProofs`, `CheckpointsCorrect`). The two
  actions that append to the outer log store the new log as a checkpoint and
  keep the old ones, which are prefixes of the longer log.
- `DepositInv` (`ContractsProofs`, `DepositsCorrect`: `DepositsBridgedOnce`).
  The property does not say why the range a proof names is the right one;
  `DepositChain` does: the stored accumulators are exactly those of nonces
  `0..depositNonce`, each the prefix of that length, so the state check at a
  nonce identifies the deposits before it.
- `BatchInv` (`ContractsProofs`, `BatchesCorrect`: `BatchesMatchInnerLog`)
  adds that a batch has the number of a past settlement, that its leaves carry
  their global index, and that its inner state was accepted with it.
- `ClaimInv` (`ContractsProofs`, `ClaimsCorrect`: `ClaimsMatchInnerLog`, and
  `PaidOnce`: `ClaimedOnce`). A claim has no nullifier, only a cursor per token
  and recipient. `CursorsPastClaims` says the cursor has passed whatever was
  claimed for them, and since a leaf is the inner action at its index, an index
  has one token and one recipient: two claims of one index would meet at one
  cursor.
- `LiabilityExact` and `WithdrawnCovered` (`LedgerProofs`, `LiabilityCorrect`,
  and `Solvent`: `WithdrawalsCovered`). What can still be claimed is a sum over
  batches and offsets, the liability a number in storage. Deposits of an asset
  equal its liability plus what was paid for it; the L2 has withdrawn no more
  than was bridged. A claimable leaf is an inner action that is not paid yet,
  no two leaves are the same action (`UnclaimedApart`), so their sum is at most
  withdrawn less paid, which the liability covers.

Beside these, in `ContractsProofs`: `DelayCorrect` (`DelayRunsFromAcceptance`),
`CustodyCorrect` (`EscrowBacked`) and `HistoryKept` (`HistoryOnlyGrows`, which
needs `RegistryCounted`: the counter a receipt is compared with counts the
registry); `RegistryCorrect` (`RegistryConsistent`, strengthened by
`ListedTokens`: a listed token is in the index table and its L2 identity is
taken) and `ActivationsCorrect` (`ActivatedRecordsSettled`, with `SettledInv`:
every settled hash and every leaf of a record tree is that of the settled record
at its own index).

`LedgerImplemented` is the refinement `Spec => ImplementsLedger`: the initial
states map to initial states of `EscrowLedger`, and under `ContractsInv` a
deposit, a bridge transition, a settlement and a claim map to `Deposit`,
`Credit`, `Request` and `Pay` (`DepositRefines` and so on), every other step to
a stutter.

Sums over logs are `SumFunction` of the community modules, a fold over sets. No
induction principle can be instantiated in the provers; `LogLemmas` shows what
the sum computes from a smallest set for which a claim would fail, and derives
from it that a sum splits, scales, grows with its set and is carried by an
injection.

**Gateway core** (`GatewayProofs`), for any number of replicas, sequencers,
jobs and faults. `GatewayInv` has `TypeOK` and:

- `BusyInv`, `OutcomeInv`, `IndexedInv`: whatever job a worker, the indexer or
  an indexed block names is a row of `proof_jobs`;
- `TransactionInv` and `SignedInv`: a transaction in the mempool, in a block or
  in the hands of a worker about to broadcast is the one its job has saved, and
  a job that has saved one is not in a status that gives it up;
- `PurchaseInv`: a worker about to pay holds the job's sealed intent, nothing
  was paid for the job before, and no other worker is about to pay for it.

The lease plays no part in the argument: a worker that lost it may still act.
What protects is what the rows say, so every action is summarised by
`JobsFollow`, what it may do to a row: an intent once drawn and bytes once
saved stay, and a row with saved bytes is not given up. The theorems are
`TypeCorrect` (`TypeOK`), `PaidForOnce` (`OnePurchase`), `SentOnce`
(`OneTransaction`) and `SignedIsKept` (`NothingSignedIsDropped`).

**The outer writer** (also `GatewayProofs`), on top of `GatewayInv`: `OneWriter`
(`SingleWriter`), `TurnHolds` (`CheckpointHeld`), `CommandKept` (`PendingKept`)
and `RecordedIsFinal` (`RecordsAreFinal`). None of the four is inductive, and
none can be had without the others: whether a job may still move the account
depends on the writer row, whether the row may be taken on the status of the
job, and the status on what the chain has finalized. `TurnsInv` has them all:

- `ChainInv`, `PoolInv`: a transaction is mined once, and the contract accepted
  it on the state its proof starts from;
- `OutcomesInv`: heights marked final are final, receipts are applied from them
  and only from accepted transactions of the job; a confirmed or reorged job has
  been applied, a reverted one has a reverted final transaction; the status that
  the indexer decided on before its second database transaction is still right
  when it is written (`PlanInv`); the account is that of a finalized prefix;
- `TurnInv`: a job on its way has the writer row, no live lease stands beside
  it, and until its receipt is applied it finds the state it builds on and its
  command in the pool;
- `HolderInv`: two workers never have the same attempt of a job, and the one
  that has the current attempt finds the job in a status a worker leaves it in.
  So a worker that was overtaken cannot put a finished job back on its way.

`OuterState` of a prefix is a recursive function; `AcceptsExists` and
`AcceptsAgree` show, from a smallest counterexample, that there is such a
function and that it depends on the prefix alone. That an accepted transaction
starts from the state of the blocks below it and a job's own receipt moves the
account to the state above is what makes turns exclusive.

**Gateway tables** (`TablesProofs`), for any setup. `RowsCorrect`
(`RowsMatchChain`) rests on `IndexInv`:

- `ForkInv`: the chain, the fork it left and the indexed blocks agree below any
  hash they share, and no transaction is in two blocks of one chain;
- `RowsInv`: a row is the event of the block it names, whether or not that block
  is still canonical;
- `CompleteInv`: every block that was read and is still in the chain has its
  rows. How far "read" goes depends on the kind of event and the phase of the
  tick (`Through`), since a tick that fails between two kinds has stored one and
  not the other.

The property alone is not inductive: it says nothing of a range that does not
agree with the chain, and a reorganization can bring the agreement back.

`BatchesApart` (`OneBatchPerDeposit` in finalized mode) adds `FinalInv`, that
blocks marked final are the chain's final ones, and `JobsInv`, that a confirmed
job and an applied transaction are in a block marked final; `DoneInv` says the
same of the transaction that a tick has applied and not yet confirmed. Such a block is
never rolled back, so no confirmed batch is opened again beside its successor;
a failed or reverted one stays so, and a batch is queued only when all others
are over.

`AccountCorrect` (`AccountIsTrue` in finalized mode) adds `LogsInv`: every
accepted transaction was made on the log of the blocks below it (`BasedInv`);
the account is the log of a prefix of the marked blocks, its transactions those
of that prefix without a gap, and every job builds on a prefix of the account
(`AccountInv`); the stored actions are those of the applied transactions
(`ActionsInv`). A transaction that is applied is the next one: the job it
belongs to builds on a prefix of the account, or recovery takes the oldest
unapplied transaction and `CompleteInv` says that none below is missing. The log
of a prefix of the chain is a fold; `FlatGrows` and `LogGrows` give its steps.
The theorem has a condition, `Reliable`: the endpoint never answers from a fork
it left, or no database is lost. A stale answer can leave out a row, and after a
lost database only rows tell which transactions there were, so the argument that
none is missing does not go through. Whether the property fails then is open;
TLC finds no violation with 3 blocks, 2 settlements, 1 reorganization and 1 lost
database.

**Clients** (`ClientProofs`). `ClaimableCorrect` (`ClaimableIsAccepted`) is for
any number of clients of a recipient, any claims of strangers and any lost
jobs. `ClaimsInv` says that later actions are of later settlements (`OrderInv`),
that what the bridge has passed over is paid or forfeited (`PaidInv`), that what
a client has left behind is processed and the page it looks at has no gap, but
for overtaken leaves (`PageInv`), and that what it was told holds since the list
was read (`ReportInv`). A claim takes the first open row of its page, so every
earlier withdrawal of the account is paid, forfeited by a stranger or overtaken:
the clients forfeit nothing of their own (`ClaimStep`). A leaf that a page lacks
below one of its rows is of an earlier settlement, which is not stored while a
later one is (`PageIsGapless`), and once overtaken it stays so.
`WalkCorrect` (`WalkIsExact`) is for any rows, limits and filters. `PagesInv`
says that what was shown is not behind the cursor, and that a row which stayed
is shown or behind it. A page is the rows down to the key of its last one
(`PageShows`); a change under the client leaves the keys of the rows that stay,
and a settlement that is indexed again is newer than the cursor (`Steady`).

**Indexers on one database** (`ReplicaProofs`). `OutcomesCorrect`
(`OutcomesAreFinal`) holds for any number of replicas: `ReplicaInv` says that a
finalized height, once read, and an outcome that an indexer is about to write
stay true of the chain whatever the others do, because only what is final is
read into them; the heights marked final are at most the chain's. `TypeCorrect`
(`TypeOK`) is part of it. `AloneLosesNothing` (`NothingIsLost`) is about one
indexer. The property speaks of marked heights only; `AloneInv` adds that the
rows have no gap, that each is the parent of the next, that the cursor is one
above the highest row, and that the block in hand is the child of that row. So
when the head agrees with the chain, every row below it does (`AgreeBelow`),
and what is marked final is true. With two indexers its parts fail, as items
9 and 10 of section 6 describe.

**Transport** (`RpcProofs`): `TypeCorrect`, `PermitsAreConserved`,
`RateIsHeld`, `PostsAreBounded`, `PermanentIsAnswered` and the action property
`CooldownIsShared`, for any number of callers, permits and retries and any
time-outs and hints. The proofs about permits count the calls that hold one, so
their lemmas are about the cardinality of that set. The types, the rate, the
cool-down and the meaning of a permanent error rest on their proofs alone; the
run has the properties the other theorems state, and liveness.

**Assumptions.** The proofs about the contracts use `GuestAssumption`,
`SettlementAssumption` and `ContractsAssumption`; those about the gateway
`ChainAssumption` and `WriterAssumption`; those about the indexers
`ReplicasAssumption` (finitely many of them); those about the transport
`RpcAssumption`; those about the tables
`SetupsAssumption`; those about clients `ClaimsAssumption` and `PagesAssumption`. `L2Sound` is a guard of `Settle`; only `WithdrawnCovered`,
and with it `Solvent`, `LiabilityCorrect` and `LedgerImplemented`, depends on
it. No proof depends on a `Max...` bound being small.

**Only model-checked:**

- of `GatewayTables`: `DepositStatusTrue`, whose invariant has to relate every
  deposit row to the place of its witness in the contract's log across
  rollbacks, and `ServedBatchAccepted`, which needs the two writers of the
  leaves and no lost database (section 6, item 11); both are left for later
  (section 7). `OneBatchPerDeposit` and the account in confirmation mode;
- the properties of the encodings, which compare recursive conversions with a
  reference over bounded inputs;
- liveness and everything that rests on fairness.

## 6. Where code and documents differ

Each of these was met while modelling. The property is in the module named; it
is violated in the instance given.

To reproduce one, make it an invariant (or property) of the named instance,
without the condition if it has one.

1. `NoTerminalPoolRow` (`ProofGateway`, as in `writer`).
   `apply_confirmed_settlement` deletes the pool row and commits
   (`api/src/indexer.rs:1299`); the job's status follows in a statement of its
   own (`:965`, `:1173`). A replay of `sendZkapp` between the two still sees a
   submitted job and inserts the row again, and nothing deletes it later.
   `graphql.rs:242`: "An idempotent replay of a terminal job must not resurrect
   its pool row."
2. `SubmittedStays` (`ProofGateway`, as in `writer`). `rollback_after` sets a job
   whose block was orphaned back to `approved` or `queued` and clears its
   transaction hash (`indexer.rs:477`); the worker broadcasts the saved bytes
   again. `docs/content/gateway/proving.md:119`: "If the transaction is reorged
   before finality, the job stays submitted."
3. `OnlyLaterWorkInvalidated` (`ProofGateway`, as in `writer`). When an orphaned
   settlement is retried, every other settlement in a listed status becomes
   `reorged`, whatever its block (`indexer.rs:461`), one confirmed in a finalized
   block too, until a later tick confirms it again. `indexer.rs:306`: "Preserve
   its paid proof request and invalidate dependent/later work".
4. `ActionsMatchAccount` in confirmation mode (`GatewayTables`, as in `tables`).
   A Commit action whose transaction is included again after a reorganization
   keeps the number and hash of its orphaned block (`indexer.rs:1287`), so
   archive queries, which join on the canonical block, no longer return it;
   bridge actions update both columns (`:1431-1446`).
   `docs/content/architecture.md:74`: "the indexer restores the prior account and
   action view".
5. `RecoveryNeverWedged` after a lost database (`GatewayTables`, `RetriedDeposit`
   of `tables_live` with one loss). Its deposits are batched again under a
   new job; when the first transaction lands, `apply_confirmed_bridge` demands
   deposits of no job or of the recovered one (`indexer.rs:1378`) and fails in
   every later tick. `docs/content/status.md:27`: "A fresh gateway database
   rebuilds deposits, accepted bridge transitions, settlements, claims" and "it
   does not require the original local proof jobs".
6. `RowsMatchChain` with an endpoint that returns to a fork it left
   (`GatewayTables`, as in `tables`). Explorer events are read by block number
   (`indexer.rs:672`) after blocks were indexed by hash; an answer from another
   fork in between leaves the explorer tables without the canonical events.
   `ethereum.rs:683` says of deposits: "A number-based query could silently read
   a replacement block."
7. `ExposedAfterFinality` (`GatewayTables`, as in `tables`). The archive loop
   stores leaves for every settlement event that is not removed, final or not
   (`withdrawal_activity.rs:418`), and the withdrawal endpoints serve them.
   `docs/content/protocol/withdrawals.md:71`: "After Ethereum consensus finality,
   the gateway exposes claimable leaves".
8. `SettlementListedOnce` (`ExplorerPages`, as in `clients`). `list_settlements`
   hides an event only behind a job with its `transaction_hash`
   (`explorer.rs:510`), which a rollback sets to NULL; once the transaction is
   included again, and until the job is sent again, both are listed.
   `docs/content/explorer.md:66`: "Public proof progress merged with canonical
   Ethereum events."
9. `JobIsFollowed` with two indexers (`IndexerReplicas`, as in `replicas`). The
   status statement of `reconcile_jobs` has only the id in its `WHERE` clause
   (`indexer.rs:1178`). After another replica's rollback in between, the job is
   submitted without a hash: no worker claims it, `reconcile_jobs` skips it, and
   it keeps the outer writer unless its transaction is included again.
   `docs/content/architecture.md:74`: the indexer "requeues the existing paid
   proof request".
10. `FinalBlocksTrue` with two indexers (`IndexerReplicas`, as in `replicas`). A
    replica that read the head before another indexed a newer block takes that
    block for one of a regressed head and rolls it back with its deposits
    (`indexer.rs:104`). If the other one has already compared the next block's
    parent, it inserts that block above the gap, and the gap is never indexed.
    `indexer.rs:547`: a failed read "must not skip this block".
11. `ServedBatchAccepted` after a lost database (`GatewayTables`, the archive
    setup of `tables` with one loss and two jobs). `recover_settled_inner_actions`
    selects the live settlement rows (`withdrawal_activity.rs:413`) and
    `recover_batch` writes their leaves later without looking again whether the
    row is still live. A settlement that was pending at the loss can be mined,
    read by the loop and orphaned, while another one takes its sequence number
    and becomes final: the leaves stored then are the orphaned one's.
    `docs/content/operations/recovery.md:43`: "writes them only when the complete
    root equals the accepted Ethereum root".

12. `DepositStatusTrue` without its exception (`GatewayTables`, the
    confirmation setups of `tables`). `apply_confirmed_bridge` commits the
    deposits' `outer_action_sequence`; the job's `submitted_block_number` follows
    in a statement of its own (`indexer.rs:964`, `:1172`). A tick that ends
    between the two leaves the number NULL. If the block is then orphaned,
    `rollback_after` restores the account but selects the deposits by
    `jobs.submitted_block_number > $1` (`:405-424`), which NULL does not satisfy:
    the deposit still reads `bridgeProven` although no canonical block has its
    transaction, until the transaction is included and confirmed again; if it
    reverts there, for good. The comment at `:864`, "If a restart interrupts that
    boundary, replay the idempotent application and finish confirming the job",
    covers the restart without the reorganization. In finalized mode, which is
    the default, no applied block is rolled back and the property has no
    exception.
13. Claims by strangers: no difference, but what a client is told means less than
    it seems. `ClaimableIsAccepted` and `EveryWithdrawalIsPaid` without
    `Forfeited` fail (`WithdrawalClaims`, as in `clients`): anyone may claim a
    later withdrawal for its recipient, and the earlier ones, reported
    `claimable` until then, are reported `processed` from then on though they
    were never paid. `docs/content/protocol/withdrawals.md:99-104` says so:
    "Claims are permissionless" and skipping "makes any earlier withdrawal for
    that recipient unclaimable". The same happens without a stranger after a
    lost database: a list that has a later batch and not yet an earlier one
    leads its own client past the earlier one (`Overtaken`).

`SingleWriter` takes item 3 into account: a settlement finalized on chain
counts as over while its row says `reorged`.

## 7. Plan

Done: the contracts with their guests and the ledger they implement, the
gateway core, its tables, several indexers, the transport, the lists and
claims, the encodings; the theorems of section 5.

Next, in this order:

1. Proofs of `DepositStatusTrue` in finalized mode, and of `ServedBatchAccepted` without a lost
   database, from the invariant of `AccountCorrect`.
2. An abstract single-writer register that the gateway core implements.
3. The bridge UI's tracking of transactions.

## 8. Not modelled

Pickles verification, Poseidon and Keccak (cryptography, taken as external);
ABI encoding of calls; roles, proxies and reentrancy guards; the explorer's
detail pages, search and statistics, configuration and job views (single
reads); execute-only and local-mock modes; contract preflight calls; host
scripts, user interfaces, wallet snap, tools and deployment; vendored code.
