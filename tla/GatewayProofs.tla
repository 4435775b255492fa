--------------------------- MODULE GatewayProofs ----------------------------
(***************************************************************************)
(* The gateway core for any number of replicas, sequencers, jobs and       *)
(* faults: every variable keeps its type, no proof is paid for twice, a    *)
(* job has one transaction, and a job that may have one is not given up.   *)
(* Who may write the outer account: one job at a time is open, it builds   *)
(* on the state the gateway has, its command stays in the pool, and what   *)
(* the database records of the chain is final.                             *)
(***************************************************************************)
EXTENDS ProofGateway, LogLemmas

-----------------------------------------------------------------------------
(* What a step may do to a row of proof_jobs.                              *)

Dropped(row) == row.status \in {"executed", "failed", "proof_failed", "rejected"}

\* An intent, once drawn, and signed bytes, once saved, stay; what has been
\* signed is not given up.
Follows(old, new) ==
    /\ new.kind = old.kind /\ new.base = old.base
    /\ new.reservation = old.reservation
    /\ old.intent # 0 => new.intent = old.intent
    /\ old.prepared # 0 => new.prepared = old.prepared
    /\ new.prepared # 0 /\ Dropped(new) => old.prepared # 0 /\ Dropped(old)

\* A step on the table: rows are only added, and the old ones followed.
JobsFollow ==
    /\ jobs' \in Seq(JobRows) /\ Len(jobs') \in Len(jobs)..MaxJobs
    /\ \A j \in DOMAIN jobs : Follows(jobs[j], jobs'[j])
    /\ \A j \in DOMAIN jobs' : j \notin DOMAIN jobs =>
          jobs'[j].prepared = 0 /\ jobs'[j].intent = 0

Resting == {"idle", "recover", "claim"}

\* A worker that is at work works on a job that it has claimed.
BusyInv ==
    \A w \in Replicas :
        worker[w].pc \notin Resting => worker[w].job # 0 /\ worker[w].attempt # 0

\* The indexer writes one of two outcomes, to a job that exists.
OutcomeInv ==
    indexer.pc \in {"recovered", "reconciled"} =>
        indexer.job # 0 /\ indexer.status \in {"confirmed", "submitted"}

\* The blocks the indexer has seen are of known jobs.
IndexedInv == \A p \in DOMAIN indexed : indexed[p].tx[1] \in DOMAIN jobs

\* A transaction on its way or mined is the one its job has saved.
TransactionInv ==
    /\ \A tx \in mempool : /\ tx[1] \in DOMAIN jobs /\ tx[2] # 0
                           /\ jobs[tx[1]].prepared = tx[2]
    /\ \A p \in DOMAIN chain : LET tx == chain[p].tx IN
                           /\ tx[1] \in DOMAIN jobs /\ tx[2] # 0
                           /\ jobs[tx[1]].prepared = tx[2]
    /\ \A w \in Replicas : At(w, "broadcast") =>
           /\ worker[w].tx # 0
           /\ jobs[worker[w].job].prepared = worker[w].tx

SignedInv == \A j \in DOMAIN jobs : jobs[j].prepared # 0 => ~Dropped(jobs[j])

\* A worker about to pay has sealed the job's one intent, and none has paid.
PurchaseInv ==
    /\ \A j \in JobIds : purchased[j] # 0 =>
           purchased[j] = 1 /\ j \in DOMAIN jobs /\ jobs[j].intent # 0
    /\ \A w \in Replicas : At(w, "request") =>
           /\ jobs[worker[w].job].intent # 0
           /\ purchased[worker[w].job] = 0
    /\ \A v, w \in Replicas : v # w /\ At(v, "request") /\ At(w, "request") =>
           worker[v].job # worker[w].job

GatewayInv ==
    /\ TypeOK /\ BusyInv /\ OutcomeInv /\ IndexedInv
    /\ TransactionInv /\ SignedInv /\ PurchaseInv

-----------------------------------------------------------------------------
(* Rows.                                                                   *)

LEMMA SameRow ==
    ASSUME NEW row
    PROVE  Follows(row, row)
  BY DEF Follows

LEMMA RowStatus ==
    ASSUME NEW row \in JobRows, NEW s \in Statuses
    PROVE  LET new == [row EXCEPT !.status = s] IN
           /\ new \in JobRows /\ new.status = s
           /\ s \notin {"executed", "failed", "proof_failed", "rejected"} \/ row.prepared = 0
                => Follows(row, new)
  BY DEF JobRows, Follows, Dropped

LEMMA StatusNames ==
    Statuses = {"queued", "validating", "awaiting_approval", "approved",
                "proof_requested", "proving", "submitting", "submitted",
                "confirmed", "reorged", "rejected", "ethereum_reverted",
                "failed", "proof_failed", "executed"}
  BY DEF Statuses, Active, Finished

LEMMA InterruptedRow ==
    ASSUME NEW row \in JobRows
    PROVE  Interrupted(row) \in JobRows /\ Follows(row, Interrupted(row))
  <1>1. ASSUME NEW s \in {"queued", "submitted", "approved"}
        PROVE  LET new == [row EXCEPT !.status = s, !.attempts = row.attempts + 1]
               IN  new \in JobRows /\ Follows(row, new)
    <2>1. s \in Statuses
      BY StatusNames
    <2>2. row.attempts + 1 \in Nat
      BY DEF JobRows
    <2>3. \A n \in Nat : [row EXCEPT !.status = s, !.attempts = n] \in JobRows
      BY <2>1 DEF JobRows
    <2>4. \A n \in Nat : Follows(row, [row EXCEPT !.status = s, !.attempts = n])
      BY DEF JobRows, Follows, Dropped
    <2>5. QED
      BY <2>2, <2>3, <2>4
  <1> DEFINE st == IF row.intent # 0 /\ row.requestId = 0 THEN "queued"
                   ELSE IF row.hash # 0 /\ row.prepared = 0 THEN "submitted"
                   ELSE IF row.approved THEN "approved" ELSE "queued"
  <1>2. st \in {"queued", "submitted", "approved"}
    OBVIOUS
  <1>3. \/ Interrupted(row) = row
        \/ Interrupted(row) = [row EXCEPT !.status = st, !.attempts = row.attempts + 1]
    BY Zenon DEF Interrupted
  <1> HIDE DEF st
  <1>4. QED
    BY <1>1, <1>2, <1>3, SameRow

LEMMA RequeuedRow ==
    ASSUME NEW row \in JobRows
    PROVE  Requeued(row) \in JobRows /\ Follows(row, Requeued(row))
  BY StatusNames DEF JobRows, Follows, Dropped, Requeued

LEMMA NewRow ==
    ASSUME NEW kind \in {"settlement", "bridge"}, NEW base \in Seq(Blocks),
           NEW reservation \in Nat
    PROVE  /\ NewJob(kind, base, reservation) \in JobRows
           /\ NewJob(kind, base, reservation).prepared = 0
           /\ NewJob(kind, base, reservation).intent = 0
  BY StatusNames DEF JobRows, NewJob

\* Rows after an update of one of them, of all of them, and after an insert.
LEMMA OneRow ==
    ASSUME TypeOK, NEW j \in DOMAIN jobs, NEW row \in JobRows, Follows(jobs[j], row),
           jobs' = [jobs EXCEPT ![j] = row]
    PROVE  JobsFollow /\ jobs'[j] = row /\ DOMAIN jobs' = DOMAIN jobs
           /\ \A k \in DOMAIN jobs : k # j => jobs'[k] = jobs[k]
  <1>1. jobs \in Seq(JobRows) /\ Len(jobs) <= MaxJobs /\ Len(jobs) \in Nat /\ MaxJobs \in Nat
    BY LenProperties, WriterAssumption DEF TypeOK
  <1>2. /\ jobs' \in Seq(JobRows) /\ Len(jobs') = Len(jobs) /\ DOMAIN jobs' = DOMAIN jobs
        /\ jobs'[j] = row /\ \A k \in DOMAIN jobs : k # j => jobs'[k] = jobs[k]
    BY <1>1, ExceptSeq
  <1>3. QED
    BY <1>1, <1>2, SameRow DEF JobsFollow

LEMMA AllRows ==
    ASSUME TypeOK, DOMAIN jobs' = DOMAIN jobs, jobs' = [j \in DOMAIN jobs' |-> jobs'[j]],
           \A j \in DOMAIN jobs : jobs'[j] \in JobRows /\ Follows(jobs[j], jobs'[j])
    PROVE  JobsFollow /\ Len(jobs') = Len(jobs)
  <1>1. jobs \in Seq(JobRows) /\ Len(jobs) <= MaxJobs /\ Len(jobs) \in Nat /\ MaxJobs \in Nat
        /\ DOMAIN jobs = 1..Len(jobs)
    BY LenProperties, WriterAssumption DEF TypeOK
  <1>2. jobs' \in [1..Len(jobs) -> JobRows]
    BY <1>1
  <1>3. jobs' \in Seq(JobRows) /\ Len(jobs') = Len(jobs)
    BY <1>1, <1>2, SeqDef, LenProperties
  <1>4. QED
    BY <1>1, <1>3 DEF JobsFollow

LEMMA AddedRow ==
    ASSUME TypeOK, Len(jobs) < MaxJobs, NEW row \in JobRows,
           row.prepared = 0, row.intent = 0, jobs' = Append(jobs, row)
    PROVE  JobsFollow /\ Len(jobs') = Len(jobs) + 1
  <1>1. jobs \in Seq(JobRows) /\ Len(jobs) \in Nat /\ MaxJobs \in Nat
        /\ DOMAIN jobs = 1..Len(jobs)
    BY LenProperties, WriterAssumption DEF TypeOK
  <1>2. /\ jobs' \in Seq(JobRows) /\ Len(jobs') = Len(jobs) + 1
        /\ jobs'[Len(jobs) + 1] = row
        /\ \A k \in 1..Len(jobs) : jobs'[k] = jobs[k]
        /\ DOMAIN jobs' = 1..(Len(jobs) + 1)
    BY <1>1, AppendProperties, LenProperties
  <1>3. QED
    BY <1>1, <1>2, SameRow DEF JobsFollow

LEMMA SameRows ==
    ASSUME TypeOK, UNCHANGED jobs
    PROVE  JobsFollow
  <1>1. jobs \in Seq(JobRows) /\ Len(jobs) <= MaxJobs /\ Len(jobs) \in Nat /\ MaxJobs \in Nat
    BY LenProperties, WriterAssumption DEF TypeOK
  <1>2. QED
    BY <1>1, SameRow DEF JobsFollow


-----------------------------------------------------------------------------
(* The type invariant by component, with the job numbers bounded apart.    *)

WriterRow ==
    [reservation : Nat, owner : Owners \union {Bridge, NoOwner}, fencing : Nat,
     live : BOOLEAN, checkpoint : Seq(Blocks), job : Nat]

WorkerRow ==
    [pc : Stages, job : Nat, attempt : Nat, requestId : Nat, tx : Nat,
     class : {"none", "retryable", "fatal"}]

IndexerRow ==
    [pc : {"start", "tick", "recovered", "reconciled"}, row : Nat, job : Nat,
     status : {"none", "confirmed", "submitted"}, block : Nat, hash : Nat]

JobsTyped == jobs \in Seq(JobRows) /\ Len(jobs) <= MaxJobs

ChainTyped ==
    /\ chain \in Seq(Blocks) /\ final \in 0..Len(chain)
    /\ mempool \subseteq Txs /\ faults \in 0..MaxFaults

AdmissionTyped ==
    /\ writer \in WriterRow /\ writer.job <= Len(jobs)
    /\ token \in [Owners -> Nat]
    /\ account \in Seq(Blocks) /\ pending \subseteq DOMAIN jobs
    /\ recoveryReady \in BOOLEAN

WorkerTyped ==
    /\ lockHolder \in Replicas \union {NoReplica}
    /\ worker \in [Replicas -> WorkerRow]
    /\ \A w \in Replicas : worker[w].job <= Len(jobs)
    /\ purchased \in [JobIds -> Nat]

IndexerTyped ==
    /\ indexed \in Seq(Blocks) /\ indexedFinal \in 0..Len(indexed)
    /\ history \subseteq [job : JobIds, before : Seq(Blocks), block : Nat]
    /\ indexer \in IndexerRow
    /\ indexer.row <= Len(jobs) /\ indexer.job <= Len(jobs)

LEMMA TypeParts ==
    TypeOK <=> JobsTyped /\ ChainTyped /\ AdmissionTyped /\ WorkerTyped /\ IndexerTyped
  <1>0. ASSUME JobsTyped PROVE Len(jobs) \in Nat
    BY <1>0, LenProperties DEF JobsTyped
  <1>1. ASSUME TypeOK PROVE JobsTyped /\ ChainTyped /\ AdmissionTyped
    <2>1. JobsTyped /\ ChainTyped
      BY <1>1 DEF TypeOK, JobsTyped, ChainTyped
    <2>2. Len(jobs) \in Nat
      BY <1>0, <2>1
    <2>3. writer \in WriterRow /\ writer.job <= Len(jobs)
      BY <1>1, <2>2 DEF TypeOK, WriterRow
    <2>4. QED
      BY <1>1, <2>1, <2>3 DEF TypeOK, AdmissionTyped
  <1>2. ASSUME TypeOK PROVE WorkerTyped
    <2>1. Len(jobs) \in Nat
      BY <1>0, <1>1, <1>2
    <2>2. \A r \in [pc : Stages, job : 0..Len(jobs), attempt : Nat,
                     requestId : Nat, tx : Nat, class : {"none", "retryable", "fatal"}] :
             r \in WorkerRow /\ r.job <= Len(jobs)
      BY <2>1 DEF WorkerRow
    <2>3. QED
      BY <1>2, <2>2 DEF TypeOK, WorkerTyped
  <1>3. ASSUME TypeOK PROVE IndexerTyped
    <2>1. Len(jobs) \in Nat
      BY <1>0, <1>1, <1>3
    <2>2. indexer \in IndexerRow /\ indexer.row <= Len(jobs) /\ indexer.job <= Len(jobs)
      BY <1>3, <2>1 DEF TypeOK, IndexerRow
    <2>3. QED
      BY <1>3, <2>2 DEF TypeOK, IndexerTyped
  <1>4. ASSUME JobsTyped, ChainTyped, AdmissionTyped, WorkerTyped, IndexerTyped
        PROVE  TypeOK
    <2>1. writer \in [reservation : Nat, owner : Owners \union {Bridge, NoOwner},
                      fencing : Nat, live : BOOLEAN, checkpoint : Seq(Blocks),
                      job : 0..Len(jobs)]
      BY <1>0, <1>4 DEF AdmissionTyped, WriterRow
    <2>2. worker \in [Replicas -> [pc : Stages, job : 0..Len(jobs), attempt : Nat,
                                   requestId : Nat, tx : Nat,
                                   class : {"none", "retryable", "fatal"}]]
      BY <1>0, <1>4 DEF WorkerTyped, WorkerRow
    <2>3. indexer \in [pc : {"start", "tick", "recovered", "reconciled"},
                       row : 0..Len(jobs), job : 0..Len(jobs),
                       status : {"none", "confirmed", "submitted"},
                       block : Nat, hash : Nat]
      BY <1>0, <1>4 DEF IndexerTyped, IndexerRow
    <2>4. QED
      BY <1>4, <2>1, <2>2, <2>3 DEF TypeOK, JobsTyped, ChainTyped, AdmissionTyped,
         WorkerTyped, IndexerTyped
  <1>5. QED
    BY <1>1, <1>2, <1>3, <1>4

LEMMA JobsGrow ==
    ASSUME JobsTyped, JobsFollow
    PROVE  /\ JobsTyped' /\ Len(jobs) \in Nat /\ Len(jobs') \in Nat
           /\ Len(jobs) <= Len(jobs') /\ MaxJobs \in Nat
           /\ DOMAIN jobs = 1..Len(jobs) /\ DOMAIN jobs' = 1..Len(jobs')
           /\ DOMAIN jobs \subseteq DOMAIN jobs'
  <1>1. Len(jobs) \in Nat /\ DOMAIN jobs = 1..Len(jobs)
    BY LenProperties DEF JobsTyped
  <1>2. Len(jobs') \in Nat /\ DOMAIN jobs' = 1..Len(jobs')
    BY LenProperties DEF JobsFollow
  <1>3. QED
    BY <1>1, <1>2, WriterAssumption DEF JobsFollow, JobsTyped

LEMMA AdmissionFrame ==
    ASSUME JobsTyped, AdmissionTyped, JobsFollow,
           UNCHANGED <<writer, token, account, pending, recoveryReady>>
    PROVE  AdmissionTyped'
  <1>1. writer.job \in Nat
    BY DEF AdmissionTyped, WriterRow
  <1>2. QED
    BY <1>1, JobsGrow DEF AdmissionTyped

LEMMA WorkerFrame ==
    ASSUME JobsTyped, WorkerTyped, JobsFollow, UNCHANGED workerVars
    PROVE  WorkerTyped'
  <1>1. \A w \in Replicas : worker[w].job \in Nat
    BY DEF WorkerTyped, WorkerRow
  <1>2. QED
    BY <1>1, JobsGrow DEF WorkerTyped, workerVars

LEMMA IndexerFrame ==
    ASSUME JobsTyped, IndexerTyped, JobsFollow, UNCHANGED indexerVars
    PROVE  IndexerTyped'
  <1>1. indexer.job \in Nat /\ indexer.row \in Nat
    BY DEF IndexerTyped, IndexerRow
  <1>2. QED
    BY <1>1, JobsGrow DEF IndexerTyped, indexerVars

LEMMA ChainFrame ==
    ASSUME ChainTyped, UNCHANGED chainVars
    PROVE  ChainTyped'
  BY DEF ChainTyped, chainVars

-----------------------------------------------------------------------------
(* Steps that leave the workers, what was paid and what was sent alone.    *)

LEMMA QuietStep ==
    ASSUME GatewayInv, JobsFollow, UNCHANGED <<worker, purchased>>,
           mempool' \union {chain'[p].tx : p \in DOMAIN chain'}
               \subseteq mempool \union {chain[p].tx : p \in DOMAIN chain}
    PROVE  BusyInv' /\ TransactionInv' /\ SignedInv' /\ PurchaseInv'
  <1>1. /\ JobsTyped /\ WorkerTyped
        /\ Len(jobs) \in Nat /\ DOMAIN jobs = 1..Len(jobs)
        /\ DOMAIN jobs \subseteq DOMAIN jobs'
    BY TypeParts, JobsGrow DEF GatewayInv
  <1>2. \A w \in Replicas : worker[w].pc \notin Resting => worker[w].job \in DOMAIN jobs
    BY <1>1 DEF GatewayInv, BusyInv, WorkerTyped, WorkerRow
  <1>3. BusyInv'
    BY DEF GatewayInv, BusyInv
  <1>4. \A j \in DOMAIN jobs : jobs[j].prepared # 0 => jobs'[j].prepared = jobs[j].prepared
    BY DEF JobsFollow, Follows
  <1>5. \A tx \in mempool \union {chain[p].tx : p \in DOMAIN chain} :
            /\ tx[1] \in DOMAIN jobs /\ tx[2] # 0
            /\ jobs[tx[1]].prepared = tx[2]
    BY DEF GatewayInv, TransactionInv
  <1>6. \A tx \in mempool' \union {chain'[p].tx : p \in DOMAIN chain'} :
            /\ tx[1] \in DOMAIN jobs' /\ tx[2] # 0
            /\ jobs'[tx[1]].prepared = tx[2]
    BY <1>1, <1>4, <1>5
  <1>7. \A w \in Replicas : worker[w].pc = "broadcast" =>
            /\ worker[w].tx # 0
            /\ jobs'[worker[w].job].prepared = worker[w].tx
    BY <1>2, <1>4 DEF GatewayInv, TransactionInv, At, Resting
  <1>8. TransactionInv'
    BY <1>6, <1>7 DEF TransactionInv, At
  <1>9. SignedInv'
    BY DEF GatewayInv, SignedInv, JobsFollow, Follows
  <1>10. \A j \in DOMAIN jobs : jobs[j].intent # 0 => jobs'[j].intent # 0
    BY DEF JobsFollow, Follows
  <1>11. PurchaseInv'
    BY <1>1, <1>2, <1>10 DEF GatewayInv, PurchaseInv, At, Resting
  <1>12. QED
    BY <1>3, <1>8, <1>9, <1>11

-----------------------------------------------------------------------------
(* The chain.                                                              *)

LEMMA FaultTyped ==
    ASSUME ChainTyped, Fault
    PROVE  faults' \in 0..MaxFaults
  BY ChainAssumption DEF ChainTyped, Fault

LEMMA PrefixTyped ==
    ASSUME NEW s \in Seq(Blocks), NEW n \in 0..Len(s)
    PROVE  /\ SubSeq(s, 1, n) \in Seq(Blocks) /\ Len(SubSeq(s, 1, n)) = n
           /\ DOMAIN SubSeq(s, 1, n) = 1..n
           /\ \A i \in 1..n : i \in DOMAIN s /\ SubSeq(s, 1, n)[i] = s[i]
  <1>1. Len(s) \in Nat /\ DOMAIN s = 1..Len(s) /\ \A i \in 1..Len(s) : s[i] \in Blocks
    BY LenProperties, ElementOfSeq
  <1>2. \A i \in 1..n : i \in 1..Len(s) /\ 1 + i - 1 = i
    BY <1>1
  <1>3. SubSeq(s, 1, n) \in Seq(Blocks) /\ Len(SubSeq(s, 1, n)) = n
        /\ \A i \in 1..n : SubSeq(s, 1, n)[i] = s[i]
    BY <1>1, <1>2, SubSeqProperties
  <1>4. QED
    BY <1>1, <1>2, <1>3, LenProperties

\* The chain moves: nothing new is on its way or mined.
LEMMA ChainSteps ==
    ASSUME GatewayInv, Ethereum
    PROVE  /\ ChainTyped'
           /\ mempool' \union {chain'[p].tx : p \in DOMAIN chain'}
               \subseteq mempool \union {chain[p].tx : p \in DOMAIN chain}
  <1>0. /\ ChainTyped /\ Len(chain) \in Nat /\ DOMAIN chain = 1..Len(chain)
        /\ final \in Nat /\ final <= Len(chain)
    BY TypeParts, LenProperties DEF GatewayInv, ChainTyped
  <1>1. ASSUME NEW tx \in mempool, Mine(tx, jobs[tx[1]].base)
        PROVE  /\ ChainTyped'
               /\ mempool' \union {chain'[p].tx : p \in DOMAIN chain'}
                   \subseteq mempool \union {chain[p].tx : p \in DOMAIN chain}
    <2>1. PICK ok \in BOOLEAN : chain' = Append(chain, [tx |-> tx, ok |-> ok])
      BY <1>1 DEF Mine
    <2>2. [tx |-> tx, ok |-> ok] \in Blocks
      BY <1>0 DEF ChainTyped, Blocks
    <2>3. /\ chain' \in Seq(Blocks) /\ Len(chain') = Len(chain) + 1
          /\ DOMAIN chain' = 1..(Len(chain) + 1)
          /\ chain'[Len(chain) + 1] = [tx |-> tx, ok |-> ok]
          /\ \A p \in 1..Len(chain) : chain'[p] = chain[p]
      BY <1>0, <2>1, <2>2, AppendProperties, LenProperties DEF ChainTyped
    <2>4. final' = final /\ faults' = faults /\ mempool' \subseteq mempool
      BY <1>1 DEF Mine
    <2>5. ChainTyped'
      BY <1>0, <2>3, <2>4 DEF ChainTyped
    <2>6. \A p \in DOMAIN chain' : chain'[p].tx = tx \/ (p \in DOMAIN chain /\ chain'[p] = chain[p])
      BY <1>0, <2>3
    <2>7. QED
      BY <2>4, <2>5, <2>6
  <1>2. ASSUME Finalize
        PROVE  /\ ChainTyped'
               /\ mempool' \union {chain'[p].tx : p \in DOMAIN chain'}
                   \subseteq mempool \union {chain[p].tx : p \in DOMAIN chain}
    BY <1>0, <1>2 DEF Finalize, ChainTyped
  <1>3. ASSUME Reorg
        PROVE  /\ ChainTyped'
               /\ mempool' \union {chain'[p].tx : p \in DOMAIN chain'}
                   \subseteq mempool \union {chain[p].tx : p \in DOMAIN chain}
    <2>1. PICK n \in final..(Len(chain) - 1) :
            LET orphaned == {chain[p].tx : p \in (n + 1)..Len(chain)} IN
            /\ Fault /\ chain' = SubSeq(chain, 1, n)
            /\ \E kept \in SUBSET orphaned :
                 /\ LossyNetwork \/ kept = orphaned
                 /\ mempool' = mempool \union kept
            /\ UNCHANGED final
      BY <1>3 DEF Reorg
    <2>2. n \in 0..Len(chain) /\ final <= n /\ (n + 1)..Len(chain) \subseteq DOMAIN chain
      BY <1>0
    <2>3. /\ chain' \in Seq(Blocks) /\ Len(chain') = n /\ DOMAIN chain' = 1..n
          /\ \A i \in 1..n : i \in DOMAIN chain /\ chain'[i] = chain[i]
      BY <1>0, <2>1, <2>2, PrefixTyped DEF ChainTyped
    <2>4. mempool' \subseteq mempool \union {chain[p].tx : p \in DOMAIN chain}
      BY <2>1, <2>2
    <2>5. \A p \in DOMAIN chain : chain[p].tx \in Txs
      <3>1. \A p \in DOMAIN chain : chain[p] \in Blocks
        BY <1>0, ElementOfSeq DEF ChainTyped
      <3>2. QED
        BY <3>1 DEF Blocks
    <2>6. mempool' \subseteq Txs
      BY <1>0, <2>4, <2>5 DEF ChainTyped
    <2>7. faults' \in 0..MaxFaults
      BY <1>0, <2>1, FaultTyped
    <2>8. ChainTyped'
      BY <1>0, <2>1, <2>2, <2>3, <2>6, <2>7 DEF ChainTyped
    <2>9. QED
      BY <2>3, <2>4, <2>8
  <1>4. ASSUME Evict
        PROVE  /\ ChainTyped'
               /\ mempool' \union {chain'[p].tx : p \in DOMAIN chain'}
                   \subseteq mempool \union {chain[p].tx : p \in DOMAIN chain}
    BY <1>0, <1>4, FaultTyped DEF Evict, ChainTyped
  <1>5. QED
    BY <1>1, <1>2, <1>3, <1>4 DEF Ethereum

LEMMA EthereumInv ==
    ASSUME GatewayInv, Ethereum
    PROVE  GatewayInv'
  <1>1. UNCHANGED <<writerVars, workerVars, indexerVars>>
    BY DEF Ethereum
  <1>2. JobsFollow
    BY <1>1, SameRows DEF GatewayInv, writerVars
  <1>3. JobsTyped /\ AdmissionTyped /\ WorkerTyped /\ IndexerTyped
    BY TypeParts DEF GatewayInv
  <1>4. ChainTyped' /\ JobsTyped' /\ AdmissionTyped' /\ WorkerTyped' /\ IndexerTyped'
    BY <1>1, <1>2, <1>3, ChainSteps, JobsGrow, AdmissionFrame, WorkerFrame, IndexerFrame
       DEF writerVars
  <1>5. TypeOK'
    BY <1>4, TypeParts, PTL
  <1>6. BusyInv' /\ TransactionInv' /\ SignedInv' /\ PurchaseInv'
    BY <1>1, <1>2, ChainSteps, QuietStep DEF workerVars
  <1>7. OutcomeInv' /\ IndexedInv'
    BY <1>1 DEF GatewayInv, OutcomeInv, IndexedInv, writerVars, indexerVars
  <1>8. QED
    BY <1>5, <1>6, <1>7 DEF GatewayInv

-----------------------------------------------------------------------------
(* Admission: the outer writer, sequencers and the deposit loop.           *)

LEMMA LockedTyped ==
    ASSUME JobsTyped, AdmissionTyped
    PROVE  Locked \in WriterRow /\ Locked.job <= Len(jobs)
  <1>1. Len(jobs) \in Nat
    BY LenProperties DEF JobsTyped
  <1>2. Free(writer) \in WriterRow /\ Free(writer).job = 0
    BY EmptySeq DEF AdmissionTyped, WriterRow, Free
  <1>3. Locked = Free(writer) \/ Locked = writer
    BY DEF Locked
  <1>4. QED
    BY <1>1, <1>2, <1>3 DEF AdmissionTyped

LEMMA FreeTyped ==
    ASSUME NEW row \in WriterRow
    PROVE  Free(row) \in WriterRow /\ Free(row).job = 0
  BY EmptySeq DEF WriterRow, Free

LEMMA AcquireTyped ==
    ASSUME JobsTyped, AdmissionTyped, NEW o \in Owners, Acquire(o)
    PROVE  AdmissionTyped' /\ UNCHANGED jobs
  <1>1. Locked \in WriterRow /\ Locked.job <= Len(jobs) /\ Len(jobs) \in Nat
    BY LockedTyped, LenProperties DEF JobsTyped
  <1>2. /\ UNCHANGED <<jobs, account, pending, recoveryReady>>
        /\ token' = [token EXCEPT ![o] = writer'.reservation]
    BY DEF Acquire
  <1>3. writer' \in WriterRow /\ writer'.job <= Len(jobs)
    <2>1. CASE writer' = [Locked EXCEPT !.live = TRUE]
      BY <1>1, <2>1 DEF WriterRow
    <2>2. CASE writer' = [reservation |-> Locked.fencing + 1, owner |-> o,
                          fencing |-> Locked.fencing + 1, live |-> TRUE,
                          checkpoint |-> account, job |-> 0]
      BY <1>1, <2>2 DEF WriterRow, AdmissionTyped
    <2>3. QED
      BY <2>1, <2>2 DEF Acquire
  <1>4. writer'.reservation \in Nat
    BY <1>3 DEF WriterRow
  <1>5. token' \in [Owners -> Nat]
    BY <1>2, <1>4 DEF AdmissionTyped
  <1>6. QED
    BY <1>2, <1>3, <1>5 DEF AdmissionTyped

LEMMA ReleaseTyped ==
    ASSUME JobsTyped, AdmissionTyped, NEW o \in Owners, Release(o)
    PROVE  AdmissionTyped' /\ UNCHANGED jobs
  <1>1. Locked \in WriterRow /\ Len(jobs) \in Nat
    BY LockedTyped, LenProperties DEF JobsTyped
  <1>2. writer' \in WriterRow /\ writer'.job = 0
    BY <1>1, FreeTyped DEF Release
  <1>3. QED
    BY <1>1, <1>2 DEF Release, AdmissionTyped

LEMMA LeaseTyped ==
    ASSUME JobsTyped, AdmissionTyped, LeaseExpires
    PROVE  AdmissionTyped' /\ UNCHANGED jobs
  <1>1. writer' \in WriterRow /\ writer'.job = writer.job
    BY DEF LeaseExpires, AdmissionTyped, WriterRow
  <1>2. QED
    BY <1>1 DEF LeaseExpires, AdmissionTyped

LEMMA ReplayTyped ==
    ASSUME JobsTyped, AdmissionTyped, NEW o \in Owners, ReplaySettlement(o)
    PROVE  AdmissionTyped' /\ UNCHANGED jobs
  <1>1. Existing(o) \subseteq DOMAIN jobs
    BY DEF Existing
  <1>2. pending' \subseteq DOMAIN jobs
    BY <1>1 DEF ReplaySettlement, AdmissionTyped
  <1>3. QED
    BY <1>2, LockedTyped DEF ReplaySettlement, AdmissionTyped

LEMMA AttachTyped ==
    ASSUME TypeOK, NEW row \in JobRows, row.prepared = 0, row.intent = 0,
           Len(jobs) < MaxJobs, jobs' = Append(jobs, row),
           writer' \in WriterRow, writer'.job = Len(jobs) + 1,
           pending' \subseteq pending \union {Len(jobs) + 1},
           UNCHANGED <<token, account, recoveryReady>>
    PROVE  AdmissionTyped' /\ JobsFollow
  <1>1. JobsTyped /\ AdmissionTyped
    BY TypeParts
  <1>2. JobsFollow /\ Len(jobs') = Len(jobs) + 1
    BY AddedRow
  <1>3. Len(jobs) \in Nat /\ DOMAIN jobs = 1..Len(jobs) /\ DOMAIN jobs' = 1..(Len(jobs) + 1)
    BY <1>1, <1>2, JobsGrow
  <1>4. pending' \subseteq DOMAIN jobs'
    BY <1>1, <1>3 DEF AdmissionTyped
  <1>5. QED
    BY <1>1, <1>2, <1>3, <1>4 DEF AdmissionTyped

LEMMA AdmissionJobs ==
    ASSUME TypeOK, Admission
    PROVE  AdmissionTyped' /\ JobsFollow
  <1>1. JobsTyped /\ AdmissionTyped
    BY TypeParts
  <1>2. ASSUME NEW o \in Owners, AttachSettlement(o)
        PROVE  AdmissionTyped' /\ JobsFollow
    <2>1. Locked \in WriterRow /\ Len(jobs) \in Nat
      BY <1>1, LockedTyped, LenProperties DEF JobsTyped
    <2>2. Locked.checkpoint \in Seq(Blocks) /\ token[o] \in Nat
      <3>1. \A row \in WriterRow : row.checkpoint \in Seq(Blocks)
        BY DEF WriterRow
      <3>2. QED
        BY <1>1, <2>1, <3>1 DEF AdmissionTyped
    <2> DEFINE row == NewJob("settlement", Locked.checkpoint, token[o])
    <2>3. row \in JobRows /\ row.prepared = 0 /\ row.intent = 0
      BY <2>2, NewRow
    <2>4. /\ Len(jobs) < MaxJobs /\ jobs' = Append(jobs, row)
          /\ writer' = [Locked EXCEPT !.job = Len(jobs) + 1, !.live = FALSE]
          /\ pending' = pending \union {Len(jobs) + 1}
          /\ UNCHANGED <<token, account, recoveryReady>>
      BY <1>2 DEF AttachSettlement
    <2>5. writer' \in WriterRow /\ writer'.job = Len(jobs) + 1
      <3>1. \A r \in WriterRow, n \in Nat :
               LET new == [r EXCEPT !.job = n, !.live = FALSE]
               IN  new \in WriterRow /\ new.job = n
        BY DEF WriterRow
      <3>2. Len(jobs) + 1 \in Nat
        BY <2>1
      <3>3. QED
        BY <2>1, <2>4, <3>1, <3>2
    <2> HIDE DEF row
    <2>6. QED
      BY <2>3, <2>4, <2>5, AttachTyped
  <1>3. ASSUME AttachBridge
        PROVE  AdmissionTyped' /\ JobsFollow
    <2>1. Locked \in WriterRow /\ Len(jobs) \in Nat
      BY <1>1, LockedTyped, LenProperties DEF JobsTyped
    <2> DEFINE row == NewJob("bridge", account, 0)
    <2>3. row \in JobRows /\ row.prepared = 0 /\ row.intent = 0
      BY <1>1, NewRow DEF AdmissionTyped
    <2>4. /\ Len(jobs) < MaxJobs /\ jobs' = Append(jobs, row)
          /\ writer' = [reservation |-> Locked.fencing + 1, owner |-> Bridge,
                        fencing |-> Locked.fencing + 1, live |-> FALSE,
                        checkpoint |-> << >>, job |-> Len(jobs) + 1]
          /\ UNCHANGED <<token, account, pending, recoveryReady>>
      BY <1>3 DEF AttachBridge
    <2>5. writer' \in WriterRow /\ writer'.job = Len(jobs) + 1
      BY <2>1, <2>4, EmptySeq DEF WriterRow
    <2> HIDE DEF row
    <2>6. QED
      BY <2>3, <2>4, <2>5, AttachTyped
  <1>4. QED
    BY <1>1, <1>2, <1>3, AcquireTyped, ReleaseTyped, LeaseTyped, ReplayTyped, SameRows
       DEF Admission

\* A step that leaves the chain, the workers and the indexer alone.
LEMMA TableStep ==
    ASSUME GatewayInv, JobsFollow, AdmissionTyped',
           UNCHANGED <<chainVars, workerVars, indexerVars>>
    PROVE  GatewayInv'
  <1>1. JobsTyped /\ ChainTyped /\ AdmissionTyped /\ WorkerTyped /\ IndexerTyped
    BY TypeParts DEF GatewayInv
  <1>2. ChainTyped' /\ JobsTyped' /\ WorkerTyped' /\ IndexerTyped'
    BY <1>1, ChainFrame, JobsGrow, WorkerFrame, IndexerFrame
  <1>3. TypeOK'
    BY <1>2, TypeParts, PTL
  <1>4. BusyInv' /\ TransactionInv' /\ SignedInv' /\ PurchaseInv'
    BY QuietStep DEF workerVars, chainVars
  <1>5. OutcomeInv' /\ IndexedInv'
    BY <1>1, JobsGrow DEF GatewayInv, OutcomeInv, IndexedInv, indexerVars
  <1>6. QED
    BY <1>3, <1>4, <1>5 DEF GatewayInv

LEMMA AdmissionInv ==
    ASSUME GatewayInv, Admission
    PROVE  GatewayInv'
  BY AdmissionJobs, TableStep DEF GatewayInv, Admission

-----------------------------------------------------------------------------
(* The operator.                                                           *)

LEMMA OperatorInv ==
    ASSUME GatewayInv, Operator, UNCHANGED indexerVars
    PROVE  GatewayInv'
  <1>1. TypeOK /\ JobsTyped /\ AdmissionTyped
    BY TypeParts DEF GatewayInv
  <1>2. \A j \in DOMAIN jobs : jobs[j] \in JobRows
    BY <1>1, ElementOfSeq, LenProperties DEF JobsTyped
  <1>3. ASSUME NEW j \in DOMAIN jobs, ApproveProof(j)
        PROVE  JobsFollow /\ AdmissionTyped'
    <2> DEFINE row == [jobs[j] EXCEPT !.status = "approved", !.approved = TRUE]
    <2>1. row \in JobRows /\ Follows(jobs[j], row)
      BY <1>2, StatusNames DEF JobRows, Follows, Dropped
    <2>2. jobs' = [jobs EXCEPT ![j] = row]
      BY <1>3 DEF ApproveProof
    <2> HIDE DEF row
    <2>3. JobsFollow
      BY <1>1, <2>1, <2>2, OneRow
    <2>4. QED
      BY <1>1, <1>3, <2>3, AdmissionFrame DEF ApproveProof
  <1>4. ASSUME NEW j \in DOMAIN jobs, CancelProof(j)
        PROVE  JobsFollow /\ AdmissionTyped'
    <2> DEFINE row == [jobs[j] EXCEPT !.status = "rejected"]
    <2>1. jobs[j].prepared = 0 /\ "rejected" \in Statuses
      BY <1>4, StatusNames DEF CancelProof, Cancellable
    <2>2. row \in JobRows /\ Follows(jobs[j], row)
      BY <1>2, <2>1, RowStatus
    <2>3. jobs' = [jobs EXCEPT ![j] = row]
      BY <1>4 DEF CancelProof
    <2> HIDE DEF row
    <2>4. JobsFollow /\ DOMAIN jobs' = DOMAIN jobs
      BY <1>1, <2>2, <2>3, OneRow
    <2>5. Len(jobs') \in Nat /\ Len(jobs) \in Nat /\ Len(jobs) <= Len(jobs')
      BY <1>1, <2>4, JobsGrow
    <2>6. writer.job \in Nat
      BY <1>1 DEF AdmissionTyped, WriterRow
    <2>7. QED
      BY <1>1, <1>4, <2>4, <2>5, <2>6 DEF CancelProof, AdmissionTyped
  <1>5. UNCHANGED <<chainVars, workerVars>>
    BY DEF Operator, ApproveProof, CancelProof
  <1>6. QED
    BY <1>3, <1>4, <1>5, TableStep DEF Operator

-----------------------------------------------------------------------------
(* The indexer.                                                            *)

LEMMA AncestorTyped ==
    ASSUME ChainTyped, IndexerTyped
    PROVE  /\ CommonAncestor \in 0..Len(indexed) /\ CommonAncestor <= Len(chain)
           /\ Len(indexed) \in Nat /\ DOMAIN indexed = 1..Len(indexed)
  <1>1. /\ Len(indexed) \in Nat /\ DOMAIN indexed = 1..Len(indexed)
        /\ Len(chain) \in Nat
    BY LenProperties DEF ChainTyped, IndexerTyped
  <1> DEFINE T == {n \in 0..Len(indexed) :
                     n <= Len(chain) /\ Prefix(indexed, n) = Prefix(chain, n)}
  <1>2. 0 \in T
    BY <1>1, SubSeqEmpty DEF Prefix
  <1>3. Max(T) \in T
    BY <1>1, <1>2, MaxMember
  <1>4. QED
    BY <1>1, <1>3 DEF CommonAncestor

LEMMA RolledBackRow ==
    ASSUME JobsTyped, NEW j \in DOMAIN jobs, NEW n
    PROVE  RolledBack(j, n) \in JobRows /\ Follows(jobs[j], RolledBack(j, n))
  <1>1. jobs[j] \in JobRows
    BY ElementOfSeq, LenProperties DEF JobsTyped
  <1>2. \/ RolledBack(j, n) = [jobs[j] EXCEPT !.status = "reorged"]
        \/ RolledBack(j, n) = Requeued(jobs[j])
        \/ RolledBack(j, n) = jobs[j]
    BY Zenon DEF RolledBack
  <1>3. "reorged" \in Statuses
    BY StatusNames
  <1>4. QED
    BY <1>1, <1>2, <1>3, RowStatus, RequeuedRow, SameRow

LEMMA AccountAtTyped ==
    ASSUME IndexerTyped, AdmissionTyped, NEW n \in Nat
    PROVE  AccountAt(n) \in Seq(Blocks)
  <1> DEFINE undone == {h \in history : h.block > n}
  <1>1. CASE undone = {}
    BY <1>1 DEF AccountAt, AdmissionTyped
  <1>2. CASE undone # {}
    <2>1. \A h \in undone : h.block \in Nat /\ h.before \in Seq(Blocks)
      BY DEF IndexerTyped
    <2>2. PICK x \in {h.block : h \in undone} : \A y \in {h.block : h \in undone} : x <= y
      <3>1. {h.block : h \in undone} \in SUBSET Nat /\ {h.block : h \in undone} # {}
        BY <1>2, <2>1
      <3>2. QED
        BY <3>1, SmallestNat
    <2>3. \E h \in undone : \A g \in undone : h.block <= g.block
      BY <2>2
    <2>4. AccountAt(n) = (CHOOSE h \in undone : \A g \in undone : h.block <= g.block).before
      BY <1>2 DEF AccountAt
    <2>5. (CHOOSE h \in undone : \A g \in undone : h.block <= g.block) \in undone
      BY <2>3
    <2> HIDE DEF undone
    <2>6. QED
      BY <2>1, <2>4, <2>5
  <1>3. QED
    BY <1>1, <1>2

\* A step of the indexer: it leaves the chain and the workers alone.
LEMMA IndexerKeeps ==
    ASSUME GatewayInv, JobsFollow, ChainTyped', AdmissionTyped', IndexerTyped',
           OutcomeInv', IndexedInv', UNCHANGED <<chain, mempool, workerVars>>
    PROVE  GatewayInv'
  <1>1. JobsTyped /\ WorkerTyped
    BY TypeParts DEF GatewayInv
  <1>2. JobsTyped' /\ WorkerTyped'
    BY <1>1, JobsGrow, WorkerFrame
  <1>3. TypeOK'
    BY <1>2, TypeParts, PTL
  <1>4. BusyInv' /\ TransactionInv' /\ SignedInv' /\ PurchaseInv'
    BY QuietStep DEF workerVars
  <1>5. QED
    BY <1>3, <1>4 DEF GatewayInv

LEMMA RollbackInv ==
    ASSUME GatewayInv, Rollback
    PROVE  GatewayInv'
  <1>0. TypeOK /\ JobsTyped /\ ChainTyped /\ AdmissionTyped /\ IndexerTyped
    BY TypeParts DEF GatewayInv
  <1> DEFINE n == CommonAncestor
  <1>1. /\ jobs' = [j \in DOMAIN jobs |-> RolledBack(j, n)]
        /\ account' = AccountAt(n) /\ history' \subseteq history
        /\ indexed' = Prefix(indexed, n) /\ indexedFinal <= n
        /\ pending' \subseteq pending \union RetrySettlement(n)
        /\ recoveryReady' = FALSE
        /\ UNCHANGED <<chainVars, writer, token, workerVars, indexedFinal, indexer>>
    BY DEF Rollback
  <1>2. /\ n \in 0..Len(indexed) /\ n \in Nat /\ Len(indexed) \in Nat
    BY <1>0, AncestorTyped
  <1> HIDE DEF n
  <1>3. JobsFollow /\ Len(jobs') = Len(jobs) /\ DOMAIN jobs' = DOMAIN jobs
    <2>1. DOMAIN jobs' = DOMAIN jobs /\ jobs' = [j \in DOMAIN jobs' |-> jobs'[j]]
          /\ \A j \in DOMAIN jobs : jobs'[j] = RolledBack(j, n)
      BY <1>1
    <2>2. QED
      BY <1>0, <2>1, RolledBackRow, AllRows
  <1>4. AdmissionTyped'
    <2>1. RetrySettlement(n) \subseteq DOMAIN jobs
      BY DEF RetrySettlement, Orphaned
    <2>2. pending' \subseteq DOMAIN jobs'
      BY <1>0, <1>1, <1>3, <2>1 DEF AdmissionTyped
    <2>3. account' \in Seq(Blocks)
      BY <1>0, <1>1, <1>2, AccountAtTyped
    <2>4. QED
      BY <1>0, <1>1, <1>3, <2>2, <2>3 DEF AdmissionTyped
  <1>5. /\ indexed' \in Seq(Blocks) /\ Len(indexed') = n /\ DOMAIN indexed' = 1..n
        /\ \A i \in 1..n : i \in DOMAIN indexed /\ indexed'[i] = indexed[i]
    BY <1>0, <1>1, <1>2, PrefixTyped DEF Prefix, IndexerTyped
  <1>6. IndexerTyped'
    BY <1>0, <1>1, <1>2, <1>3, <1>5 DEF IndexerTyped
  <1>7. OutcomeInv' /\ IndexedInv'
    BY <1>1, <1>3, <1>5 DEF GatewayInv, OutcomeInv, IndexedInv
  <1>8. ChainTyped' /\ UNCHANGED <<chain, mempool, workerVars>>
    BY <1>0, <1>1, ChainFrame DEF chainVars
  <1>9. QED
    BY <1>3, <1>4, <1>6, <1>7, <1>8, IndexerKeeps

LEMMA TickTyped ==
    ASSUME NEW pc \in {"start", "tick", "recovered", "reconciled"}, NEW row \in Nat
    PROVE  /\ Tick(pc, row) \in IndexerRow
           /\ Tick(pc, row).row = row /\ Tick(pc, row).job = 0 /\ Tick(pc, row).pc = pc
  BY DEF Tick, IndexerRow

LEMMA IndexBlocksInv ==
    ASSUME GatewayInv, IndexBlocks
    PROVE  GatewayInv'
  <1>0. TypeOK /\ JobsTyped /\ ChainTyped /\ AdmissionTyped /\ IndexerTyped
    BY TypeParts DEF GatewayInv
  <1>1. /\ indexed' = SubSeq(chain, 1, Len(chain)) /\ indexedFinal' = final
        /\ indexer' = Tick("tick", 0)
        /\ UNCHANGED <<chainVars, writerVars, workerVars, history>>
    BY DEF IndexBlocks, IndexedThrough, Prefix
  <1>2. indexed' = chain
    BY <1>0, <1>1, SubSeqFull DEF ChainTyped
  <1>3. Len(jobs) \in Nat
    BY <1>0, LenProperties DEF JobsTyped
  <1>4. indexer' \in IndexerRow /\ indexer'.row = 0 /\ indexer'.job = 0 /\ indexer'.pc = "tick"
    BY <1>1, TickTyped
  <1>5. IndexerTyped'
    BY <1>0, <1>1, <1>2, <1>3, <1>4 DEF IndexerTyped, ChainTyped, writerVars
  <1>6. OutcomeInv' /\ IndexedInv'
    BY <1>1, <1>2, <1>4 DEF GatewayInv, TransactionInv, OutcomeInv, IndexedInv, writerVars
  <1>7. JobsFollow
    BY <1>0, <1>1, SameRows DEF writerVars
  <1>8. AdmissionTyped' /\ ChainTyped'
    BY <1>0, <1>1, <1>7, AdmissionFrame, ChainFrame DEF writerVars
  <1>9. QED
    BY <1>1, <1>5, <1>6, <1>7, <1>8, IndexerKeeps DEF chainVars

LEMMA ApplyTyped ==
    ASSUME JobsTyped, AdmissionTyped, IndexerTyped, NEW j \in DOMAIN jobs,
           NEW p \in DOMAIN indexed,
           Apply(j, p) \/ UNCHANGED <<account, history, pending>>
    PROVE  /\ account' \in Seq(Blocks) /\ pending' \subseteq pending
           /\ history' \subseteq [job : JobIds, before : Seq(Blocks), block : Nat]
  <1>1. /\ jobs[j] \in JobRows /\ j \in JobIds /\ indexed[p] \in Blocks /\ p \in Nat
    BY ElementOfSeq, LenProperties, WriterAssumption DEF JobsTyped, IndexerTyped, JobIds
  <1>2. jobs[j].base \in Seq(Blocks)
    BY <1>1 DEF JobRows
  <1>3. CASE UNCHANGED <<account, history, pending>>
    BY <1>3 DEF AdmissionTyped, IndexerTyped
  <1>4. CASE /\ account' = Append(jobs[j].base, indexed[p])
             /\ history' = history \union {[job |-> j, before |-> account, block |-> p]}
             /\ pending' = pending \ {j}
    <2>1. account' \in Seq(Blocks)
      BY <1>1, <1>2, <1>4, AppendProperties
    <2>2. [job |-> j, before |-> account, block |-> p]
              \in [job : JobIds, before : Seq(Blocks), block : Nat]
      BY <1>1 DEF AdmissionTyped
    <2>3. QED
      BY <1>4, <2>1, <2>2 DEF IndexerTyped
  <1>5. QED
    BY <1>3, <1>4 DEF Apply

LEMMA RecoverInv ==
    ASSUME GatewayInv, RecoverGatewayState
    PROVE  GatewayInv'
  <1>0. TypeOK /\ JobsTyped /\ ChainTyped /\ AdmissionTyped /\ IndexerTyped
    BY TypeParts DEF GatewayInv
  <1> DEFINE p == Min(Unrecovered)
             tx == indexed[p].tx
  <1>1. /\ Apply(tx[1], p)
        /\ indexer' = [pc |-> "recovered", row |-> 0, job |-> tx[1],
                       status |-> "confirmed", block |-> p, hash |-> tx[2]]
        /\ UNCHANGED <<chainVars, jobs, writer, token, recoveryReady, workerVars,
                       indexed, indexedFinal>>
    BY DEF RecoverGatewayState
  <1>2. /\ Len(indexed) \in Nat /\ DOMAIN indexed = 1..Len(indexed)
        /\ Len(jobs) \in Nat /\ DOMAIN jobs = 1..Len(jobs)
    BY <1>0, LenProperties DEF IndexerTyped, JobsTyped
  <1>3. Unrecovered \in SUBSET Nat /\ Unrecovered \subseteq DOMAIN indexed
    BY <1>0, <1>2 DEF Unrecovered, IndexerTyped
  <1>4. p \in DOMAIN indexed /\ p \in Nat
    BY <1>3, MinMember DEF RecoverGatewayState
  <1> HIDE DEF p
  <1>5. indexed[p] \in Blocks
    BY <1>0, <1>2, <1>4, ElementOfSeq DEF IndexerTyped
  <1>6. tx[2] \in Nat /\ tx[1] \in DOMAIN jobs
    BY <1>4, <1>5 DEF Blocks, Txs, GatewayInv, IndexedInv
  <1> HIDE DEF tx
  <1>7. /\ account' \in Seq(Blocks) /\ pending' \subseteq pending
        /\ history' \subseteq [job : JobIds, before : Seq(Blocks), block : Nat]
    BY <1>0, <1>1, <1>4, <1>6, ApplyTyped
  <1>8. AdmissionTyped'
    BY <1>0, <1>1, <1>7 DEF AdmissionTyped
  <1>9. tx[1] \in Nat /\ tx[1] # 0 /\ tx[1] <= Len(jobs)
    BY <1>2, <1>6
  <1>10. indexer' \in IndexerRow /\ indexer'.row = 0 /\ indexer'.job = tx[1]
         /\ indexer'.status = "confirmed"
    BY <1>1, <1>4, <1>6, <1>9 DEF IndexerRow
  <1>11. IndexerTyped'
    BY <1>0, <1>1, <1>2, <1>7, <1>9, <1>10 DEF IndexerTyped
  <1>12. OutcomeInv' /\ IndexedInv'
    BY <1>1, <1>9, <1>10 DEF GatewayInv, OutcomeInv, IndexedInv
  <1>13. JobsFollow /\ ChainTyped'
    BY <1>0, <1>1, SameRows, ChainFrame
  <1>14. QED
    BY <1>1, <1>8, <1>11, <1>12, <1>13, IndexerKeeps DEF chainVars

LEMMA ReconcileInv ==
    ASSUME GatewayInv, NEW j \in DOMAIN jobs, ReconcileJob(j)
    PROVE  GatewayInv'
  <1>0. TypeOK /\ JobsTyped /\ ChainTyped /\ AdmissionTyped /\ IndexerTyped
    BY TypeParts DEF GatewayInv
  <1>1. UNCHANGED <<chainVars, writer, token, recoveryReady, workerVars,
                    indexed, indexedFinal>>
    BY DEF ReconcileJob
  <1>2. /\ Len(indexed) \in Nat /\ DOMAIN indexed = 1..Len(indexed)
        /\ Len(jobs) \in Nat /\ DOMAIN jobs = 1..Len(jobs)
        /\ j \in Nat /\ j # 0 /\ j <= Len(jobs) /\ jobs[j] \in JobRows
    BY <1>0, LenProperties, ElementOfSeq DEF IndexerTyped, JobsTyped
  <1>3. PICK p \in Receipts(j) :
         LET confirmed == TransactionIsFinalized(p)
             ok == chain[p].ok IN
         IF confirmed /\ ~ok
            THEN /\ jobs' = [jobs EXCEPT ![j].status = "ethereum_reverted"]
                 /\ pending' = pending \ {j}
                 /\ indexer' = Tick("tick", j)
                 /\ UNCHANGED <<account, history>>
            ELSE /\ IF confirmed THEN Apply(j, p)
                    ELSE UNCHANGED <<account, history, pending>>
                 /\ indexer' = [pc |-> "reconciled", row |-> j, job |-> j,
                                status |-> IF confirmed THEN "confirmed"
                                                        ELSE "submitted",
                                block |-> p, hash |-> jobs[j].hash]
                 /\ UNCHANGED jobs
    BY DEF ReconcileJob
  <1>4. p \in DOMAIN indexed /\ p \in Nat
    BY <1>0, <1>2, AncestorTyped DEF Receipts
  <1>5. CASE /\ jobs' = [jobs EXCEPT ![j].status = "ethereum_reverted"]
             /\ pending' = pending \ {j}
             /\ indexer' = Tick("tick", j)
             /\ UNCHANGED <<account, history>>
    <2> DEFINE row == [jobs[j] EXCEPT !.status = "ethereum_reverted"]
    <2>1. row \in JobRows /\ Follows(jobs[j], row)
      BY <1>2, StatusNames, RowStatus
    <2>2. jobs' = [jobs EXCEPT ![j] = row]
      BY <1>5
    <2> HIDE DEF row
    <2>3. JobsFollow /\ DOMAIN jobs' = DOMAIN jobs
      BY <1>0, <2>1, <2>2, OneRow
    <2>4. Len(jobs') \in Nat /\ Len(jobs) <= Len(jobs')
      BY <1>0, <2>3, JobsGrow
    <2>5. writer.job \in Nat
      BY <1>0 DEF AdmissionTyped, WriterRow
    <2>6. AdmissionTyped'
      BY <1>0, <1>1, <1>2, <1>5, <2>3, <2>4, <2>5 DEF AdmissionTyped
    <2>7. /\ indexer' \in IndexerRow /\ indexer'.row = j /\ indexer'.job = 0
          /\ indexer'.pc = "tick"
      BY <1>2, <1>5, TickTyped
    <2>8. IndexerTyped'
      BY <1>0, <1>1, <1>2, <1>5, <2>4, <2>7 DEF IndexerTyped
    <2>9. OutcomeInv' /\ IndexedInv'
      BY <1>1, <2>3, <2>7 DEF GatewayInv, OutcomeInv, IndexedInv
    <2>10. QED
      BY <1>0, <1>1, <2>3, <2>6, <2>8, <2>9, IndexerKeeps, ChainFrame DEF chainVars
  <1>6. CASE /\ Apply(j, p) \/ UNCHANGED <<account, history, pending>>
             /\ \E s \in {"confirmed", "submitted"} :
                  indexer' = [pc |-> "reconciled", row |-> j, job |-> j, status |-> s,
                              block |-> p, hash |-> jobs[j].hash]
             /\ UNCHANGED jobs
    <2>1. /\ account' \in Seq(Blocks) /\ pending' \subseteq pending
          /\ history' \subseteq [job : JobIds, before : Seq(Blocks), block : Nat]
      BY <1>0, <1>4, <1>6, ApplyTyped
    <2>2. AdmissionTyped'
      BY <1>0, <1>1, <1>6, <2>1 DEF AdmissionTyped
    <2>3. jobs[j].hash \in Nat
      BY <1>2 DEF JobRows
    <2>4. /\ indexer' \in IndexerRow /\ indexer'.row = j /\ indexer'.job = j
          /\ indexer'.status \in {"confirmed", "submitted"}
      BY <1>2, <1>4, <1>6, <2>3 DEF IndexerRow
    <2>5. IndexerTyped'
      BY <1>0, <1>1, <1>2, <1>6, <2>1, <2>4 DEF IndexerTyped
    <2>6. OutcomeInv' /\ IndexedInv'
      BY <1>1, <1>2, <1>6, <2>4 DEF GatewayInv, OutcomeInv, IndexedInv
    <2>7. JobsFollow /\ ChainTyped'
      BY <1>0, <1>1, <1>6, SameRows, ChainFrame
    <2>8. QED
      BY <1>1, <2>2, <2>5, <2>6, <2>7, IndexerKeeps DEF chainVars
  <1>7. QED
    BY <1>3, <1>5, <1>6

LEMMA WriteStatusInv ==
    ASSUME GatewayInv, WriteStatus
    PROVE  GatewayInv'
  <1>0. TypeOK /\ JobsTyped /\ ChainTyped /\ AdmissionTyped /\ IndexerTyped
    BY TypeParts DEF GatewayInv
  <1> DEFINE j == indexer.job
             row == [jobs[j] EXCEPT !.status = indexer.status, !.block = indexer.block,
                         !.hash = IF indexer.pc = "recovered" THEN indexer.hash ELSE @]
  <1>1. /\ jobs' = [jobs EXCEPT ![j] = row]
        /\ indexer' = Tick("tick", indexer.row)
        /\ UNCHANGED <<chainVars, writer, token, account, pending, recoveryReady,
                       workerVars, indexed, indexedFinal, history>>
    BY DEF WriteStatus
  <1>2. /\ Len(jobs) \in Nat /\ DOMAIN jobs = 1..Len(jobs)
        /\ indexer.block \in Nat /\ indexer.hash \in Nat
        /\ indexer.row \in Nat /\ indexer.row <= Len(jobs)
        /\ j \in DOMAIN jobs /\ indexer.status \in {"confirmed", "submitted"}
    BY <1>0, LenProperties
       DEF IndexerTyped, IndexerRow, JobsTyped, WriteStatus, GatewayInv, OutcomeInv
  <1>3. jobs[j] \in JobRows
    BY <1>0, <1>2, ElementOfSeq DEF JobsTyped
  <1>4. row \in JobRows /\ Follows(jobs[j], row)
    <2>1. indexer.status \in Statuses
      BY <1>2, StatusNames
    <2>2. \A job \in JobRows, s \in Statuses, b \in Nat, h \in Nat :
             [job EXCEPT !.status = s, !.block = b, !.hash = h] \in JobRows
      BY DEF JobRows
    <2>3. \A job \in JobRows, s \in {"confirmed", "submitted"}, b \in Nat, h \in Nat :
             Follows(job, [job EXCEPT !.status = s, !.block = b, !.hash = h])
      BY DEF JobRows, Follows, Dropped
    <2>4. PICK h \in Nat : row = [jobs[j] EXCEPT !.status = indexer.status,
                                     !.block = indexer.block, !.hash = h]
      <3>1. jobs[j].hash \in Nat
        BY <1>3 DEF JobRows
      <3>2. QED
        BY <1>2, <3>1
    <2>5. QED
      BY <1>2, <1>3, <2>1, <2>2, <2>3, <2>4
  <1> HIDE DEF row, j
  <1>5. JobsFollow /\ DOMAIN jobs' = DOMAIN jobs
    BY <1>0, <1>1, <1>2, <1>4, OneRow
  <1>6. Len(jobs') \in Nat /\ Len(jobs) <= Len(jobs')
    BY <1>0, <1>5, JobsGrow
  <1>7. AdmissionTyped'
    BY <1>0, <1>1, <1>5, AdmissionFrame
  <1>8. /\ indexer' \in IndexerRow /\ indexer'.row = indexer.row /\ indexer'.job = 0
        /\ indexer'.pc = "tick"
    BY <1>1, <1>2, TickTyped
  <1>9. IndexerTyped'
    BY <1>0, <1>1, <1>2, <1>6, <1>8 DEF IndexerTyped
  <1>10. OutcomeInv' /\ IndexedInv'
    BY <1>1, <1>5, <1>8 DEF GatewayInv, OutcomeInv, IndexedInv
  <1>11. QED
    BY <1>0, <1>1, <1>5, <1>7, <1>9, <1>10, IndexerKeeps, ChainFrame DEF chainVars

LEMMA TickEndsInv ==
    ASSUME GatewayInv, EndTick \/ AbortTick
    PROVE  GatewayInv'
  <1>0. TypeOK /\ JobsTyped /\ ChainTyped /\ AdmissionTyped /\ IndexerTyped
    BY TypeParts DEF GatewayInv
  <1>1. /\ indexer' = Tick("start", 0)
        /\ UNCHANGED <<chain, final, mempool, jobs, writer, token, account, pending,
                       workerVars, indexed, indexedFinal, history>>
        /\ recoveryReady' \in BOOLEAN
    BY <1>0 DEF EndTick, AbortTick, chainVars, writerVars, AdmissionTyped
  <1>2. faults' \in 0..MaxFaults
    BY <1>0, FaultTyped DEF EndTick, AbortTick, chainVars, ChainTyped
  <1>3. Len(jobs) \in Nat
    BY <1>0, LenProperties DEF JobsTyped
  <1>4. indexer' \in IndexerRow /\ indexer'.row = 0 /\ indexer'.job = 0 /\ indexer'.pc = "start"
    BY <1>1, TickTyped
  <1>5. IndexerTyped'
    BY <1>0, <1>1, <1>3, <1>4 DEF IndexerTyped
  <1>6. OutcomeInv' /\ IndexedInv'
    BY <1>1, <1>4 DEF GatewayInv, OutcomeInv, IndexedInv
  <1>7. JobsFollow /\ AdmissionTyped' /\ ChainTyped'
    BY <1>0, <1>1, <1>2, SameRows DEF AdmissionTyped, ChainTyped
  <1>8. QED
    BY <1>1, <1>5, <1>6, <1>7, IndexerKeeps

-----------------------------------------------------------------------------
(* The workers.                                                            *)

tableVars == <<writer, token, account, pending, recoveryReady>>

\* A worker takes one step; it comes to pay only for an intent of its own, and
\* to broadcast only what its job has saved.
LEMMA WorkerKeeps ==
    ASSUME GatewayInv, NEW w \in Replicas, NEW r \in WorkerRow,
           worker' = [worker EXCEPT ![w] = r],
           r.job <= Len(jobs), r.pc \notin Resting => r.job # 0 /\ r.attempt # 0,
           r.pc = "broadcast" => r.tx # 0 /\ jobs'[r.job].prepared = r.tx,
           r.pc = "request" =>
               /\ jobs'[r.job].intent # 0 /\ purchased[r.job] = 0
               /\ \A v \in Replicas : v # w /\ At(v, "request") => worker[v].job # r.job,
           JobsFollow, ChainTyped', AdmissionTyped',
           lockHolder' \in Replicas \union {NoReplica},
           UNCHANGED <<chain, mempool, purchased, indexerVars>>
    PROVE  GatewayInv'
  <1>0. JobsTyped /\ WorkerTyped /\ IndexerTyped
    BY TypeParts DEF GatewayInv
  <1>1. /\ Len(jobs) \in Nat /\ Len(jobs') \in Nat /\ Len(jobs) <= Len(jobs')
        /\ DOMAIN jobs = 1..Len(jobs) /\ DOMAIN jobs \subseteq DOMAIN jobs' /\ JobsTyped'
    BY <1>0, JobsGrow
  <1>2. /\ worker'[w] = r /\ \A v \in Replicas : v # w => worker'[v] = worker[v]
        /\ worker' \in [Replicas -> WorkerRow]
    BY <1>0 DEF WorkerTyped
  <1>3. /\ r.job \in Nat /\ \A v \in Replicas : worker[v].job \in Nat
    BY <1>0 DEF WorkerTyped, WorkerRow
  <1>4. WorkerTyped'
    BY <1>0, <1>1, <1>2, <1>3 DEF WorkerTyped
  <1>5. IndexerTyped' /\ OutcomeInv' /\ IndexedInv'
    BY <1>0, <1>1, IndexerFrame DEF GatewayInv, OutcomeInv, IndexedInv, indexerVars
  <1>6. TypeOK'
    BY <1>1, <1>4, <1>5, TypeParts, PTL
  <1>7. BusyInv'
    BY <1>2 DEF GatewayInv, BusyInv
  <1>8. \A v \in Replicas : worker[v].pc \notin Resting => worker[v].job \in DOMAIN jobs
    BY <1>0, <1>1, <1>3 DEF GatewayInv, BusyInv, WorkerTyped
  <1>9. \A j \in DOMAIN jobs :
           /\ jobs[j].prepared # 0 => jobs'[j].prepared = jobs[j].prepared
           /\ jobs[j].intent # 0 => jobs'[j].intent # 0
    BY DEF JobsFollow, Follows
  <1>10. TransactionInv'
    <2>1. \A v \in Replicas : worker'[v].pc = "broadcast" =>
            /\ worker'[v].tx # 0
            /\ jobs'[worker'[v].job].prepared = worker'[v].tx
      <3>1. \A v \in Replicas : v # w /\ worker[v].pc = "broadcast" =>
              /\ worker[v].tx # 0
              /\ jobs'[worker[v].job].prepared = worker[v].tx
        BY <1>8, <1>9 DEF GatewayInv, TransactionInv, At, Resting
      <3>2. QED
        BY <1>2, <3>1
    <2>2. \A tx \in mempool : /\ tx[1] \in DOMAIN jobs' /\ tx[2] # 0
                              /\ jobs'[tx[1]].prepared = tx[2]
      BY <1>1, <1>9 DEF GatewayInv, TransactionInv
    <2>3. \A p \in DOMAIN chain : LET tx == chain[p].tx IN
                              /\ tx[1] \in DOMAIN jobs' /\ tx[2] # 0
                              /\ jobs'[tx[1]].prepared = tx[2]
      BY <1>1, <1>9 DEF GatewayInv, TransactionInv
    <2>4. QED
      BY <2>1, <2>2, <2>3 DEF TransactionInv, At
  <1>11. SignedInv'
    BY DEF GatewayInv, SignedInv, JobsFollow, Follows
  <1>12. PurchaseInv'
    <2>1. \A v \in Replicas : worker[v].pc = "request" =>
            jobs'[worker[v].job].intent # 0 /\ purchased[worker[v].job] = 0
      BY <1>8, <1>9 DEF GatewayInv, PurchaseInv, At, Resting
    <2>2. \A v \in Replicas : worker'[v].pc = "request" =>
            jobs'[worker'[v].job].intent # 0 /\ purchased[worker'[v].job] = 0
      BY <1>2, <2>1
    <2>3. \A u, v \in Replicas : u # v /\ worker'[u].pc = "request" /\ worker'[v].pc = "request" =>
            worker'[u].job # worker'[v].job
      BY <1>2 DEF GatewayInv, PurchaseInv, At
    <2>4. \A j \in JobIds : purchased[j] # 0 =>
            purchased[j] = 1 /\ j \in DOMAIN jobs' /\ jobs'[j].intent # 0
      BY <1>1, <1>9 DEF GatewayInv, PurchaseInv
    <2>5. QED
      BY <2>2, <2>3, <2>4 DEF PurchaseInv, At
  <1>13. QED
    BY <1>5, <1>6, <1>7, <1>10, <1>11, <1>12 DEF GatewayInv

LEMMA WorkingJob ==
    ASSUME GatewayInv, NEW w \in Replicas
    PROVE  /\ worker[w] \in WorkerRow /\ worker[w].job <= Len(jobs)
           /\ worker[w].attempt \in Nat /\ worker[w].job \in Nat
           /\ worker[w].pc \notin Resting =>
                /\ worker[w].job \in DOMAIN jobs /\ worker[w].job # 0
                /\ jobs[worker[w].job] \in JobRows /\ worker[w].attempt # 0
  <1>0. JobsTyped /\ WorkerTyped
    BY TypeParts DEF GatewayInv
  <1>1. Len(jobs) \in Nat /\ DOMAIN jobs = 1..Len(jobs)
    BY <1>0, LenProperties DEF JobsTyped
  <1>2. worker[w] \in WorkerRow /\ worker[w].job <= Len(jobs)
    BY <1>0 DEF WorkerTyped
  <1>3. worker[w].attempt \in Nat /\ worker[w].job \in Nat
    BY <1>2 DEF WorkerRow
  <1>4. ASSUME worker[w].pc \notin Resting
        PROVE  worker[w].job \in DOMAIN jobs /\ worker[w].attempt # 0 /\ worker[w].job # 0
    BY <1>1, <1>2, <1>3, <1>4 DEF GatewayInv, BusyInv
  <1>5. \A j \in DOMAIN jobs : jobs[j] \in JobRows
    BY <1>0, <1>1, ElementOfSeq DEF JobsTyped
  <1>6. QED
    BY <1>2, <1>3, <1>4, <1>5

LEMMA PcTyped ==
    ASSUME NEW r \in WorkerRow, NEW pc \in Stages
    PROVE  LET new == [r EXCEPT !.pc = pc] IN
           /\ new \in WorkerRow /\ new.pc = pc /\ new.job = r.job
           /\ new.attempt = r.attempt /\ new.tx = r.tx
  BY DEF WorkerRow

LEMMA ClassTyped ==
    ASSUME NEW r \in WorkerRow, NEW class \in {"retryable", "fatal"}
    PROVE  LET new == [r EXCEPT !.pc = "fail", !.class = class] IN
           /\ new \in WorkerRow /\ new.pc = "fail" /\ new.job = r.job
           /\ new.attempt = r.attempt
  BY DEF WorkerRow, Stages

\* A worker goes on to the next stage, with or without an update of its row.
LEMMA WorkerGoes ==
    ASSUME GatewayInv, NEW w \in Replicas,
           NEW pc \in Stages \ {"request", "broadcast"}, Goto(w, pc),
           pc \in Resting \/ worker[w].pc \notin Resting,
           JobsFollow, AdmissionTyped', lockHolder' \in Replicas \union {NoReplica},
           UNCHANGED <<chainVars, purchased, indexerVars>>
    PROVE  GatewayInv'
  <1> DEFINE r == [worker[w] EXCEPT !.pc = pc]
  <1>1. /\ r \in WorkerRow /\ r.pc = pc /\ r.job <= Len(jobs)
        /\ r.pc \notin Resting => r.job # 0 /\ r.attempt # 0
    BY WorkingJob, PcTyped
  <1>2. worker' = [worker EXCEPT ![w] = r]
    BY DEF Goto
  <1> HIDE DEF r
  <1>3. ChainTyped'
    BY ChainFrame, TypeParts DEF GatewayInv
  <1>4. QED
    BY <1>1, <1>2, <1>3, WorkerKeeps DEF chainVars

LEMMA WorkerFails ==
    ASSUME GatewayInv, NEW w \in Replicas, worker[w].pc \notin Resting,
           ServiceFails(w) \/ Fenced(w), UNCHANGED indexerVars
    PROVE  GatewayInv'
  <1>0. TypeOK /\ JobsTyped /\ ChainTyped /\ AdmissionTyped /\ WorkerTyped
    BY TypeParts DEF GatewayInv
  <1>1. PICK class \in {"retryable", "fatal"} : Fail(w, class)
    BY DEF ServiceFails, Fenced
  <1> DEFINE r == [worker[w] EXCEPT !.pc = "fail", !.class = class]
  <1>2. /\ r \in WorkerRow /\ r.pc = "fail" /\ r.job <= Len(jobs)
        /\ r.job # 0 /\ r.attempt # 0
    <2>1. /\ worker[w] \in WorkerRow /\ worker[w].job <= Len(jobs)
          /\ worker[w].job # 0 /\ worker[w].attempt # 0
      BY WorkingJob
    <2>2. /\ r \in WorkerRow /\ r.pc = "fail" /\ r.job = worker[w].job
          /\ r.attempt = worker[w].attempt
      BY <2>1, ClassTyped
    <2>3. QED
      BY <2>1, <2>2, Zenon
  <1>3. worker' = [worker EXCEPT ![w] = r]
    BY <1>1 DEF Fail
  <1> HIDE DEF r
  <1>4. UNCHANGED <<chain, final, mempool, writerVars, lockHolder, purchased>>
    BY DEF ServiceFails, Fenced, chainVars
  <1>5. ChainTyped'
    BY <1>0, <1>4, FaultTyped DEF ServiceFails, Fenced, chainVars, ChainTyped
  <1>6. JobsFollow /\ AdmissionTyped'
    BY <1>0, <1>4, SameRows, AdmissionFrame DEF writerVars
  <1>7. QED
    BY <1>0, <1>2, <1>3, <1>4, <1>5, <1>6, WorkerKeeps DEF WorkerTyped

\* A statement on the job's row, and on to the next stage.
LEMMA WorkerUpdates ==
    ASSUME GatewayInv, NEW w \in Replicas, worker[w].pc \notin Resting,
           NEW row \in JobRows, Follows(jobs[worker[w].job], row), Update(w, row),
           NEW pc \in Stages \ {"request", "broadcast"}, Goto(w, pc),
           UNCHANGED <<chainVars, tableVars, lockHolder, purchased, indexerVars>>
    PROVE  GatewayInv'
  <1>0. TypeOK /\ JobsTyped /\ AdmissionTyped /\ WorkerTyped
    BY TypeParts DEF GatewayInv
  <1>1. JobsFollow
    BY <1>0, WorkingJob, OneRow DEF Update
  <1>2. AdmissionTyped'
    BY <1>0, <1>1, AdmissionFrame DEF tableVars
  <1>3. QED
    BY <1>0, <1>1, <1>2, WorkerGoes DEF WorkerTyped

LEMMA StageNames ==
    /\ Stages = {"idle", "recover", "claim", "preflight", "validateApproved",
                 "validateSend", "setProving", "begin", "request", "finish", "wait",
                 "metrics", "send", "sign", "broadcast", "mark", "fail"}
    /\ Resting = {"idle", "recover", "claim"}
  BY DEF Stages, Resting

LEMMA OwnershipInv ==
    ASSUME GatewayInv, NEW w \in Replicas,
           Elect(w) \/ LoseSession(w) \/ Demote(w) \/ Crash(w), UNCHANGED indexerVars
    PROVE  GatewayInv'
  <1>0. TypeOK /\ JobsTyped /\ ChainTyped /\ AdmissionTyped /\ WorkerTyped /\ IndexerTyped
    BY TypeParts DEF GatewayInv
  <1>1. /\ UNCHANGED <<chain, final, mempool, writerVars, purchased>>
        /\ lockHolder' \in Replicas \union {NoReplica}
    BY <1>0 DEF Elect, LoseSession, Demote, Crash, chainVars, WorkerTyped
  <1>2. ChainTyped'
    BY <1>0, <1>1, FaultTyped DEF Elect, LoseSession, Demote, Crash, chainVars, ChainTyped
  <1>3. JobsFollow /\ AdmissionTyped'
    BY <1>0, <1>1, SameRows, AdmissionFrame DEF writerVars
  <1>4. CASE Elect(w)
    <2>1. "recover" \in Stages \ {"request", "broadcast"} /\ "recover" \in Resting
      BY StageNames
    <2>2. QED
      BY <1>1, <1>3, <1>4, <2>1, WorkerGoes DEF Elect
  <1>5. CASE LoseSession(w)
    <2>1. UNCHANGED worker
      BY <1>5 DEF LoseSession
    <2>2. WorkerTyped' /\ JobsTyped' /\ IndexerTyped'
      BY <1>0, <1>1, <1>3, <2>1, JobsGrow, IndexerFrame DEF WorkerTyped, writerVars
    <2>3. TypeOK'
      BY <1>2, <1>3, <2>2, TypeParts, PTL
    <2>4. BusyInv' /\ TransactionInv' /\ SignedInv' /\ PurchaseInv'
      BY <1>1, <1>3, <2>1, QuietStep
    <2>5. OutcomeInv' /\ IndexedInv'
      BY <1>1 DEF GatewayInv, OutcomeInv, IndexedInv, writerVars, indexerVars
    <2>6. QED
      BY <2>3, <2>4, <2>5 DEF GatewayInv
  <1>6. CASE Demote(w) \/ Crash(w)
    <2>1. worker' = [worker EXCEPT ![w] = IdleWorker]
      BY <1>6 DEF Demote, Crash
    <2>2. IdleWorker \in WorkerRow /\ IdleWorker.pc = "idle" /\ IdleWorker.job = 0
      BY StageNames DEF IdleWorker, WorkerRow
    <2>3. 0 <= Len(jobs) /\ "idle" \in Resting
      BY <1>0, LenProperties, StageNames DEF JobsTyped
    <2>4. QED
      BY <1>1, <1>2, <1>3, <2>1, <2>2, <2>3, WorkerKeeps
  <1>7. QED
    BY <1>4, <1>5, <1>6

LEMMA RecoverInterruptedInv ==
    ASSUME GatewayInv, NEW w \in Replicas, RecoverInterrupted(w), UNCHANGED indexerVars
    PROVE  GatewayInv'
  <1>0. TypeOK /\ JobsTyped /\ AdmissionTyped /\ WorkerTyped
    BY TypeParts DEF GatewayInv
  <1>1. \A j \in DOMAIN jobs : jobs[j] \in JobRows
    BY <1>0, LenProperties, ElementOfSeq DEF JobsTyped
  <1>2. DOMAIN jobs' = DOMAIN jobs /\ jobs' = [j \in DOMAIN jobs' |-> jobs'[j]]
        /\ \A j \in DOMAIN jobs : jobs'[j] = Interrupted(jobs[j])
    BY DEF RecoverInterrupted
  <1>3. JobsFollow
    BY <1>0, <1>1, <1>2, InterruptedRow, AllRows
  <1>4. AdmissionTyped'
    BY <1>0, <1>3, AdmissionFrame DEF RecoverInterrupted
  <1>5. "claim" \in Stages \ {"request", "broadcast"} /\ "claim" \in Resting
    BY StageNames
  <1>6. QED
    BY <1>0, <1>3, <1>4, <1>5, WorkerGoes DEF RecoverInterrupted, WorkerTyped

LEMMA ClaimJobInv ==
    ASSUME GatewayInv, NEW w \in Replicas, ClaimJob(w), UNCHANGED indexerVars
    PROVE  GatewayInv'
  <1>0. TypeOK /\ JobsTyped /\ ChainTyped /\ AdmissionTyped /\ WorkerTyped
    BY TypeParts DEF GatewayInv
  <1>1. /\ Len(jobs) \in Nat /\ DOMAIN jobs = 1..Len(jobs)
        /\ \A j \in DOMAIN jobs : jobs[j] \in JobRows
    BY <1>0, LenProperties, ElementOfSeq DEF JobsTyped
  <1>2. /\ writer' = Locked
        /\ UNCHANGED <<chainVars, token, account, pending, recoveryReady,
                       lockHolder, purchased>>
    BY DEF ClaimJob
  <1>3. Locked \in WriterRow /\ Locked.job <= Len(jobs)
    BY <1>0, LockedTyped
  <1>4. lockHolder' \in Replicas \union {NoReplica} /\ ChainTyped'
    BY <1>0, <1>2, ChainFrame DEF WorkerTyped
  <1> DEFINE claimable == {j \in DOMAIN jobs : Claimable(j, Locked)}
  <1>5. CASE claimable = {}
    <2>1. UNCHANGED <<jobs, worker>>
      BY <1>5 DEF ClaimJob
    <2>2. JobsFollow /\ AdmissionTyped'
      BY <1>0, <1>2, <1>3, <2>1, SameRows DEF AdmissionTyped
    <2>3. QED
      BY <1>2, <2>1, <2>2, TableStep DEF workerVars
  <1>6. CASE claimable # {}
    <2> DEFINE j == Min(claimable)
               job == jobs[j]
               row == [job EXCEPT !.status = IF job.status = "approved" THEN "proving"
                                                                        ELSE "validating",
                                  !.attempts = job.attempts + 1]
               r == [pc |-> Entry(job), job |-> j, attempt |-> job.attempts + 1,
                     requestId |-> job.requestId, tx |-> 0, class |-> "none"]
    <2>1. jobs' = [jobs EXCEPT
                     ![j].status = IF job.status = "approved" THEN "proving"
                                                              ELSE "validating",
                     ![j].attempts = job.attempts + 1]
          /\ worker' = [worker EXCEPT ![w] = r]
      BY <1>6, Zenon DEF ClaimJob
    <2>2. j \in claimable
      <3>1. claimable \in SUBSET Nat
        BY <1>1
      <3>2. QED
        BY <1>6, <3>1, MinMember
    <2>3. j \in DOMAIN jobs
      BY <2>2
    <2> HIDE DEF claimable, j
    <2>4. job \in JobRows
      BY <1>1, <2>3
    <2>5. jobs' = [jobs EXCEPT ![j] = row]
      BY <2>1, <2>3, <1>1
    <2>6. Entry(job) \in Stages \ {"request", "broadcast"}
      BY StageNames DEF Entry
    <2>7. job.attempts \in Nat /\ job.requestId \in Nat
      BY <2>4 DEF JobRows
    <2>8. row \in JobRows /\ Follows(jobs[j], row)
      <3>1. \A old \in JobRows, s \in {"proving", "validating"}, n \in Nat :
               LET new == [old EXCEPT !.status = s, !.attempts = n] IN
               Follows(old, new)
        BY DEF JobRows, Follows, Dropped
      <3>2. {"proving", "validating"} \subseteq Statuses
        BY StatusNames
      <3>3. \A old \in JobRows, s \in Statuses, n \in Nat :
               [old EXCEPT !.status = s, !.attempts = n] \in JobRows
        BY DEF JobRows
      <3>4. PICK s \in {"proving", "validating"} :
               row = [job EXCEPT !.status = s, !.attempts = job.attempts + 1]
        OBVIOUS
      <3>5. job.attempts + 1 \in Nat
        BY <2>7
      <3> HIDE DEF row
      <3>6. QED
        BY <2>4, <3>1, <3>2, <3>3, <3>4, <3>5
    <2>9. /\ r \in WorkerRow /\ r.job = j /\ r.attempt # 0 /\ r.pc = Entry(job)
      BY <1>1, <2>3, <2>6, <2>7 DEF WorkerRow
    <2> HIDE DEF row, r, job
    <2>10. JobsFollow /\ DOMAIN jobs' = DOMAIN jobs
      BY <1>0, <2>3, <2>5, <2>8, OneRow
    <2>11. Len(jobs') \in Nat /\ Len(jobs) <= Len(jobs')
      BY <1>0, <2>10, JobsGrow
    <2>12. Locked.job \in Nat
      BY <1>3 DEF WriterRow
    <2>13. AdmissionTyped'
      BY <1>0, <1>1, <1>2, <1>3, <2>10, <2>11, <2>12 DEF AdmissionTyped
    <2>14. j <= Len(jobs) /\ j # 0
      BY <1>1, <2>3
    <2>15. QED
      BY <1>2, <1>4, <2>1, <2>6, <2>9, <2>10, <2>13, <2>14, WorkerKeeps DEF chainVars
  <1>7. QED
    BY <1>5, <1>6

\* The stages of process_job that end where nothing is paid or broadcast.
LEMMA PreflightInv ==
    ASSUME GatewayInv, NEW w \in Replicas, Preflight(w), UNCHANGED indexerVars
    PROVE  GatewayInv'
  <1>0. TypeOK /\ AdmissionTyped /\ WorkerTyped /\ JobsTyped
    BY TypeParts DEF GatewayInv
  <1>1. worker[w].pc \notin Resting
    BY StageNames DEF Preflight, At
  <1>2. jobs[worker[w].job] \in JobRows
    BY <1>1, WorkingJob
  <1>3. CASE ServiceFails(w) \/ Fenced(w)
    BY <1>1, <1>3, WorkerFails
  <1>4. CASE /\ Update(w, [jobs[worker[w].job] EXCEPT !.status = "awaiting_approval"])
             /\ Goto(w, "claim")
             /\ UNCHANGED <<chainVars, writer, token, account, pending,
                            recoveryReady, lockHolder, purchased>>
    <2>1. LET row == [jobs[worker[w].job] EXCEPT !.status = "awaiting_approval"] IN
          row \in JobRows /\ Follows(jobs[worker[w].job], row)
      BY <1>2, StatusNames, RowStatus
    <2>2. "claim" \in Stages \ {"request", "broadcast"}
      BY StageNames
    <2>3. QED
      BY <1>1, <1>4, <2>1, <2>2, WorkerUpdates DEF tableVars
  <1>5. CASE /\ Goto(w, "setProving") /\ UNCHANGED jobs
             /\ UNCHANGED <<chainVars, writer, token, account, pending,
                            recoveryReady, lockHolder, purchased>>
    <2>1. "setProving" \in Stages \ {"request", "broadcast"}
      BY StageNames
    <2>2. JobsFollow /\ AdmissionTyped'
      BY <1>0, <1>5, SameRows, AdmissionFrame
    <2>3. QED
      BY <1>0, <1>1, <1>5, <2>1, <2>2, WorkerGoes DEF WorkerTyped
  <1>6. QED
    BY <1>3, <1>4, <1>5 DEF Preflight

LEMMA ChecksInv ==
    ASSUME GatewayInv, NEW w \in Replicas, Validate(w) \/ Metrics(w), UNCHANGED indexerVars
    PROVE  GatewayInv'
  <1>0. TypeOK /\ AdmissionTyped /\ WorkerTyped /\ JobsTyped
    BY TypeParts DEF GatewayInv
  <1>1. worker[w].pc \notin Resting
    BY StageNames DEF Validate, Metrics, At
  <1>2. CASE ServiceFails(w) \/ Fenced(w)
    BY <1>1, <1>2, WorkerFails
  <1>3. CASE /\ \E pc \in {"send", "setProving"} : Goto(w, pc)
             /\ UNCHANGED <<chainVars, writerVars, lockHolder, purchased>>
    <2>1. {"send", "setProving"} \subseteq Stages \ {"request", "broadcast"}
      BY StageNames
    <2>2. JobsFollow /\ AdmissionTyped'
      BY <1>0, <1>3, SameRows, AdmissionFrame DEF writerVars
    <2>3. QED
      BY <1>0, <1>1, <1>3, <2>1, <2>2, WorkerGoes DEF WorkerTyped
  <1>4. QED
    BY <1>2, <1>3 DEF Validate, Metrics

LEMMA SetProvingInv ==
    ASSUME GatewayInv, NEW w \in Replicas, SetProving(w), UNCHANGED indexerVars
    PROVE  GatewayInv'
  <1>1. worker[w].pc \notin Resting
    BY StageNames DEF SetProving, At
  <1>2. jobs[worker[w].job] \in JobRows
    BY <1>1, WorkingJob
  <1>3. CASE Fenced(w)
    BY <1>1, <1>3, WorkerFails
  <1>4. CASE /\ Update(w, [jobs[worker[w].job] EXCEPT !.status = "proving"])
             /\ \E pc \in {"wait", "begin"} : Goto(w, pc)
             /\ UNCHANGED <<chainVars, writer, token, account, pending,
                            recoveryReady, lockHolder, purchased>>
    <2>1. LET row == [jobs[worker[w].job] EXCEPT !.status = "proving"] IN
          row \in JobRows /\ Follows(jobs[worker[w].job], row)
      BY <1>2, StatusNames, RowStatus
    <2>2. {"wait", "begin"} \subseteq Stages \ {"request", "broadcast"}
      BY StageNames
    <2>3. QED
      BY <1>1, <1>4, <2>1, <2>2, WorkerUpdates DEF tableVars
  <1>5. QED
    BY <1>3, <1>4 DEF SetProving

LEMMA WaitProofInv ==
    ASSUME GatewayInv, NEW w \in Replicas, WaitProof(w), UNCHANGED indexerVars
    PROVE  GatewayInv'
  <1>1. worker[w].pc \notin Resting
    BY StageNames DEF WaitProof, At
  <1>2. jobs[worker[w].job] \in JobRows
    BY <1>1, WorkingJob
  <1>3. CASE ServiceFails(w) \/ Fenced(w)
    BY <1>1, <1>3, WorkerFails
  <1>4. CASE /\ Update(w, [jobs[worker[w].job] EXCEPT !.proof = TRUE])
             /\ Goto(w, "metrics")
             /\ UNCHANGED <<chainVars, writer, token, account, pending,
                            recoveryReady, lockHolder, purchased>>
    <2>1. LET row == [jobs[worker[w].job] EXCEPT !.proof = TRUE] IN
          row \in JobRows /\ Follows(jobs[worker[w].job], row)
      BY <1>2 DEF JobRows, Follows, Dropped
    <2>2. "metrics" \in Stages \ {"request", "broadcast"}
      BY StageNames
    <2>3. QED
      BY <1>1, <1>4, <2>1, <2>2, WorkerUpdates DEF tableVars
  <1>5. QED
    BY <1>3, <1>4 DEF WaitProof

LEMMA MarkInv ==
    ASSUME GatewayInv, NEW w \in Replicas, MarkSubmitted(w), UNCHANGED indexerVars
    PROVE  GatewayInv'
  <1>0. TypeOK /\ AdmissionTyped /\ WorkerTyped /\ JobsTyped
    BY TypeParts DEF GatewayInv
  <1>1. worker[w].pc \notin Resting
    BY StageNames DEF MarkSubmitted, At
  <1>2. jobs[worker[w].job] \in JobRows
    BY <1>1, WorkingJob
  <1>3. "claim" \in Stages \ {"request", "broadcast"}
    BY StageNames
  <1>4. /\ Goto(w, "claim")
        /\ UNCHANGED <<chainVars, writer, token, account, pending, recoveryReady,
                       lockHolder, purchased>>
    BY DEF MarkSubmitted
  <1>5. CASE Update(w, [jobs[worker[w].job] EXCEPT !.status = "submitted"])
    <2>1. LET row == [jobs[worker[w].job] EXCEPT !.status = "submitted"] IN
          row \in JobRows /\ Follows(jobs[worker[w].job], row)
      BY <1>2, StatusNames, RowStatus
    <2>2. QED
      BY <1>1, <1>3, <1>4, <1>5, <2>1, WorkerUpdates DEF tableVars
  <1>6. CASE UNCHANGED jobs
    <2>1. JobsFollow /\ AdmissionTyped'
      BY <1>0, <1>4, <1>6, SameRows, AdmissionFrame
    <2>2. QED
      BY <1>0, <1>1, <1>3, <1>4, <2>1, WorkerGoes DEF WorkerTyped
  <1>7. QED
    BY <1>5, <1>6 DEF MarkSubmitted

\* A failure gives a job up only when nothing was signed for it.
LEMMA RecordFailureInv ==
    ASSUME GatewayInv, NEW w \in Replicas, RecordFailure(w), UNCHANGED indexerVars
    PROVE  GatewayInv'
  <1>0. TypeOK /\ AdmissionTyped /\ WorkerTyped /\ JobsTyped
    BY TypeParts DEF GatewayInv
  <1>1. worker[w].pc \notin Resting
    BY StageNames DEF RecordFailure, At
  <1> DEFINE j == worker[w].job
             status == FailedStatus(jobs[j], worker[w].class)
             row == [jobs[j] EXCEPT !.status = status]
  <1>2. jobs[j] \in JobRows /\ j \in DOMAIN jobs
    BY <1>1, WorkingJob
  <1>3. "claim" \in Stages \ {"request", "broadcast"} /\ "claim" \in Resting
    BY StageNames
  <1>4. /\ Goto(w, "claim")
        /\ UNCHANGED <<chainVars, writer, token, account, recoveryReady,
                       lockHolder, purchased>>
    BY DEF RecordFailure
  <1>5. CASE UNCHANGED <<jobs, pending>>
    <2>1. JobsFollow /\ AdmissionTyped'
      BY <1>0, <1>4, <1>5, SameRows, AdmissionFrame
    <2>2. QED
      BY <1>0, <1>3, <1>4, <2>1, WorkerGoes DEF WorkerTyped
  <1>6. CASE Update(w, row) /\ pending' \subseteq pending
    <2>1. /\ status \in {"queued", "approved", "failed"}
          /\ status = "failed" => jobs[j].prepared = 0
      BY DEF FailedStatus
    <2>2. status \in Statuses
      BY <2>1, StatusNames
    <2>3. jobs' = [jobs EXCEPT ![j] = row]
      BY <1>6 DEF Update
    <2>4. row \in JobRows /\ Follows(jobs[j], row)
      <3> HIDE DEF status
      <3>1. QED
        BY <1>2, <2>1, <2>2, RowStatus
    <2> HIDE DEF row, status, j
    <2>5. JobsFollow /\ DOMAIN jobs' = DOMAIN jobs
      BY <1>0, <1>2, <2>3, <2>4, OneRow
    <2>6. Len(jobs') \in Nat /\ Len(jobs) \in Nat /\ Len(jobs) <= Len(jobs')
      BY <1>0, <2>5, JobsGrow
    <2>7. writer.job \in Nat
      BY <1>0 DEF AdmissionTyped, WriterRow
    <2>8. AdmissionTyped'
      BY <1>0, <1>4, <1>6, <2>5, <2>6, <2>7 DEF AdmissionTyped
    <2>9. QED
      BY <1>0, <1>3, <1>4, <2>5, <2>8, WorkerGoes DEF WorkerTyped
  <1>7. QED
    <2>1. \/ UNCHANGED <<jobs, pending>>
          \/ Update(w, row) /\ pending' \subseteq pending
      BY DEF RecordFailure
    <2>2. QED
      BY <1>5, <1>6, <2>1

\* An attempt seals the job's one intent and may pay: nobody else does.
LEMMA BeginInv ==
    ASSUME GatewayInv, NEW w \in Replicas, BeginProofRequest(w), UNCHANGED indexerVars
    PROVE  GatewayInv'
  <1>0. TypeOK /\ ChainTyped /\ AdmissionTyped /\ WorkerTyped /\ JobsTyped
    BY TypeParts DEF GatewayInv
  <1>1. worker[w].pc \notin Resting
    BY StageNames DEF BeginProofRequest, At
  <1> DEFINE j == worker[w].job
             row == [jobs[j] EXCEPT !.intent = worker[w].attempt]
             r == [worker[w] EXCEPT !.pc = "request"]
  <1>2. /\ jobs[j] \in JobRows /\ j \in DOMAIN jobs /\ j # 0 /\ j <= Len(jobs)
        /\ worker[w].attempt \in Nat /\ worker[w].attempt # 0 /\ worker[w] \in WorkerRow
    BY <1>1, WorkingJob
  <1>3. CASE ServiceFails(w) \/ Fenced(w)
    BY <1>1, <1>3, WorkerFails
  <1>4. CASE /\ CanBegin(w) /\ Update(w, row) /\ Goto(w, "request")
             /\ UNCHANGED <<chainVars, writer, token, account, pending,
                            recoveryReady, lockHolder, purchased>>
    <2>1. jobs[j].intent = 0
      BY <1>4 DEF CanBegin
    <2>2. row \in JobRows /\ Follows(jobs[j], row) /\ row.intent = worker[w].attempt
      BY <1>2, <2>1 DEF JobRows, Follows, Dropped
    <2>3. jobs' = [jobs EXCEPT ![j] = row] /\ worker' = [worker EXCEPT ![w] = r]
      BY <1>4 DEF Update, Goto
    <2>4. r \in WorkerRow /\ r.pc = "request" /\ r.job = j /\ r.attempt = worker[w].attempt
      BY <1>2, StageNames, PcTyped
    <2>5. j \in JobIds
      BY <1>0, <1>2, LenProperties, WriterAssumption DEF JobsTyped, JobIds
    <2>6. purchased[j] = 0
      BY <2>1, <2>5 DEF GatewayInv, PurchaseInv
    <2>7. \A v \in Replicas : At(v, "request") => worker[v].job # j
      BY <2>1 DEF GatewayInv, PurchaseInv
    <2> HIDE DEF row, r, j
    <2>8. JobsFollow /\ jobs'[j] = row
      BY <1>0, <1>2, <2>2, <2>3, OneRow
    <2>9. AdmissionTyped' /\ ChainTyped'
      BY <1>0, <1>4, <2>8, AdmissionFrame, ChainFrame
    <2>10. jobs'[j].intent # 0
      BY <1>2, <2>2, <2>8
    <2>11. QED
      BY <1>0, <1>2, <1>4, <2>3, <2>4, <2>6, <2>7, <2>8, <2>9, <2>10, WorkerKeeps
         DEF WorkerTyped, chainVars
  <1>5. QED
    BY <1>3, <1>4 DEF BeginProofRequest

\* The one payment for the job.
LEMMA RequestInv ==
    ASSUME GatewayInv, NEW w \in Replicas, RequestProof(w), UNCHANGED indexerVars
    PROVE  GatewayInv'
  <1>0. TypeOK /\ ChainTyped /\ AdmissionTyped /\ WorkerTyped /\ JobsTyped /\ IndexerTyped
    BY TypeParts DEF GatewayInv
  <1>1. worker[w].pc \notin Resting /\ worker[w].pc = "request"
    BY StageNames DEF RequestProof, At
  <1> DEFINE j == worker[w].job
  <1>2. /\ jobs[j] \in JobRows /\ j \in DOMAIN jobs /\ j # 0 /\ j <= Len(jobs)
        /\ worker[w].attempt \in Nat /\ worker[w].attempt # 0 /\ worker[w] \in WorkerRow
    BY <1>1, WorkingJob
  <1>3. CASE ServiceFails(w)
    BY <1>1, <1>3, WorkerFails
  <1>4. CASE /\ purchased' = [purchased EXCEPT ![j] = @ + 1]
             /\ \/ Goto(w, "finish") /\ UNCHANGED faults
                \/ Fault /\ Fail(w, "retryable")
             /\ UNCHANGED <<chain, final, mempool, writerVars, lockHolder>>
    <2> DEFINE went == [worker[w] EXCEPT !.pc = "finish"]
               failed == [worker[w] EXCEPT !.pc = "fail", !.class = "retryable"]
    <2>a. PICK r \in {went, failed} : worker' = [worker EXCEPT ![w] = r]
      BY <1>4 DEF Goto, Fail
    <2>b. /\ went \in WorkerRow /\ went.job = j /\ went.attempt = worker[w].attempt
          /\ went.pc = "finish"
      BY <1>2, StageNames, PcTyped
    <2>c. /\ failed \in WorkerRow /\ failed.job = j
          /\ failed.attempt = worker[w].attempt /\ failed.pc = "fail"
      BY <1>2, ClassTyped
    <2> HIDE DEF went, failed
    <2>1. /\ worker' = [worker EXCEPT ![w] = r] /\ r \in WorkerRow
          /\ r.job = j /\ r.attempt # 0 /\ r.pc \in {"finish", "fail"}
      BY <1>2, <2>a, <2>b, <2>c
    <2>2. /\ worker'[w] = r /\ \A v \in Replicas : v # w => worker'[v] = worker[v]
          /\ worker' \in [Replicas -> WorkerRow]
      BY <1>0, <2>1 DEF WorkerTyped
    <2>3. j \in JobIds
      BY <1>0, <1>2, LenProperties, WriterAssumption DEF JobsTyped, JobIds
    <2>4. purchased[j] = 0 /\ jobs[j].intent # 0
      BY <1>1 DEF GatewayInv, PurchaseInv, At
    <2> HIDE DEF j
    <2>5. /\ purchased' \in [JobIds -> Nat] /\ purchased'[j] = 1
          /\ \A k \in JobIds : k # j => purchased'[k] = purchased[k]
      BY <1>0, <1>4, <2>3, <2>4 DEF WorkerTyped
    <2>6. ChainTyped'
      BY <1>0, <1>4, FaultTyped DEF ChainTyped
    <2>7. WorkerTyped'
      BY <1>0, <1>2, <1>4, <2>1, <2>2, <2>5 DEF WorkerTyped, writerVars
    <2>8. JobsFollow
      BY <1>0, <1>4, SameRows DEF writerVars
    <2>9. JobsTyped' /\ AdmissionTyped' /\ IndexerTyped'
      BY <1>0, <1>4, <2>8, JobsGrow, AdmissionFrame, IndexerFrame DEF writerVars
    <2>10. TypeOK'
      BY <2>6, <2>7, <2>9, TypeParts, PTL
    <2>11. BusyInv'
      BY <1>2, <2>1, <2>2 DEF GatewayInv, BusyInv
    <2>12. OutcomeInv' /\ IndexedInv' /\ SignedInv'
      BY <1>4 DEF GatewayInv, OutcomeInv, IndexedInv, SignedInv, writerVars, indexerVars
    <2>13. TransactionInv'
      BY <1>4, <2>1, <2>2 DEF GatewayInv, TransactionInv, At, writerVars
    <2>14. PurchaseInv'
      <3>1. \A v \in Replicas : worker'[v].pc = "request" =>
               v # w /\ worker'[v] = worker[v] /\ worker[v].job # j
               /\ jobs[worker[v].job].intent # 0 /\ purchased[worker[v].job] = 0
        BY <1>1, <2>1, <2>2 DEF GatewayInv, PurchaseInv, At, j
      <3>2. \A v \in Replicas : worker'[v].pc = "request" => worker[v].job \in JobIds
        <4>1. \A v \in Replicas : worker[v].pc = "request" => worker[v].job \in DOMAIN jobs
          BY StageNames, WorkingJob
        <4>2. DOMAIN jobs \subseteq JobIds
          BY <1>0, LenProperties, WriterAssumption DEF JobsTyped, JobIds
        <4>3. QED
          BY <3>1, <4>1, <4>2
      <3>3. \A v \in Replicas : worker'[v].pc = "request" =>
               jobs'[worker'[v].job].intent # 0 /\ purchased'[worker'[v].job] = 0
        BY <1>4, <2>5, <3>1, <3>2 DEF writerVars
      <3>4. \A u, v \in Replicas : u # v /\ worker'[u].pc = "request"
                                   /\ worker'[v].pc = "request" =>
               worker'[u].job # worker'[v].job
        BY <3>1 DEF GatewayInv, PurchaseInv, At
      <3>5. \A k \in JobIds : purchased'[k] # 0 =>
               purchased'[k] = 1 /\ k \in DOMAIN jobs' /\ jobs'[k].intent # 0
        BY <1>2, <1>4, <2>4, <2>5 DEF GatewayInv, PurchaseInv, writerVars
      <3>6. QED
        BY <3>3, <3>4, <3>5 DEF PurchaseInv, At
    <2>15. QED
      BY <2>10, <2>11, <2>12, <2>13, <2>14 DEF GatewayInv
  <1>5. QED
    BY <1>3, <1>4 DEF RequestProof

LEMMA FinishInv ==
    ASSUME GatewayInv, NEW w \in Replicas, FinishProofRequest(w), UNCHANGED indexerVars
    PROVE  GatewayInv'
  <1>0. TypeOK /\ ChainTyped /\ AdmissionTyped /\ WorkerTyped /\ JobsTyped
    BY TypeParts DEF GatewayInv
  <1>1. worker[w].pc \notin Resting
    BY StageNames DEF FinishProofRequest, At
  <1> DEFINE j == worker[w].job
             row == [jobs[j] EXCEPT !.requestId = worker[w].attempt,
                          !.status = IF @ = "proving" THEN "proof_requested" ELSE @]
             r == [worker[w] EXCEPT !.pc = "wait", !.requestId = worker[w].attempt]
  <1>2. /\ jobs[j] \in JobRows /\ j \in DOMAIN jobs /\ j # 0 /\ j <= Len(jobs)
        /\ worker[w].attempt \in Nat /\ worker[w].attempt # 0 /\ worker[w] \in WorkerRow
    BY <1>1, WorkingJob
  <1>3. CASE Fenced(w)
    BY <1>1, <1>3, WorkerFails
  <1>4. CASE /\ Update(w, row) /\ worker' = [worker EXCEPT ![w] = r]
             /\ UNCHANGED <<chainVars, writer, token, account, pending,
                            recoveryReady, lockHolder, purchased>>
    <2>1. PICK s \in Statuses :
             /\ row = [jobs[j] EXCEPT !.requestId = worker[w].attempt, !.status = s]
             /\ s = jobs[j].status \/ s = "proof_requested"
      <3>1. jobs[j].status \in Statuses /\ "proof_requested" \in Statuses
        BY <1>2, StatusNames DEF JobRows
      <3>2. QED
        BY <3>1
    <2>2. row \in JobRows
      <3>1. \A old \in JobRows, n \in Nat :
               [old EXCEPT !.requestId = n, !.status = s] \in JobRows
        BY DEF JobRows
      <3> HIDE DEF row
      <3>2. QED
        BY <1>2, <2>1, <3>1
    <2>3. Follows(jobs[j], row)
      <3>1. \A old \in JobRows, n \in Nat : s = old.status \/ s = "proof_requested" =>
               Follows(old, [old EXCEPT !.requestId = n, !.status = s])
        BY DEF JobRows, Follows, Dropped
      <3> HIDE DEF row
      <3>2. QED
        BY <1>2, <2>1, <3>1
    <2>4. r \in WorkerRow /\ r.pc = "wait" /\ r.job = j /\ r.attempt = worker[w].attempt
      BY <1>2, StageNames DEF WorkerRow
    <2>5. jobs' = [jobs EXCEPT ![j] = row]
      BY <1>4 DEF Update
    <2> HIDE DEF row, r, j
    <2>6. JobsFollow
      BY <1>0, <1>2, <2>2, <2>3, <2>5, OneRow
    <2>7. AdmissionTyped' /\ ChainTyped'
      BY <1>0, <1>4, <2>6, AdmissionFrame, ChainFrame
    <2>8. QED
      BY <1>0, <1>2, <1>4, <2>4, <2>6, <2>7, WorkerKeeps DEF WorkerTyped, chainVars
  <1>5. QED
    BY <1>3, <1>4 DEF FinishProofRequest

-----------------------------------------------------------------------------
(* Submission.                                                             *)

\* send: what was saved is sent again; otherwise the job is to be signed.
LEMMA SendInv ==
    ASSUME GatewayInv, NEW w \in Replicas, Send(w), UNCHANGED indexerVars
    PROVE  GatewayInv'
  <1>0. TypeOK /\ ChainTyped /\ AdmissionTyped /\ WorkerTyped /\ JobsTyped
    BY TypeParts DEF GatewayInv
  <1>1. worker[w].pc \notin Resting
    BY StageNames DEF Send, At
  <1> DEFINE j == worker[w].job
             job == jobs[j]
             row == [job EXCEPT !.proof = TRUE, !.status = "submitting",
                          !.hash = IF job.prepared # 0 THEN job.prepared ELSE @]
             r == [worker[w] EXCEPT
                     !.pc = IF job.prepared # 0 THEN "broadcast" ELSE "sign",
                     !.tx = job.prepared]
  <1>2. /\ job \in JobRows /\ j \in DOMAIN jobs /\ j # 0 /\ j <= Len(jobs)
        /\ worker[w].attempt # 0 /\ worker[w] \in WorkerRow
    BY <1>1, WorkingJob
  <1>3. CASE Fenced(w)
    BY <1>1, <1>3, WorkerFails
  <1>4. CASE /\ jobs' = [jobs EXCEPT ![j] = row] /\ worker' = [worker EXCEPT ![w] = r]
             /\ UNCHANGED <<chainVars, writer, token, account, pending,
                            recoveryReady, lockHolder, purchased>>
    <2>1. job.prepared \in Nat /\ job.hash \in Nat
      BY <1>2 DEF JobRows
    <2>2. row \in JobRows /\ Follows(job, row) /\ row.prepared = job.prepared
      <3>1. PICK h \in Nat : row = [job EXCEPT !.proof = TRUE, !.status = "submitting",
                                               !.hash = h]
        BY <2>1
      <3>2. "submitting" \in Statuses
        BY StatusNames
      <3>3. \A old \in JobRows : \A n \in Nat :
              LET new == [old EXCEPT !.proof = TRUE, !.status = "submitting", !.hash = n] IN
              new \in JobRows /\ Follows(old, new) /\ new.prepared = old.prepared
        BY <3>2 DEF JobRows, Follows, Dropped
      <3> HIDE DEF row
      <3>4. QED
        BY <1>2, <3>1, <3>3
    <2>3. /\ r \in WorkerRow /\ r.job = j /\ r.attempt = worker[w].attempt
          /\ r.tx = job.prepared /\ r.pc \in {"broadcast", "sign"}
          /\ r.pc = "broadcast" => job.prepared # 0
      BY <1>2, <2>1, StageNames DEF WorkerRow
    <2> HIDE DEF row, r, job
    <2>4. JobsFollow /\ jobs'[j] = row
      BY <1>0, <1>2, <1>4, <2>2, OneRow DEF job
    <2>5. AdmissionTyped' /\ ChainTyped'
      BY <1>0, <1>4, <2>4, AdmissionFrame, ChainFrame
    <2> HIDE DEF j
    <2>6. QED
      BY <1>0, <1>2, <1>4, <2>2, <2>3, <2>4, <2>5, WorkerKeeps DEF WorkerTyped, chainVars
  <1>5. QED
    BY <1>3, <1>4 DEF Send, Update

\* The signed bytes are saved once, and then broadcast.
LEMMA SignInv ==
    ASSUME GatewayInv, NEW w \in Replicas, Sign(w), UNCHANGED indexerVars
    PROVE  GatewayInv'
  <1>0. TypeOK /\ ChainTyped /\ AdmissionTyped /\ WorkerTyped /\ JobsTyped
    BY TypeParts DEF GatewayInv
  <1>1. worker[w].pc \notin Resting
    BY StageNames DEF Sign, At
  <1> DEFINE j == worker[w].job
             row == [jobs[j] EXCEPT !.prepared = worker[w].attempt,
                                    !.hash = worker[w].attempt]
             r == [worker[w] EXCEPT !.pc = "broadcast", !.tx = worker[w].attempt]
  <1>2. /\ jobs[j] \in JobRows /\ j \in DOMAIN jobs /\ j # 0 /\ j <= Len(jobs)
        /\ worker[w].attempt \in Nat /\ worker[w].attempt # 0 /\ worker[w] \in WorkerRow
    BY <1>1, WorkingJob
  <1>3. CASE ServiceFails(w) \/ Fenced(w)
    BY <1>1, <1>3, WorkerFails
  <1>4. CASE /\ CanSign(w)
             /\ jobs' = [jobs EXCEPT ![j] = row] /\ worker' = [worker EXCEPT ![w] = r]
             /\ UNCHANGED <<chainVars, writer, token, account, pending,
                            recoveryReady, lockHolder, purchased>>
    <2>1. jobs[j].prepared = 0 /\ jobs[j].status = "submitting"
      BY <1>4 DEF CanSign, Holds
    <2>2. row \in JobRows /\ Follows(jobs[j], row) /\ row.prepared = worker[w].attempt
      BY <1>2, <2>1 DEF JobRows, Follows, Dropped
    <2>3. /\ r \in WorkerRow /\ r.job = j /\ r.attempt = worker[w].attempt
          /\ r.tx = worker[w].attempt /\ r.pc = "broadcast"
      BY <1>2, StageNames DEF WorkerRow
    <2> HIDE DEF row, r, j
    <2>4. JobsFollow /\ jobs'[j] = row
      BY <1>0, <1>2, <1>4, <2>2, OneRow
    <2>5. AdmissionTyped' /\ ChainTyped'
      BY <1>0, <1>4, <2>4, AdmissionFrame, ChainFrame
    <2>6. QED
      BY <1>0, <1>2, <1>4, <2>2, <2>3, <2>4, <2>5, WorkerKeeps DEF WorkerTyped, chainVars
  <1>5. QED
    BY <1>3, <1>4 DEF Sign, Update

\* What is broadcast is what the job has saved.
LEMMA BroadcastInv ==
    ASSUME GatewayInv, NEW w \in Replicas, Broadcast(w), UNCHANGED indexerVars
    PROVE  GatewayInv'
  <1>0. TypeOK /\ ChainTyped /\ AdmissionTyped /\ WorkerTyped /\ JobsTyped /\ IndexerTyped
    BY TypeParts DEF GatewayInv
  <1>1. worker[w].pc \notin Resting /\ worker[w].pc = "broadcast"
    BY StageNames DEF Broadcast, At
  <1> DEFINE j == worker[w].job
             tx == <<j, worker[w].tx>>
             went == [worker[w] EXCEPT !.pc = "mark"]
             failed == [worker[w] EXCEPT !.pc = "fail", !.class = "retryable"]
  <1>2. /\ j \in DOMAIN jobs /\ j # 0 /\ j <= Len(jobs)
        /\ worker[w].attempt # 0 /\ worker[w] \in WorkerRow
    BY <1>1, WorkingJob
  <1>3. CASE ServiceFails(w)
    BY <1>1, <1>3, WorkerFails
  <1>4. CASE /\ mempool' \subseteq mempool \union {tx}
             /\ \/ Goto(w, "mark") /\ UNCHANGED faults
                \/ Fault /\ Fail(w, "retryable")
             /\ UNCHANGED <<chain, final, writerVars, lockHolder, purchased>>
    <2>1. PICK r \in {went, failed} : worker' = [worker EXCEPT ![w] = r]
      BY <1>4 DEF Goto, Fail
    <2>2. /\ went \in WorkerRow /\ went.job = j /\ went.attempt = worker[w].attempt
          /\ went.pc = "mark"
      BY <1>2, StageNames, PcTyped
    <2>3. /\ failed \in WorkerRow /\ failed.job = j
          /\ failed.attempt = worker[w].attempt /\ failed.pc = "fail"
      BY <1>2, ClassTyped
    <2>4. worker[w].tx # 0 /\ jobs[j].prepared = worker[w].tx
      BY <1>1 DEF GatewayInv, TransactionInv, At
    <2>5. worker[w].tx \in Nat
      BY <1>2 DEF WorkerRow
    <2>6. DOMAIN jobs \subseteq JobIds
      BY <1>0, LenProperties, WriterAssumption DEF JobsTyped, JobIds
    <2>7. tx \in Txs /\ tx[1] = j /\ tx[2] = worker[w].tx
      BY <1>2, <2>5, <2>6 DEF Txs
    <2> HIDE DEF went, failed, tx, j
    <2>8. /\ r \in WorkerRow /\ r.job = j /\ r.attempt # 0 /\ r.pc \in {"mark", "fail"}
      BY <1>2, <2>1, <2>2, <2>3
    <2>9. /\ worker'[w] = r /\ \A v \in Replicas : v # w => worker'[v] = worker[v]
          /\ worker' \in [Replicas -> WorkerRow]
      BY <1>0, <2>1, <2>8 DEF WorkerTyped
    <2>10. ChainTyped'
      BY <1>0, <1>4, <2>7, FaultTyped DEF ChainTyped
    <2>11. WorkerTyped'
      BY <1>0, <1>2, <1>4, <2>8, <2>9 DEF WorkerTyped, writerVars
    <2>12. JobsFollow
      BY <1>0, <1>4, SameRows DEF writerVars
    <2>13. JobsTyped' /\ AdmissionTyped' /\ IndexerTyped'
      BY <1>0, <1>4, <2>12, JobsGrow, AdmissionFrame, IndexerFrame DEF writerVars
    <2>14. TypeOK'
      BY <2>10, <2>11, <2>13, TypeParts, PTL
    <2>15. BusyInv'
      BY <1>2, <2>8, <2>9 DEF GatewayInv, BusyInv
    <2>16. OutcomeInv' /\ IndexedInv' /\ SignedInv'
      BY <1>4 DEF GatewayInv, OutcomeInv, IndexedInv, SignedInv, writerVars, indexerVars
    <2>17. TransactionInv'
      BY <1>2, <1>4, <2>4, <2>7, <2>8, <2>9 DEF GatewayInv, TransactionInv, At, writerVars
    <2>18. PurchaseInv'
      BY <1>4, <2>8, <2>9 DEF GatewayInv, PurchaseInv, At, writerVars
    <2>19. QED
      BY <2>14, <2>15, <2>16, <2>17, <2>18 DEF GatewayInv
  <1>5. QED
    BY <1>3, <1>4 DEF Broadcast

-----------------------------------------------------------------------------
(* The theorems.                                                           *)

LEMMA InitGateway == Init => GatewayInv
  <1> SUFFICES ASSUME Init PROVE GatewayInv
    OBVIOUS
  <1>1. /\ jobs = << >> /\ chain = << >> /\ indexed = << >> /\ account = << >>
        /\ mempool = {} /\ pending = {} /\ history = {}
        /\ final = 0 /\ faults = 0 /\ indexedFinal = 0
        /\ worker = [w \in Replicas |-> IdleWorker]
        /\ purchased = [j \in JobIds |-> 0] /\ indexer = Tick("start", 0)
        /\ token = [o \in Owners |-> 0] /\ lockHolder = NoReplica /\ recoveryReady = TRUE
        /\ writer = [reservation |-> 0, owner |-> NoOwner, fencing |-> 0,
                     live |-> FALSE, checkpoint |-> << >>, job |-> 0]
    BY DEF Init
  <1>2. Len(<< >>) = 0 /\ DOMAIN << >> = {}
    BY EmptySeq
  <1>3. JobsTyped /\ ChainTyped
    BY <1>1, <1>2, EmptySeq, ChainAssumption, WriterAssumption DEF JobsTyped, ChainTyped
  <1>4. AdmissionTyped
    BY <1>1, <1>2, EmptySeq DEF AdmissionTyped, WriterRow
  <1>5. IdleWorker \in WorkerRow /\ IdleWorker.job = 0 /\ IdleWorker.pc = "idle"
    BY StageNames DEF IdleWorker, WorkerRow
  <1>6. WorkerTyped
    BY <1>1, <1>2, <1>5 DEF WorkerTyped
  <1>7. IndexerTyped /\ indexer.pc = "start"
    BY <1>1, <1>2, EmptySeq, TickTyped DEF IndexerTyped
  <1>8. TypeOK
    BY <1>3, <1>4, <1>6, <1>7, TypeParts
  <1>9. BusyInv /\ OutcomeInv /\ IndexedInv /\ TransactionInv /\ SignedInv /\ PurchaseInv
    BY <1>1, <1>2, <1>5, <1>7, StageNames
       DEF BusyInv, OutcomeInv, IndexedInv, TransactionInv, SignedInv, PurchaseInv, At
  <1>10. QED
    BY <1>8, <1>9 DEF GatewayInv

LEMMA ProgressInv ==
    ASSUME GatewayInv, NEW w \in Replicas, Progress(w), UNCHANGED indexerVars
    PROVE  GatewayInv'
  BY OwnershipInv, RecoverInterruptedInv, ClaimJobInv, PreflightInv, ChecksInv,
     SetProvingInv, BeginInv, RequestInv, FinishInv, WaitProofInv, SendInv, SignInv,
     BroadcastInv, MarkInv, RecordFailureInv
     DEF Progress

LEMMA StutterInv ==
    ASSUME GatewayInv, UNCHANGED vars
    PROVE  GatewayInv'
  <1>1. UNCHANGED <<chainVars, writerVars, workerVars, indexerVars>>
    BY DEF vars
  <1>2. JobsTyped /\ AdmissionTyped /\ TypeOK
    BY TypeParts DEF GatewayInv
  <1>3. JobsFollow /\ AdmissionTyped'
    BY <1>1, <1>2, SameRows, AdmissionFrame DEF writerVars
  <1>4. QED
    BY <1>1, <1>3, TableStep

LEMMA NextGateway == GatewayInv /\ [Next]_vars => GatewayInv'
  <1> SUFFICES ASSUME GatewayInv, [Next]_vars PROVE GatewayInv'
    OBVIOUS
  <1>1. CASE Ethereum
    BY <1>1, EthereumInv
  <1>2. CASE Admission
    BY <1>2, AdmissionInv
  <1>3. CASE /\ \E w \in Replicas : Progress(w) \/ Interruption(w) \/ Demote(w)
             /\ UNCHANGED indexerVars
    BY <1>3, ProgressInv, OwnershipInv DEF Interruption
  <1>4. CASE Operator /\ UNCHANGED indexerVars
    BY <1>4, OperatorInv
  <1>5. CASE IndexerStep
    BY <1>5, RollbackInv, IndexBlocksInv, RecoverInv, WriteStatusInv, TickEndsInv
       DEF IndexerStep
  <1>6. CASE \E j \in DOMAIN jobs : ReconcileJob(j)
    BY <1>6, ReconcileInv
  <1>7. CASE AbortTick
    BY <1>7, TickEndsInv
  <1>8. CASE UNCHANGED vars
    BY <1>8, StutterInv
  <1>9. QED
    BY <1>1, <1>2, <1>3, <1>4, <1>5, <1>6, <1>7, <1>8 DEF Next

LEMMA GatewayInvariant == Spec => []GatewayInv
  BY InitGateway, NextGateway, PTL DEF Spec

\* Every variable of the gateway keeps its type, for any number of replicas,
\* sequencers, jobs and faults: every job number that a worker, the writer row,
\* the pool or the indexer holds names a row.
THEOREM TypeCorrect == Spec => []TypeOK
  <1>1. GatewayInv => TypeOK
    BY DEF GatewayInv
  <1>2. QED
    BY <1>1, GatewayInvariant, PTL

\* The proving service is never paid twice for one job, whatever replicas crash,
\* lose their session or are fenced (begin_proof_request, request_proof).
THEOREM PaidForOnce == Spec => []OnePurchase
  <1>1. GatewayInv => OnePurchase
    BY DEF GatewayInv, PurchaseInv, OnePurchase
  <1>2. QED
    BY <1>1, GatewayInvariant, PTL

\* Whatever is broadcast or mined for a job are the bytes it saved
\* (submission::send).
THEOREM SentOnce == Spec => []OneTransaction
  <1>1. ASSUME GatewayInv PROVE OneTransaction
    <2>1. \A b \in Range(chain) : \E p \in DOMAIN chain : b = chain[p]
      BY DEF Range
    <2>2. QED
      BY <1>1, <2>1 DEF GatewayInv, TransactionInv, OneTransaction
  <1>2. QED
    BY <1>1, GatewayInvariant, PTL

\* A job whose transaction may have been broadcast is not given up
\* (record_failure, cancel_proof).
THEOREM SignedIsKept == Spec => []NothingSignedIsDropped
  <1>1. ASSUME GatewayInv PROVE NothingSignedIsDropped
    <2>1. \A b \in Range(chain) : \E p \in DOMAIN chain : b = chain[p]
      BY DEF Range
    <2>2. QED
      BY <1>1, <2>1
         DEF GatewayInv, TransactionInv, SignedInv, Dropped, NothingSignedIsDropped
  <1>2. QED
    BY <1>1, GatewayInvariant, PTL

-----------------------------------------------------------------------------
(* The outer state that a chain leaves.                                    *)

\* f gives the outer state after each of the first m blocks.
Accepts(blocks, m, f) ==
    f = [n \in 0..m |-> IF n = 0 THEN << >>
                        ELSE IF blocks[n].ok THEN Append(f[n - 1], blocks[n])
                        ELSE f[n - 1]]

LEMMA AcceptsSteps ==
    ASSUME NEW blocks, NEW m \in Nat, NEW f, Accepts(blocks, m, f)
    PROVE  /\ f[0] = << >>
           /\ \A n \in 1..m : f[n] = IF blocks[n].ok THEN Append(f[n - 1], blocks[n])
                                     ELSE f[n - 1]
  <1>1. \A n \in 0..m : f[n] = IF n = 0 THEN << >>
                               ELSE IF blocks[n].ok THEN Append(f[n - 1], blocks[n])
                               ELSE f[n - 1]
    BY Zenon DEF Accepts
  <1>2. 0 \in 0..m /\ \A n \in 1..m : n \in 0..m /\ n # 0
    OBVIOUS
  <1>3. QED
    BY <1>1, <1>2, Zenon

\* One more block extends it.
LEMMA AcceptsMore ==
    ASSUME NEW blocks, NEW m \in Nat, NEW f, Accepts(blocks, m, f)
    PROVE  \E g : Accepts(blocks, m + 1, g)
  <1> DEFINE last == IF blocks[m + 1].ok THEN Append(f[m], blocks[m + 1]) ELSE f[m]
             g == [n \in 0..(m + 1) |-> IF n = m + 1 THEN last ELSE f[n]]
  <1>1. /\ f[0] = << >>
        /\ \A n \in 1..m : f[n] = IF blocks[n].ok THEN Append(f[n - 1], blocks[n])
                                  ELSE f[n - 1]
    BY AcceptsSteps
  <1>2. ASSUME NEW n \in 0..(m + 1)
        PROVE  g[n] = IF n = 0 THEN << >>
                      ELSE IF blocks[n].ok THEN Append(g[n - 1], blocks[n])
                      ELSE g[n - 1]
    <2>1. CASE n = 0
      BY <1>1, <2>1
    <2>2. CASE n = m + 1
      <3>1. n # 0 /\ n - 1 = m /\ m \in 0..(m + 1) /\ m # m + 1
        BY <2>2
      <3>2. g[n - 1] = f[m] /\ g[n] = last
        BY <2>2, <3>1
      <3> HIDE DEF g
      <3>3. QED
        BY <2>2, <3>1, <3>2
    <2>3. CASE n \in 1..m
      <3>1. n # 0 /\ n - 1 \in 0..(m + 1) /\ n - 1 # m + 1 /\ n # m + 1 /\ n \in 0..(m + 1)
        BY <2>3
      <3>2. g[n - 1] = f[n - 1] /\ g[n] = f[n]
        BY <3>1
      <3> HIDE DEF g
      <3>3. QED
        BY <1>1, <2>3, <3>1, <3>2
    <2>4. QED
      BY <2>1, <2>2, <2>3
  <1>3. Accepts(blocks, m + 1, g)
    <2>1. g = [n \in 0..(m + 1) |-> g[n]]
      OBVIOUS
    <2> HIDE DEF g
    <2>2. QED
      BY <1>2, <2>1 DEF Accepts
  <1>4. QED
    BY <1>3

LEMMA AcceptsExists ==
    ASSUME NEW blocks, NEW m \in Nat
    PROVE  \E f : Accepts(blocks, m, f)
  <1> DEFINE D == {n \in Nat : ~\E f : Accepts(blocks, n, f)}
  <1>1. SUFFICES ASSUME D # {} PROVE FALSE
    BY <1>1
  <1>2. PICK n \in D : \A k \in D : n <= k
    BY <1>1, SmallestNat
  <1>3. n # 0
    <2> DEFINE f == [k \in 0..0 |-> << >>]
    <2>1. Accepts(blocks, 0, f)
      BY DEF Accepts
    <2>2. QED
      BY <2>1
  <1>4. n - 1 \in Nat /\ n - 1 \notin D /\ n - 1 + 1 = n
    BY <1>2, <1>3
  <1>5. PICK f : Accepts(blocks, n - 1, f)
    BY <1>4
  <1>6. \E g : Accepts(blocks, n, g)
    BY <1>4, <1>5, AcceptsMore
  <1>7. QED
    BY <1>6

\* The state after n blocks depends on those blocks alone.
LEMMA AcceptsAgree ==
    ASSUME NEW m \in Nat, NEW n \in Nat, m <= n,
           NEW a, NEW f, Accepts(a, m, f), NEW b, NEW g, Accepts(b, n, g),
           \A i \in 1..m : a[i] = b[i]
    PROVE  \A k \in 0..m : f[k] = g[k]
  <1> DEFINE D == {k \in 0..m : f[k] # g[k]}
  <1>1. SUFFICES ASSUME D # {} PROVE FALSE
    BY <1>1
  <1>2. PICK k \in D : \A i \in D : k <= i
    <2>1. D \in SUBSET Nat
      OBVIOUS
    <2>2. QED
      BY <1>1, <2>1, SmallestNat
  <1>3. f[0] = g[0]
    BY AcceptsSteps
  <1>4. k \in 1..m /\ k \in 1..n /\ k - 1 \in 0..m /\ k - 1 \notin D
    BY <1>2, <1>3
  <1>5. f[k - 1] = g[k - 1] /\ a[k] = b[k]
    BY <1>4
  <1>6. f[k] = IF a[k].ok THEN Append(f[k - 1], a[k]) ELSE f[k - 1]
    BY <1>4, AcceptsSteps
  <1>7. g[k] = IF b[k].ok THEN Append(g[k - 1], b[k]) ELSE g[k - 1]
    BY <1>4, AcceptsSteps
  <1>8. f[k] = g[k]
    BY <1>5, <1>6, <1>7
  <1>9. QED
    BY <1>2, <1>8

LEMMA OuterStateIs ==
    ASSUME NEW blocks, Len(blocks) \in Nat
    PROVE  \E f : Accepts(blocks, Len(blocks), f) /\ OuterState(blocks) = f[Len(blocks)]
  <1> DEFINE f == CHOOSE f : Accepts(blocks, Len(blocks), f)
  <1>1. OuterState(blocks) = f[Len(blocks)]
    BY DEF OuterState, Accepts
  <1>2. Accepts(blocks, Len(blocks), f)
    BY AcceptsExists, Zenon
  <1>3. QED
    BY <1>1, <1>2

\* An accepted block adds itself to the state that the blocks before it leave.
LEMMA AcceptedBlock ==
    ASSUME NEW s \in Seq(Blocks), NEW p \in 1..Len(s), s[p].ok
    PROVE  OuterState(Prefix(s, p)) = Append(OuterState(Prefix(s, p - 1)), s[p])
  <1> DEFINE new == Prefix(s, p)
             old == Prefix(s, p - 1)
  <1>0. Len(s) \in Nat /\ p \in 0..Len(s) /\ p - 1 \in 0..Len(s) /\ p \in Nat /\ p - 1 \in Nat
    BY LenProperties
  <1>1. /\ Len(new) = p /\ Len(old) = p - 1
        /\ \A i \in 1..p : new[i] = s[i]
        /\ \A i \in 1..(p - 1) : old[i] = s[i]
    BY <1>0, PrefixTyped DEF Prefix
  <1> HIDE DEF new, old
  <1>2. PICK f : Accepts(new, p, f) /\ OuterState(new) = f[p]
    BY <1>0, <1>1, OuterStateIs
  <1>3. PICK g : Accepts(old, p - 1, g) /\ OuterState(old) = g[p - 1]
    BY <1>0, <1>1, OuterStateIs
  <1>4. \A i \in 1..(p - 1) : old[i] = new[i]
    BY <1>0, <1>1
  <1>5. p - 1 \in 0..(p - 1) /\ p - 1 <= p /\ p \in 1..p
    BY <1>0
  <1>6. g[p - 1] = f[p - 1]
    <2> DEFINE m == p - 1
    <2>1. m \in Nat /\ p \in Nat /\ m <= p /\ \A i \in 1..m : old[i] = new[i]
      BY <1>0, <1>4, <1>5
    <2>2. Accepts(old, m, g) /\ Accepts(new, p, f)
      BY <1>2, <1>3
    <2> HIDE DEF m
    <2>3. \A k \in 0..m : g[k] = f[k]
      BY <2>1, <2>2, AcceptsAgree
    <2>4. QED
      BY <1>5, <2>3 DEF m
  <1>7. f[p] = IF new[p].ok THEN Append(f[p - 1], new[p]) ELSE f[p - 1]
    BY <1>0, <1>2, <1>5, AcceptsSteps
  <1>8. new[p] = s[p]
    BY <1>1, <1>5
  <1>9. QED
    BY <1>2, <1>3, <1>6, <1>7, <1>8 DEF new, old
-----------------------------------------------------------------------------
(* The inductive invariant.                                                *)

\* A job on its way, and one that a worker may have in hand.
Working == {"queued"} \union Active

InFlight == {"validating", "proving", "proof_requested", "submitting"}

Taken == InFlight \union Finished

\* A transaction is mined once; the contract accepted it on the state that its
\* proof starts from.
ChainInv ==
    /\ \A p, q \in DOMAIN chain : chain[p].tx = chain[q].tx => p = q
    /\ \A p \in DOMAIN chain : chain[p].ok =>
           jobs[chain[p].tx[1]].base = OuterState(Prefix(chain, p - 1))

PoolInv == \A p \in DOMAIN chain : chain[p].tx \notin mempool

\* The blocks marked finalized are final, and receipts are applied from them.
FinalInv ==
    /\ indexedFinal <= final
    /\ \A p \in 1..indexedFinal : indexed[p] = chain[p]
    /\ \A h \in history : /\ h.block \in 1..indexedFinal
                          /\ chain[h.block].ok /\ chain[h.block].tx[1] = h.job

\* What the outcome of a job says.  A job is marked reorged only after its
\* receipt was applied.
StatusInv ==
    \A j \in DOMAIN jobs :
        /\ jobs[j].hash # 0 => jobs[j].hash = jobs[j].prepared
        /\ jobs[j].status = "confirmed" => Applied(j) /\ jobs[j].block \in 1..indexedFinal
        /\ jobs[j].status = "reorged" => Applied(j)
        /\ jobs[j].status = "ethereum_reverted" =>
               \E p \in 1..final : chain[p].tx[1] = j /\ ~chain[p].ok
        /\ jobs[j].status \notin {"proof_failed", "executed"}

\* The writer row belongs to the job on its way; a live lease to none.
WriterInv ==
    /\ \A j \in DOMAIN jobs : jobs[j].status \in Working => writer.job = j
    /\ writer.reservation = 0 => writer.job = 0
    /\ writer.live => writer.job = 0 /\ writer.checkpoint = account

\* Until its receipt is applied a job finds the state it builds on.
HeldInv ==
    \A j \in DOMAIN jobs : jobs[j].status \in Working /\ ~Applied(j) =>
        jobs[j].base = account /\ (jobs[j].kind = "settlement" => j \in pending)

\* The worker that holds the current attempt of a job has it to itself.
HolderInv ==
    /\ \A w \in Replicas : worker[w].pc \notin Resting =>
         /\ worker[w].attempt <= jobs[worker[w].job].attempts
         /\ worker[w].attempt = jobs[worker[w].job].attempts =>
                jobs[worker[w].job].status \in Taken
    /\ \A v, w \in Replicas :
         /\ worker[v].pc \notin Resting /\ worker[w].pc \notin Resting
         /\ worker[v].job = worker[w].job /\ worker[v].attempt = worker[w].attempt
         => v = w

\* The status that the indexer is about to write is still right.
PlanInv ==
    /\ indexer.pc = "recovered" =>
         /\ indexer.status = "confirmed" /\ Applied(indexer.job)
         /\ indexer.block \in 1..indexedFinal
         /\ chain[indexer.block].tx = <<indexer.job, indexer.hash>>
    /\ indexer.pc = "reconciled" =>
         indexer.status = "submitted" /\ jobs[indexer.job].status = "submitted"

OutcomesInv == FinalInv /\ StatusInv /\ PlanInv /\ AccountIsFinalized

TurnInv == WriterInv /\ HeldInv

TurnsInv == GatewayInv /\ ChainInv /\ PoolInv /\ OutcomesInv /\ TurnInv /\ HolderInv

-----------------------------------------------------------------------------
(* Statuses.                                                               *)

LEMMA StatusSets ==
    /\ Working = {"queued", "validating", "awaiting_approval", "approved",
                  "proof_requested", "proving", "submitting", "submitted"}
    /\ Finished = {"confirmed", "reorged", "rejected", "ethereum_reverted",
                   "failed", "proof_failed", "executed"}
    /\ Taken = {"validating", "proving", "proof_requested", "submitting",
                "confirmed", "reorged", "rejected", "ethereum_reverted",
                "failed", "proof_failed", "executed"}
    /\ \A s \in Statuses : s \in Finished <=> s \notin Working
  <1>1. /\ Working = {"queued", "validating", "awaiting_approval", "approved",
                      "proof_requested", "proving", "submitting", "submitted"}
        /\ Finished = {"confirmed", "reorged", "rejected", "ethereum_reverted",
                       "failed", "proof_failed", "executed"}
        /\ Taken = {"validating", "proving", "proof_requested", "submitting",
                    "confirmed", "reorged", "rejected", "ethereum_reverted",
                    "failed", "proof_failed", "executed"}
    BY DEF Working, Active, Finished, Taken, InFlight
  <1>2. QED
    BY <1>1, StatusNames

\* A job on its way is not released.
LEMMA WorkingNotReleased ==
    ASSUME NEW row, row.status \in Working
    PROVE  ~Released(row)
  BY StatusSets DEF Released

LEMMA RowsTyped ==
    ASSUME GatewayInv
    PROVE  /\ Len(jobs) \in Nat /\ DOMAIN jobs = 1..Len(jobs)
           /\ \A j \in DOMAIN jobs :
                /\ jobs[j] \in JobRows /\ jobs[j].status \in Statuses
                /\ jobs[j].attempts \in Nat /\ jobs[j].prepared \in Nat
                /\ jobs[j].hash \in Nat /\ j # 0 /\ jobs[j].block \in Nat
  <1>1. JobsTyped
    BY TypeParts DEF GatewayInv
  <1>2. Len(jobs) \in Nat /\ DOMAIN jobs = 1..Len(jobs)
    BY <1>1, LenProperties DEF JobsTyped
  <1>3. \A j \in DOMAIN jobs : jobs[j] \in JobRows
    BY <1>1, <1>2, ElementOfSeq DEF JobsTyped
  <1>4. \A row \in JobRows : /\ row.status \in Statuses /\ row.attempts \in Nat
                             /\ row.prepared \in Nat /\ row.hash \in Nat
                             /\ row.block \in Nat
    BY DEF JobRows
  <1>5. QED
    BY <1>2, <1>3, <1>4

\* lock() clears the row of no job that is on its way.
LEMMA LockKeeps ==
    ASSUME GatewayInv, WriterInv
    PROVE  /\ \A j \in DOMAIN jobs : jobs[j].status \in Working => Locked.job = j
           /\ Locked.reservation = 0 => Locked.job = 0
           /\ Locked.live => Locked.job = 0 /\ Locked.checkpoint = account
  <1>1. writer \in WriterRow
    BY TypeParts DEF GatewayInv, AdmissionTyped
  <1>2. Free(writer).job = 0 /\ ~Free(writer).live
    BY <1>1 DEF WriterRow, Free
  <1>3. \A j \in DOMAIN jobs : j # 0
    BY RowsTyped
  <1>4. CASE Locked = writer
    BY <1>4 DEF WriterInv
  <1>5. CASE /\ Locked = Free(writer)
             /\ writer.job = 0 \/ Released(jobs[writer.job])
    <2>1. \A j \in DOMAIN jobs : jobs[j].status \notin Working
      BY <1>3, <1>5, WorkingNotReleased DEF WriterInv
    <2>2. QED
      BY <1>2, <1>5, <2>1
  <1>6. QED
    BY <1>4, <1>5 DEF Locked
-----------------------------------------------------------------------------
(* What workers, operators and admission may do to a row.                  *)

\* No outcome is written or taken back, a submitted job is left alone, and a
\* transaction hash is that of the saved bytes.
Moves(old, new) ==
    /\ new.kind = old.kind /\ new.base = old.base /\ new.block = old.block
    /\ old.prepared # 0 => new.prepared = old.prepared
    /\ new.hash = old.hash \/ new.hash = new.prepared
    /\ old.status \in Finished \union {"submitted"} => new.status = old.status
    /\ new.status \in {"confirmed", "reorged", "ethereum_reverted", "proof_failed",
                       "executed"} => new.status = old.status

LEMMA MovesSame ==
    ASSUME NEW row
    PROVE  Moves(row, row)
  BY DEF Moves

\* The finalized blocks are the same after the step.
FinalKept ==
    /\ final' \in Nat /\ final <= final'
    /\ \A p \in 1..final : chain'[p] = chain[p]
    /\ \A n \in 0..final : Prefix(chain', n) = Prefix(chain, n)

LEMMA SameChain ==
    ASSUME GatewayInv, UNCHANGED <<chain, final>>
    PROVE  FinalKept
  <1>1. final \in Nat
    BY TypeParts, LenProperties DEF GatewayInv, ChainTyped
  <1>2. QED
    BY <1>1 DEF FinalKept

LEMMA OutcomesFrame ==
    ASSUME GatewayInv, OutcomesInv, FinalKept,
           DOMAIN jobs \subseteq DOMAIN jobs',
           \A j \in DOMAIN jobs : Moves(jobs[j], jobs'[j]),
           \A j \in DOMAIN jobs' : j \notin DOMAIN jobs =>
              jobs'[j].status = "queued" /\ jobs'[j].hash = 0,
           UNCHANGED <<account, indexerVars>>
    PROVE  OutcomesInv'
  <1>0. /\ final \in Nat /\ indexedFinal \in Nat
        /\ indexer.job \in Nat /\ indexer.job <= Len(jobs)
        /\ Len(jobs) \in Nat /\ DOMAIN jobs = 1..Len(jobs)
    BY TypeParts, LenProperties, RowsTyped
       DEF GatewayInv, ChainTyped, IndexerTyped, IndexerRow
  <1>1. /\ indexedFinal <= final /\ 1..indexedFinal \subseteq 1..final
        /\ \A p \in 1..indexedFinal : chain'[p] = chain[p]
        /\ 1..final \subseteq 1..final' /\ 0..final \subseteq 0..final'
        /\ indexedFinal <= final'
    BY <1>0 DEF OutcomesInv, FinalInv, FinalKept
  <1>2. FinalInv'
    BY <1>1 DEF OutcomesInv, FinalInv, indexerVars
  <1>4. \A j : (\E h \in history' : h.job = j) <=> (\E h \in history : h.job = j)
    BY DEF indexerVars
  <1>5. StatusInv'
    <2>1. ASSUME NEW j \in DOMAIN jobs', j \in DOMAIN jobs
          PROVE  /\ jobs'[j].hash # 0 => jobs'[j].hash = jobs'[j].prepared
                 /\ jobs'[j].status \notin {"proof_failed", "executed"}
                 /\ jobs'[j].status \in {"confirmed", "reorged", "ethereum_reverted"} =>
                       jobs'[j].status = jobs[j].status
                 /\ jobs'[j].block = jobs[j].block
      BY <2>1 DEF OutcomesInv, StatusInv, Moves
    <2>2. ASSUME NEW j \in DOMAIN jobs', j \in DOMAIN jobs,
                 jobs'[j].status = "ethereum_reverted"
          PROVE  \E p \in 1..final' : chain'[p].tx[1] = j /\ ~chain'[p].ok
      <3>1. PICK p \in 1..final : chain[p].tx[1] = j /\ ~chain[p].ok
        BY <2>1, <2>2 DEF OutcomesInv, StatusInv
      <3>2. chain'[p] = chain[p] /\ p \in 1..final'
        BY <1>1 DEF FinalKept
      <3>3. QED
        BY <3>1, <3>2
    <2>3. QED
      BY <1>4, <2>1, <2>2 DEF OutcomesInv, StatusInv, Applied, indexerVars
  <1>6. PlanInv'
    <2>1. ASSUME indexer.pc = "recovered"
          PROVE  chain'[indexer.block].tx = <<indexer.job, indexer.hash>>
      BY <1>1, <2>1 DEF OutcomesInv, PlanInv
    <2>2. ASSUME indexer.pc = "reconciled"
          PROVE  jobs'[indexer.job].status = "submitted"
      <3>1. indexer.job \in DOMAIN jobs
        BY <1>0, <2>2 DEF GatewayInv, OutcomeInv
      <3>2. QED
        BY <2>2, <3>1 DEF OutcomesInv, PlanInv, Moves
    <2>3. QED
      BY <2>1, <2>2 DEF OutcomesInv, PlanInv, Applied, indexerVars
  <1>7. AccountIsFinalized'
    <2>1. PICK n \in 0..final : account = OuterState(Prefix(chain, n))
      BY DEF OutcomesInv, AccountIsFinalized
    <2>2. Prefix(chain', n) = Prefix(chain, n) /\ n \in 0..final'
      BY <1>1 DEF FinalKept
    <2>3. account' = OuterState(Prefix(chain', n))
      BY <2>1, <2>2
    <2>4. QED
      BY <2>2, <2>3 DEF AccountIsFinalized
  <1>8. QED
    BY <1>2, <1>5, <1>6, <1>7 DEF OutcomesInv

LEMMA ChainKept ==
    ASSUME GatewayInv, ChainInv, UNCHANGED chain,
           \A j \in DOMAIN jobs : jobs'[j].base = jobs[j].base
    PROVE  ChainInv'
  BY DEF GatewayInv, TransactionInv, ChainInv

\* The jobs on their way afterwards were on their way before.
LEMMA TurnFrame ==
    ASSUME GatewayInv, TurnInv, DOMAIN jobs' = DOMAIN jobs,
           \A j \in DOMAIN jobs : Moves(jobs[j], jobs'[j]),
           \A j \in DOMAIN jobs : j \in pending /\ j \notin pending' =>
              jobs'[j].status \in Finished,
           writer' \in {writer, Locked},
           UNCHANGED <<account, history>>
    PROVE  TurnInv'
  <1>1. \A j \in DOMAIN jobs : jobs'[j].status \in Working => jobs[j].status \in Working
    BY RowsTyped, StatusSets DEF Moves
  <1>2. WriterInv'
    BY <1>1, LockKeeps DEF TurnInv, WriterInv
  <1>3. \A j \in DOMAIN jobs : jobs'[j].status \in Working =>
            jobs'[j].status \notin Finished
    BY StatusSets
  <1>4. \A j \in DOMAIN jobs : jobs'[j].base = jobs[j].base /\ jobs'[j].kind = jobs[j].kind
    BY DEF Moves
  <1>5. HeldInv'
    BY <1>1, <1>3, <1>4 DEF TurnInv, HeldInv, Applied
  <1>6. QED
    BY <1>2, <1>5 DEF TurnInv

\* A worker that is still at work has its job and attempt, and its row is one
\* that may be in hand unless the attempt was fenced.
LEMMA HolderKept ==
    ASSUME GatewayInv, HolderInv,
           \A v \in Replicas : worker'[v].pc \notin Resting =>
              /\ worker[v].pc \notin Resting
              /\ worker'[v].job = worker[v].job /\ worker'[v].attempt = worker[v].attempt
              /\ jobs'[worker[v].job].attempts \in Nat
              /\ jobs[worker[v].job].attempts <= jobs'[worker[v].job].attempts
              /\ worker[v].attempt = jobs'[worker[v].job].attempts
                    => jobs'[worker[v].job].status \in Taken
    PROVE  HolderInv'
  <1>1. \A v \in Replicas : worker[v].pc \notin Resting =>
           worker[v].attempt \in Nat /\ jobs[worker[v].job].attempts \in Nat
    BY WorkingJob, RowsTyped
  <1>2. \A v \in Replicas : worker'[v].pc \notin Resting =>
           worker[v].attempt <= jobs'[worker[v].job].attempts
    BY <1>1 DEF HolderInv
  <1>3. QED
    BY <1>2 DEF HolderInv
-----------------------------------------------------------------------------
(* The chain.                                                              *)

LEMMA MineTurns ==
    ASSUME TurnsInv, NEW tx \in mempool, Mine(tx, jobs[tx[1]].base), UNCHANGED jobs
    PROVE  FinalKept /\ ChainInv' /\ PoolInv'
  <1>0. /\ chain \in Seq(Blocks) /\ Len(chain) \in Nat /\ DOMAIN chain = 1..Len(chain)
        /\ final \in Nat /\ final <= Len(chain) /\ mempool \subseteq Txs
    BY TypeParts, LenProperties DEF TurnsInv, GatewayInv, ChainTyped
  <1>1. PICK ok \in BOOLEAN :
          /\ ok => jobs[tx[1]].base = OuterState(chain)
          /\ chain' = Append(chain, [tx |-> tx, ok |-> ok])
    BY DEF Mine
  <1>2. mempool' = mempool \ {tx} /\ final' = final
    BY DEF Mine
  <1> DEFINE b == [tx |-> tx, ok |-> ok]
             top == Len(chain) + 1
  <1>3. b \in Blocks /\ b.tx = tx /\ b.ok = ok
    BY <1>0 DEF Blocks
  <1> HIDE DEF b
  <1>4. /\ chain' \in Seq(Blocks) /\ Len(chain') = top /\ DOMAIN chain' = 1..top
        /\ chain'[top] = b /\ \A p \in 1..Len(chain) : chain'[p] = chain[p]
    BY <1>0, <1>1, <1>3, AppendProperties, LenProperties DEF b
  <1>5. \A n \in 0..Len(chain) : Prefix(chain', n) = Prefix(chain, n)
    <2>1. ASSUME NEW n \in 0..Len(chain) PROVE Prefix(chain', n) = Prefix(chain, n)
      <3>1. /\ Prefix(chain, n) \in Seq(Blocks) /\ Len(Prefix(chain, n)) = n
            /\ \A i \in 1..n : i \in DOMAIN chain /\ Prefix(chain, n)[i] = chain[i]
        BY <1>0, PrefixTyped DEF Prefix
      <3>2. n \in 0..Len(chain')
        BY <1>0, <1>4
      <3>3. /\ Prefix(chain', n) \in Seq(Blocks) /\ Len(Prefix(chain', n)) = n
            /\ \A i \in 1..n : Prefix(chain', n)[i] = chain'[i]
        BY <1>4, <3>2, PrefixTyped DEF Prefix
      <3>4. QED
        BY <1>0, <1>4, <3>1, <3>3, SeqEqual
    <2>2. QED
      BY <2>1
  <1>6. FinalKept
    BY <1>0, <1>2, <1>4, <1>5 DEF FinalKept
  <1>7. \A p \in DOMAIN chain : chain[p].tx # tx
    BY DEF TurnsInv, PoolInv
  <1>8. PoolInv'
    BY <1>0, <1>2, <1>3, <1>4 DEF TurnsInv, PoolInv
  <1>9. \A p, q \in DOMAIN chain' : chain'[p].tx = chain'[q].tx => p = q
    <2>1. \A p \in DOMAIN chain' : p = top \/ (p \in DOMAIN chain /\ chain'[p] = chain[p])
      BY <1>0, <1>4
    <2> HIDE DEF top
    <2>2. QED
      BY <1>3, <1>4, <1>7, <2>1 DEF TurnsInv, ChainInv
  <1>10. \A p \in DOMAIN chain' : chain'[p].ok =>
           jobs'[chain'[p].tx[1]].base = OuterState(Prefix(chain', p - 1))
    <2>1. ASSUME NEW p \in 1..Len(chain), chain'[p].ok
          PROVE  jobs'[chain'[p].tx[1]].base = OuterState(Prefix(chain', p - 1))
      <3>1. p - 1 \in 0..Len(chain) /\ p \in DOMAIN chain
        BY <1>0
      <3>2. Prefix(chain', p - 1) = Prefix(chain, p - 1) /\ chain'[p] = chain[p]
        BY <1>4, <1>5, <3>1
      <3>3. QED
        BY <2>1, <3>1, <3>2 DEF TurnsInv, ChainInv
    <2>2. Prefix(chain', Len(chain)) = chain
      <3>1. Len(chain) \in 0..Len(chain)
        BY <1>0
      <3>2. Prefix(chain, Len(chain)) = chain
        BY <1>0, SubSeqFull DEF Prefix
      <3>3. QED
        BY <1>5, <3>1, <3>2
    <2>3. ASSUME NEW p \in DOMAIN chain', p = top, chain'[p].ok
          PROVE  jobs'[chain'[p].tx[1]].base = OuterState(Prefix(chain', p - 1))
      <3>1. p - 1 = Len(chain) /\ chain'[p].tx = tx /\ ok
        BY <1>0, <1>3, <1>4, <2>3
      <3>2. QED
        BY <1>1, <2>2, <3>1
    <2>4. \A p \in DOMAIN chain' : p = top \/ p \in 1..Len(chain)
      BY <1>0, <1>4
    <2>5. QED
      BY <2>1, <2>3, <2>4
  <1>11. QED
    BY <1>6, <1>8, <1>9, <1>10 DEF ChainInv

LEMMA ReorgTurns ==
    ASSUME TurnsInv, Reorg, UNCHANGED jobs
    PROVE  FinalKept /\ ChainInv' /\ PoolInv'
  <1>0. /\ chain \in Seq(Blocks) /\ Len(chain) \in Nat /\ DOMAIN chain = 1..Len(chain)
        /\ final \in Nat /\ final <= Len(chain)
    BY TypeParts, LenProperties DEF TurnsInv, GatewayInv, ChainTyped
  <1>1. PICK n \in final..(Len(chain) - 1) :
            LET orphaned == {chain[p].tx : p \in (n + 1)..Len(chain)} IN
            /\ chain' = SubSeq(chain, 1, n)
            /\ \E kept \in SUBSET orphaned :
                 /\ LossyNetwork \/ kept = orphaned
                 /\ mempool' = mempool \union kept
            /\ UNCHANGED final
    BY DEF Reorg
  <1>2. n \in 0..Len(chain) /\ final <= n /\ n \in Nat
    BY <1>0
  <1>3. /\ chain' \in Seq(Blocks) /\ Len(chain') = n /\ DOMAIN chain' = 1..n
        /\ \A i \in 1..n : i \in DOMAIN chain /\ chain'[i] = chain[i]
    BY <1>0, <1>1, <1>2, PrefixTyped
  <1>4. \A m \in 0..n : Prefix(chain', m) = Prefix(chain, m)
    <2>1. ASSUME NEW m \in 0..n PROVE Prefix(chain', m) = Prefix(chain, m)
      <3>1. m \in 0..Len(chain) /\ m \in 0..Len(chain') /\ \A i \in 1..m : i \in 1..n
        BY <1>0, <1>2, <1>3
      <3>2. /\ Prefix(chain, m) \in Seq(Blocks) /\ Len(Prefix(chain, m)) = m
            /\ \A i \in 1..m : Prefix(chain, m)[i] = chain[i]
        BY <1>0, <3>1, PrefixTyped DEF Prefix
      <3>3. /\ Prefix(chain', m) \in Seq(Blocks) /\ Len(Prefix(chain', m)) = m
            /\ \A i \in 1..m : Prefix(chain', m)[i] = chain'[i]
        BY <1>3, <3>1, PrefixTyped DEF Prefix
      <3>4. QED
        BY <1>3, <3>1, <3>2, <3>3, SeqEqual
    <2>2. QED
      BY <2>1
  <1>5. FinalKept
    BY <1>0, <1>1, <1>2, <1>3, <1>4 DEF FinalKept
  <1>6. PoolInv'
    <2>1. ASSUME NEW p \in DOMAIN chain', chain'[p].tx \in mempool'
          PROVE  FALSE
      <3>1. p \in DOMAIN chain /\ chain'[p] = chain[p] /\ p \in 1..n
        BY <1>3
      <3>2. chain[p].tx \notin mempool
        BY <3>1 DEF TurnsInv, PoolInv
      <3>3. PICK q \in (n + 1)..Len(chain) : chain[q].tx = chain[p].tx
        BY <1>1, <2>1, <3>1, <3>2
      <3>4. q \in DOMAIN chain /\ q # p
        BY <1>0, <1>2, <3>1
      <3>5. QED
        BY <3>1, <3>3, <3>4 DEF TurnsInv, ChainInv
    <2>2. QED
      BY <2>1 DEF PoolInv
  <1>7. ChainInv'
    <2>1. \A p \in DOMAIN chain' : p - 1 \in 0..n /\ p \in DOMAIN chain /\ chain'[p] = chain[p]
      BY <1>2, <1>3
    <2>2. QED
      BY <1>4, <2>1 DEF TurnsInv, ChainInv
  <1>8. QED
    BY <1>5, <1>6, <1>7

LEMMA EthereumTurns ==
    ASSUME TurnsInv, Ethereum, GatewayInv'
    PROVE  TurnsInv'
  <1>1. UNCHANGED <<writerVars, workerVars, indexerVars>>
    BY DEF Ethereum
  <1>2. FinalKept /\ ChainInv' /\ PoolInv'
    <2>1. CASE \E tx \in mempool : Mine(tx, jobs[tx[1]].base)
      BY <1>1, <2>1, MineTurns DEF writerVars
    <2>2. CASE Reorg
      BY <1>1, <2>2, ReorgTurns DEF writerVars
    <2>3. CASE Finalize \/ Evict
      <3>1. /\ UNCHANGED <<chain, jobs>> /\ mempool' \subseteq mempool
            /\ final' = final \/ final' = final + 1
        BY <1>1, <2>3 DEF Finalize, Evict, writerVars
      <3>2. final \in Nat
        BY TypeParts, LenProperties DEF TurnsInv, GatewayInv, ChainTyped
      <3>3. FinalKept
        BY <3>1, <3>2 DEF FinalKept
      <3>4. ChainInv' /\ PoolInv'
        BY <3>1 DEF TurnsInv, ChainInv, PoolInv
      <3>5. QED
        BY <3>3, <3>4
    <2>4. QED
      BY <2>1, <2>2, <2>3 DEF Ethereum
  <1>3. OutcomesInv'
    BY <1>1, <1>2, MovesSame, OutcomesFrame DEF TurnsInv, writerVars
  <1>4. TurnInv'
    BY <1>1, MovesSame, TurnFrame DEF TurnsInv, writerVars, indexerVars
  <1>5. HolderInv'
    BY <1>1 DEF TurnsInv, HolderInv, writerVars, workerVars
  <1>6. QED
    BY <1>2, <1>3, <1>4, <1>5 DEF TurnsInv
-----------------------------------------------------------------------------
(* Admission.                                                              *)

\* The writer row after an admission that adds no job.
LEMMA RowTurns ==
    ASSUME TurnsInv, GatewayInv',
           \/ LeaseExpires
           \/ \E o \in Owners : Acquire(o) \/ Release(o) \/ ReplaySettlement(o)
    PROVE  WriterInv' /\ pending \subseteq pending'
  <1>0. writer \in WriterRow /\ Locked \in WriterRow
    BY TypeParts, LockedTyped DEF TurnsInv, GatewayInv, AdmissionTyped
  <1>1. UNCHANGED <<jobs, account>>
    BY DEF Acquire, Release, ReplaySettlement, LeaseExpires
  <1>2. /\ \A j \in DOMAIN jobs : jobs[j].status \in Working => Locked.job = j
        /\ Locked.reservation = 0 => Locked.job = 0
        /\ Locked.live => Locked.job = 0 /\ Locked.checkpoint = account
        /\ \A j \in DOMAIN jobs : j # 0
    BY LockKeeps, RowsTyped DEF TurnsInv, TurnInv
  <1>3. ASSUME NEW o \in Owners, Acquire(o)
        PROVE  WriterInv' /\ pending \subseteq pending'
    <2>1. CASE /\ Locked.reservation # 0 /\ Locked.job = 0
               /\ writer' = [Locked EXCEPT !.live = TRUE]
      <3>1. writer'.job = 0 /\ writer'.checkpoint = Locked.checkpoint
        BY <1>0, <2>1 DEF WriterRow
      <3>2. Locked.live
        <4>1. Locked = Free(writer) => Locked.reservation = 0
          BY <1>0 DEF Free, WriterRow
        <4>2. Locked = writer /\ writer.job = 0
          BY <2>1, <4>1 DEF Locked
        <4>3. QED
          BY <2>1, <4>1, <4>2 DEF Locked
      <3>3. QED
        BY <1>1, <1>2, <1>3, <2>1, <3>1, <3>2 DEF WriterInv, Acquire
    <2>2. CASE /\ NoJobs
               /\ writer' = [reservation |-> Locked.fencing + 1, owner |-> o,
                             fencing |-> Locked.fencing + 1, live |-> TRUE,
                             checkpoint |-> account, job |-> 0]
      <3>1. \A j \in DOMAIN jobs : jobs[j].status \notin Working
        BY <2>2, WorkingNotReleased DEF NoJobs
      <3>2. writer'.job = 0 /\ writer'.checkpoint = account
        BY <2>2
      <3>3. QED
        BY <1>1, <1>3, <3>1, <3>2 DEF WriterInv, Acquire
    <2>3. QED
      BY <1>3, <2>1, <2>2 DEF Acquire
  <1>4. ASSUME NEW o \in Owners, Release(o)
        PROVE  WriterInv' /\ pending \subseteq pending'
    <2>1. writer' = Free(Locked) /\ UNCHANGED pending
      BY <1>4 DEF Release
    <2>2. writer'.job = 0 /\ ~writer'.live
      BY <1>0, <2>1 DEF Free, WriterRow
    <2>3. Locked.job = 0
      BY <1>2, <1>4 DEF Release
    <2>4. QED
      BY <1>1, <1>2, <2>1, <2>2, <2>3 DEF WriterInv
  <1>5. ASSUME NEW o \in Owners, ReplaySettlement(o)
        PROVE  WriterInv' /\ pending \subseteq pending'
    BY <1>1, <1>2, <1>5 DEF WriterInv, ReplaySettlement
  <1>6. ASSUME LeaseExpires
        PROVE  WriterInv' /\ pending \subseteq pending'
    <2>1. /\ writer'.job = writer.job /\ ~writer'.live /\ UNCHANGED pending
          /\ writer'.reservation = writer.reservation
      BY <1>0, <1>6 DEF LeaseExpires, WriterRow
    <2>2. QED
      BY <1>1, <2>1 DEF TurnsInv, TurnInv, WriterInv
  <1>7. QED
    BY <1>3, <1>4, <1>5, <1>6
\* A new job is admitted when every other is over: it has the row to itself and
\* builds on the state of that moment.
LEMMA AttachTurns ==
    ASSUME TurnsInv, GatewayInv', NoJobs,
           NEW row \in JobRows, row.status = "queued", row.hash = 0, row.base = account,
           jobs' = Append(jobs, row), row.kind = "settlement" => Len(jobs) + 1 \in pending',
           writer'.job = Len(jobs) + 1, writer'.reservation # 0, ~writer'.live,
           pending \subseteq pending',
           UNCHANGED <<account, chainVars, workerVars, indexerVars>>
    PROVE  TurnsInv'
  <1>0. /\ jobs \in Seq(JobRows) /\ Len(jobs) \in Nat /\ DOMAIN jobs = 1..Len(jobs)
        /\ GatewayInv
    BY TypeParts, LenProperties DEF TurnsInv, GatewayInv, JobsTyped
  <1> DEFINE top == Len(jobs) + 1
  <1>1. /\ jobs'[top] = row /\ DOMAIN jobs' = 1..top
        /\ \A j \in DOMAIN jobs : jobs'[j] = jobs[j] /\ j \in DOMAIN jobs'
    BY <1>0, AppendProperties, LenProperties
  <1>2. \A j \in DOMAIN jobs' : j = top \/ (j \in DOMAIN jobs /\ jobs'[j] = jobs[j])
    BY <1>0, <1>1
  <1>3. writer'.job = top
    OBVIOUS
  <1> HIDE DEF top
  <1>4. \A j \in DOMAIN jobs : jobs[j].status \notin Working
    BY WorkingNotReleased DEF NoJobs
  <1>5. OutcomesInv'
    <2>1. FinalKept
      BY <1>0, SameChain DEF chainVars
    <2>2. \A j \in DOMAIN jobs : Moves(jobs[j], jobs'[j])
      BY <1>1, MovesSame
    <2>3. \A j \in DOMAIN jobs' : j \notin DOMAIN jobs =>
              jobs'[j].status = "queued" /\ jobs'[j].hash = 0
      BY <1>1, <1>2
    <2>4. QED
      BY <1>1, <2>1, <2>2, <2>3, OutcomesFrame DEF TurnsInv
  <1>6. ChainInv' /\ PoolInv'
    BY <1>1, ChainKept DEF TurnsInv, PoolInv, chainVars
  <1>7. WriterInv'
    BY <1>2, <1>3, <1>4 DEF WriterInv
  <1>8. HeldInv'
    <2>1. ASSUME NEW j \in DOMAIN jobs', jobs'[j].status \in Working
          PROVE  /\ jobs'[j].base = account'
                 /\ jobs'[j].kind = "settlement" => j \in pending'
      <3>1. j = top /\ jobs'[j] = row
        BY <1>1, <1>2, <1>4, <2>1
      <3>2. QED
        BY <3>1 DEF top
    <2>2. QED
      BY <2>1 DEF HeldInv
  <1>9. HolderInv'
    <2>1. \A v \in Replicas : worker[v].pc \notin Resting => worker[v].job \in DOMAIN jobs
      BY <1>0, WorkingJob
    <2>2. QED
      BY <1>1, <2>1 DEF TurnsInv, HolderInv, workerVars
  <1>10. QED
    BY <1>5, <1>6, <1>7, <1>8, <1>9 DEF TurnsInv, TurnInv

LEMMA AdmissionTurns ==
    ASSUME TurnsInv, Admission, GatewayInv'
    PROVE  TurnsInv'
  <1>0. /\ Locked \in WriterRow /\ account \in Seq(Blocks) /\ token \in [Owners -> Nat]
        /\ Len(jobs) \in Nat
    BY TypeParts, LockedTyped, RowsTyped DEF TurnsInv, GatewayInv, AdmissionTyped
  <1>1. UNCHANGED <<chainVars, workerVars, indexerVars>>
    BY DEF Admission
  <1>2. CASE \/ LeaseExpires
             \/ \E o \in Owners : Acquire(o) \/ Release(o) \/ ReplaySettlement(o)
    <2>1. UNCHANGED <<jobs, account>>
      BY <1>2 DEF Acquire, Release, ReplaySettlement, LeaseExpires
    <2>2. WriterInv' /\ pending \subseteq pending'
      BY <1>2, RowTurns
    <2>3. FinalKept /\ GatewayInv
      BY <1>1, SameChain DEF chainVars, TurnsInv
    <2>4. OutcomesInv'
      BY <1>1, <2>1, <2>3, MovesSame, OutcomesFrame DEF TurnsInv
    <2>5. ChainInv' /\ PoolInv' /\ HolderInv'
      BY <1>1, <2>1 DEF TurnsInv, ChainInv, PoolInv, HolderInv, chainVars, workerVars
    <2>6. HeldInv'
      BY <1>1, <2>1, <2>2 DEF TurnsInv, TurnInv, HeldInv, Applied, indexerVars
    <2>7. QED
      BY <2>2, <2>4, <2>5, <2>6 DEF TurnsInv, TurnInv
  <1>3. ASSUME NEW o \in Owners, AttachSettlement(o)
        PROVE  TurnsInv'
    <2> DEFINE row == NewJob("settlement", account, token[o])
    <2>1. /\ jobs' = Append(jobs, row) /\ NoJobs /\ Locked.reservation # 0
          /\ writer' = [Locked EXCEPT !.job = Len(jobs) + 1, !.live = FALSE]
          /\ pending' = pending \union {Len(jobs) + 1} /\ UNCHANGED account
      BY <1>3 DEF AttachSettlement
    <2>2. row \in JobRows
      BY <1>0, NewRow
    <2>3. row.status = "queued" /\ row.hash = 0 /\ row.base = account
      BY DEF NewJob
    <2>4. writer'.job = Len(jobs) + 1 /\ writer'.reservation # 0 /\ ~writer'.live
      BY <1>0, <2>1 DEF WriterRow
    <2> HIDE DEF row
    <2>5. QED
      BY <1>1, <2>1, <2>2, <2>3, <2>4, AttachTurns
  <1>4. CASE AttachBridge
    <2> DEFINE row == NewJob("bridge", account, 0)
    <2>1. /\ jobs' = Append(jobs, row) /\ NoJobs
          /\ writer' = [reservation |-> Locked.fencing + 1, owner |-> Bridge,
                        fencing |-> Locked.fencing + 1, live |-> FALSE,
                        checkpoint |-> << >>, job |-> Len(jobs) + 1]
          /\ UNCHANGED <<account, pending>>
      BY <1>4 DEF AttachBridge
    <2>2. row \in JobRows
      BY <1>0, NewRow
    <2>3. row.status = "queued" /\ row.hash = 0 /\ row.base = account /\ row.kind = "bridge"
      BY DEF NewJob
    <2>4. writer'.job = Len(jobs) + 1 /\ writer'.reservation # 0 /\ ~writer'.live
      <3>1. Locked.fencing \in Nat
        BY <1>0 DEF WriterRow
      <3>2. QED
        BY <2>1, <3>1
    <2> HIDE DEF row
    <2>5. QED
      BY <1>1, <2>1, <2>2, <2>3, <2>4, AttachTurns
  <1>5. QED
    BY <1>2, <1>3, <1>4 DEF Admission
-----------------------------------------------------------------------------
(* The workers and the operator.                                           *)

LEMMA WorkTurns ==
    ASSUME TurnsInv, GatewayInv', DOMAIN jobs' = DOMAIN jobs,
           \A j \in DOMAIN jobs : Moves(jobs[j], jobs'[j]),
           \A j \in DOMAIN jobs : j \in pending /\ j \notin pending' =>
              jobs'[j].status \in Finished,
           writer' \in {writer, Locked},
           UNCHANGED <<chain, final, account, indexerVars>>,
           PoolInv', HolderInv'
    PROVE  TurnsInv'
  <1>1. FinalKept /\ GatewayInv
    BY SameChain DEF TurnsInv
  <1>2. OutcomesInv'
    BY <1>1, OutcomesFrame DEF TurnsInv
  <1>3. ChainInv'
    BY ChainKept DEF TurnsInv, Moves
  <1>4. TurnInv'
    BY TurnFrame DEF TurnsInv, indexerVars
  <1>5. QED
    BY <1>2, <1>3, <1>4 DEF TurnsInv

\* A worker goes on with its attempt or gives it up.
GoesOn(w, r) ==
    /\ worker' = [worker EXCEPT ![w] = r]
    /\ r.pc \notin Resting => /\ worker[w].pc \notin Resting
                              /\ r.job = worker[w].job /\ r.attempt = worker[w].attempt

LEMMA GoesOnFrame ==
    ASSUME GatewayInv, NEW w \in Replicas, NEW r, GoesOn(w, r)
    PROVE  /\ worker'[w] = r
           /\ \A v \in Replicas : /\ v # w => worker'[v] = worker[v]
                                  /\ worker'[v].pc \notin Resting =>
                                      /\ worker[v].pc \notin Resting
                                      /\ worker'[v].job = worker[v].job
                                      /\ worker'[v].attempt = worker[v].attempt
  <1>1. worker \in [Replicas -> WorkerRow]
    BY TypeParts DEF GatewayInv, WorkerTyped
  <1>2. worker'[w] = r /\ \A v \in Replicas : v # w => worker'[v] = worker[v]
    BY <1>1 DEF GoesOn
  <1>3. QED
    BY <1>2 DEF GoesOn

\* ... leaving the tables alone,
LEMMA QuietTurns ==
    ASSUME TurnsInv, GatewayInv', NEW w \in Replicas, NEW r, GoesOn(w, r), PoolInv',
           UNCHANGED <<chain, final, writerVars, indexerVars>>
    PROVE  TurnsInv'
  <1>1. /\ worker'[w] = r
        /\ \A v \in Replicas : worker'[v].pc \notin Resting =>
              /\ worker[v].pc \notin Resting
              /\ worker'[v].job = worker[v].job /\ worker'[v].attempt = worker[v].attempt
    BY GoesOnFrame DEF TurnsInv
  <1>2. \A v \in Replicas : worker[v].pc \notin Resting =>
           /\ jobs[worker[v].job].attempts \in Nat
           /\ jobs[worker[v].job].attempts <= jobs[worker[v].job].attempts
    BY WorkingJob, RowsTyped DEF TurnsInv
  <1>3. HolderInv'
    BY <1>1, <1>2, HolderKept DEF TurnsInv, HolderInv, writerVars
  <1>4. QED
    BY <1>3, MovesSame, WorkTurns DEF writerVars

\* ... or with a statement on one row: what it takes out of hand it holds.
LEMMA UpdateTurns ==
    ASSUME TurnsInv, GatewayInv', NEW w \in Replicas, NEW r, GoesOn(w, r),
           NEW j \in DOMAIN jobs, NEW row \in JobRows, jobs' = [jobs EXCEPT ![j] = row],
           Moves(jobs[j], row), row.attempts = jobs[j].attempts,
           \/ row.status \in Taken \/ row.status = jobs[j].status
           \/ /\ worker[w].pc \notin Resting /\ r.pc \in Resting
              /\ worker[w].job = j /\ worker[w].attempt = jobs[j].attempts,
           pending' = pending \/ (pending' = pending \ {j} /\ row.status \in Finished),
           UNCHANGED <<chainVars, writer, account, indexerVars>>
    PROVE  TurnsInv'
  <1>0. /\ GatewayInv /\ HolderInv
        /\ worker'[w] = r
        /\ \A v \in Replicas : /\ v # w => worker'[v] = worker[v]
                               /\ worker'[v].pc \notin Resting =>
                                   /\ worker[v].pc \notin Resting
                                   /\ worker'[v].job = worker[v].job
                                   /\ worker'[v].attempt = worker[v].attempt
    BY GoesOnFrame DEF TurnsInv
  <1>1. DOMAIN jobs' = DOMAIN jobs /\ jobs'[j] = row
        /\ \A k \in DOMAIN jobs : k # j => jobs'[k] = jobs[k]
    BY <1>0, RowsTyped
  <1>2. \A k \in DOMAIN jobs : Moves(jobs[k], jobs'[k])
    BY <1>1, MovesSame
  <1>3. \A k \in DOMAIN jobs : k \in pending /\ k \notin pending' =>
              jobs'[k].status \in Finished
    BY <1>1
  <1>4. ASSUME NEW v \in Replicas, worker'[v].pc \notin Resting
        PROVE  /\ jobs'[worker[v].job].attempts \in Nat
               /\ jobs[worker[v].job].attempts <= jobs'[worker[v].job].attempts
               /\ worker[v].attempt = jobs'[worker[v].job].attempts
                    => jobs'[worker[v].job].status \in Taken
    <2>1. worker[v].job \in DOMAIN jobs /\ worker[v].pc \notin Resting
      BY <1>0, <1>4, WorkingJob
    <2>2. /\ jobs[worker[v].job].attempts \in Nat
          /\ jobs'[worker[v].job].attempts = jobs[worker[v].job].attempts
      BY <1>0, <1>1, <2>1, RowsTyped
    <2>3. ASSUME worker[v].attempt = jobs[worker[v].job].attempts
          PROVE  jobs'[worker[v].job].status \in Taken
      <3>1. CASE worker[v].job # j
        BY <1>0, <1>1, <2>1, <2>3, <3>1 DEF HolderInv
      <3>2. CASE worker[v].job = j /\ (row.status \in Taken \/ row.status = jobs[j].status)
        BY <1>0, <1>1, <2>1, <2>3, <3>2 DEF HolderInv
      <3>3. CASE /\ worker[v].job = j /\ worker[w].pc \notin Resting /\ r.pc \in Resting
                 /\ worker[w].job = j /\ worker[w].attempt = jobs[j].attempts
        <4>1. v = w
          BY <1>0, <2>1, <2>3, <3>3 DEF HolderInv
        <4>2. QED
          BY <1>0, <1>4, <3>3, <4>1
      <3>4. QED
        BY <3>1, <3>2, <3>3
    <2>4. QED
      BY <2>2, <2>3
  <1>5. HolderInv'
    BY <1>0, <1>4, HolderKept
  <1>6. PoolInv'
    BY DEF TurnsInv, PoolInv, chainVars
  <1>7. QED
    BY <1>1, <1>2, <1>3, <1>5, <1>6, WorkTurns DEF chainVars

\* The steps of a worker in these terms.
LEMMA GotoOn ==
    ASSUME GatewayInv, NEW w \in Replicas, NEW pc \in Stages, Goto(w, pc),
           pc \in Resting \/ worker[w].pc \notin Resting
    PROVE  \E r \in WorkerRow : GoesOn(w, r) /\ r.pc = pc
  <1> DEFINE r == [worker[w] EXCEPT !.pc = pc]
  <1>1. /\ r \in WorkerRow /\ r.pc = pc /\ r.job = worker[w].job
        /\ r.attempt = worker[w].attempt
    BY WorkingJob, PcTyped
  <1>2. worker' = [worker EXCEPT ![w] = r]
    BY DEF Goto
  <1> HIDE DEF r
  <1>3. GoesOn(w, r)
    BY <1>1, <1>2 DEF GoesOn
  <1>4. QED
    BY <1>1, <1>3

LEMMA FailOn ==
    ASSUME GatewayInv, NEW w \in Replicas, NEW class \in {"retryable", "fatal"},
           Fail(w, class), worker[w].pc \notin Resting
    PROVE  \E r \in WorkerRow : GoesOn(w, r)
  <1> DEFINE r == [worker[w] EXCEPT !.pc = "fail", !.class = class]
  <1>1. /\ r \in WorkerRow /\ r.job = worker[w].job
        /\ r.attempt = worker[w].attempt
    BY WorkingJob, ClassTyped
  <1>2. worker' = [worker EXCEPT ![w] = r]
    BY DEF Fail
  <1> HIDE DEF r
  <1>3. GoesOn(w, r)
    BY <1>1, <1>2 DEF GoesOn
  <1>4. QED
    BY <1>1, <1>3

LEMMA FailTurns ==
    ASSUME TurnsInv, GatewayInv', NEW w \in Replicas, worker[w].pc \notin Resting,
           ServiceFails(w) \/ Fenced(w), UNCHANGED indexerVars
    PROVE  TurnsInv'
  <1>1. PICK class \in {"retryable", "fatal"} : Fail(w, class)
    BY DEF ServiceFails, Fenced
  <1>2. PICK r \in WorkerRow : GoesOn(w, r)
    BY <1>1, FailOn DEF TurnsInv
  <1>3. UNCHANGED <<chain, final, mempool, writerVars>>
    BY DEF ServiceFails, Fenced, chainVars
  <1>4. PoolInv'
    BY <1>3 DEF TurnsInv, PoolInv
  <1>5. QED
    BY <1>2, <1>3, <1>4, QuietTurns

\* A worker goes to the next stage without a statement.
LEMMA StageTurns ==
    ASSUME TurnsInv, GatewayInv', NEW w \in Replicas, NEW pc \in Stages, Goto(w, pc),
           pc \in Resting \/ worker[w].pc \notin Resting,
           UNCHANGED <<chainVars, writerVars, indexerVars>>
    PROVE  TurnsInv'
  <1>1. PICK r \in WorkerRow : GoesOn(w, r)
    BY GotoOn DEF TurnsInv
  <1>2. PoolInv'
    BY DEF TurnsInv, PoolInv, chainVars
  <1>3. QED
    BY <1>1, <1>2, QuietTurns DEF chainVars
\* A statement on the job's row, and on to the next stage.
LEMMA StatementTurns ==
    ASSUME TurnsInv, GatewayInv', NEW w \in Replicas, worker[w].pc \notin Resting,
           NEW row \in JobRows, Update(w, row), NEW pc \in Stages, Goto(w, pc),
           Moves(jobs[worker[w].job], row),
           row.attempts = jobs[worker[w].job].attempts,
           \/ row.status \in Taken \/ row.status = jobs[worker[w].job].status
           \/ pc \in Resting /\ worker[w].attempt = jobs[worker[w].job].attempts,
           \/ pending' = pending
           \/ pending' = pending \ {worker[w].job} /\ row.status \in Finished,
           UNCHANGED <<chainVars, writer, account, indexerVars>>
    PROVE  TurnsInv'
  <1>1. PICK r \in WorkerRow : GoesOn(w, r) /\ r.pc = pc
    BY GotoOn DEF TurnsInv
  <1>2. worker[w].job \in DOMAIN jobs
    BY WorkingJob DEF TurnsInv
  <1>3. QED
    BY <1>1, <1>2, UpdateTurns DEF Update

LEMMA StatusMoves ==
    ASSUME NEW old \in JobRows, NEW s \in Statuses,
           old.status \notin Finished \union {"submitted"},
           s \notin {"confirmed", "reorged", "ethereum_reverted", "proof_failed", "executed"}
    PROVE  LET new == [old EXCEPT !.status = s] IN
           /\ new \in JobRows /\ Moves(old, new)
           /\ new.attempts = old.attempts /\ new.status = s
  BY DEF JobRows, Moves

\* The row of a worker that holds the current attempt.
LEMMA HeldRow ==
    ASSUME TurnsInv, NEW w \in Replicas, worker[w].pc \notin Resting
    PROVE  LET job == jobs[worker[w].job] IN
           /\ job \in JobRows /\ job.status \in Statuses
           /\ job.status \notin {"proof_failed", "executed"}
           /\ job.attempts = worker[w].attempt => job.status \in Taken
  BY WorkingJob, RowsTyped DEF TurnsInv, HolderInv, OutcomesInv, StatusInv

LEMMA PreflightTurns ==
    ASSUME TurnsInv, GatewayInv', NEW w \in Replicas, Preflight(w), UNCHANGED indexerVars
    PROVE  TurnsInv'
  <1>1. worker[w].pc \notin Resting
    BY StageNames DEF Preflight, At
  <1> DEFINE job == jobs[worker[w].job]
             row == [job EXCEPT !.status = "awaiting_approval"]
  <1>2. job \in JobRows
    BY <1>1, HeldRow
  <1>3. "claim" \in Resting /\ "claim" \in Stages /\ "setProving" \in Stages
    BY StageNames
  <1>4. CASE ServiceFails(w) \/ Fenced(w)
    BY <1>1, <1>4, FailTurns
  <1>5. CASE /\ Holds(w, {"validating"}) /\ Update(w, row) /\ Goto(w, "claim")
             /\ UNCHANGED <<chainVars, writer, token, account, pending,
                            recoveryReady, lockHolder, purchased>>
    <2>1. job.status = "validating" /\ job.attempts = worker[w].attempt
      BY <1>5 DEF Holds
    <2>2. /\ row \in JobRows /\ Moves(job, row) /\ row.attempts = job.attempts
      <3>1. /\ "awaiting_approval" \in Statuses /\ job.status \notin Finished \union {"submitted"}
            /\ "awaiting_approval" \notin {"confirmed", "reorged", "ethereum_reverted",
                                           "proof_failed", "executed"}
        BY <2>1, StatusNames, StatusSets
      <3>2. QED
        BY <1>2, <3>1, StatusMoves
    <2> HIDE DEF row
    <2>3. QED
      BY <1>1, <1>3, <1>5, <2>1, <2>2, StatementTurns
  <1>6. CASE /\ Goto(w, "setProving") /\ UNCHANGED jobs
             /\ UNCHANGED <<chainVars, writer, token, account, pending,
                            recoveryReady, lockHolder, purchased>>
    BY <1>1, <1>3, <1>6, StageTurns DEF writerVars
  <1>7. QED
    BY <1>4, <1>5, <1>6 DEF Preflight

LEMMA ChecksTurns ==
    ASSUME TurnsInv, GatewayInv', NEW w \in Replicas, Validate(w) \/ Metrics(w),
           UNCHANGED indexerVars
    PROVE  TurnsInv'
  <1>1. worker[w].pc \notin Resting
    BY StageNames DEF Validate, Metrics, At
  <1>2. CASE ServiceFails(w) \/ Fenced(w)
    BY <1>1, <1>2, FailTurns
  <1>3. CASE /\ \E pc \in {"send", "setProving"} : Goto(w, pc)
             /\ UNCHANGED <<chainVars, writerVars, lockHolder, purchased>>
    <2>1. PICK pc \in {"send", "setProving"} : Goto(w, pc)
      BY <1>3
    <2>2. pc \in Stages
      BY StageNames
    <2>3. QED
      BY <1>1, <1>3, <2>1, <2>2, StageTurns
  <1>4. QED
    BY <1>2, <1>3 DEF Validate, Metrics

LEMMA SetProvingTurns ==
    ASSUME TurnsInv, GatewayInv', NEW w \in Replicas, SetProving(w), UNCHANGED indexerVars
    PROVE  TurnsInv'
  <1>1. worker[w].pc \notin Resting
    BY StageNames DEF SetProving, At
  <1> DEFINE job == jobs[worker[w].job]
             row == [job EXCEPT !.status = "proving"]
  <1>2. CASE Fenced(w)
    BY <1>1, <1>2, FailTurns
  <1>3. CASE /\ job.attempts = worker[w].attempt
             /\ job.status \notin {"reorged", "rejected", "confirmed",
                                   "ethereum_reverted", "failed", "executed"}
             /\ Update(w, row)
             /\ \E pc \in {"wait", "begin"} : Goto(w, pc)
             /\ UNCHANGED <<chainVars, writer, token, account, pending,
                            recoveryReady, lockHolder, purchased>>
    <2>1. job \in JobRows /\ job.status \in Taken /\ job.status # "proof_failed"
      BY <1>1, <1>3, HeldRow
    <2>2. /\ row \in JobRows /\ Moves(job, row) /\ row.attempts = job.attempts
          /\ row.status \in Taken
      <3>1. /\ "proving" \in Statuses /\ "proving" \in Taken
            /\ job.status \notin Finished \union {"submitted"}
        BY <1>3, <2>1, StatusNames, StatusSets
      <3>2. QED
        BY <2>1, <3>1, StatusMoves
    <2> HIDE DEF row
    <2>3. PICK pc \in {"wait", "begin"} : Goto(w, pc)
      BY <1>3
    <2>4. pc \in Stages
      BY StageNames
    <2>5. QED
      BY <1>1, <1>3, <2>2, <2>3, <2>4, StatementTurns
  <1>4. QED
    BY <1>2, <1>3 DEF SetProving
\* Statements that leave the status alone.
LEMMA BeginTurns ==
    ASSUME TurnsInv, GatewayInv', NEW w \in Replicas, BeginProofRequest(w) \/ WaitProof(w),
           UNCHANGED indexerVars
    PROVE  TurnsInv'
  <1>1. worker[w].pc \notin Resting
    BY StageNames DEF BeginProofRequest, WaitProof, At
  <1> DEFINE job == jobs[worker[w].job]
  <1>2. job \in JobRows /\ worker[w].attempt \in Nat
    BY <1>1, HeldRow, WorkingJob DEF TurnsInv
  <1>3. CASE ServiceFails(w) \/ Fenced(w)
    BY <1>1, <1>3, FailTurns
  <1>4. CASE /\ Update(w, [job EXCEPT !.intent = worker[w].attempt]) /\ Goto(w, "request")
             /\ UNCHANGED <<chainVars, writer, token, account, pending,
                            recoveryReady, lockHolder, purchased>>
    <2> DEFINE row == [job EXCEPT !.intent = worker[w].attempt]
    <2>1. /\ row \in JobRows /\ Moves(job, row) /\ row.attempts = job.attempts
          /\ row.status = job.status
      BY <1>2 DEF JobRows, Moves
    <2> HIDE DEF row
    <2>2. "request" \in Stages
      BY StageNames
    <2>3. QED
      BY <1>1, <1>4, <2>1, <2>2, StatementTurns DEF row
  <1>5. CASE /\ Update(w, [job EXCEPT !.proof = TRUE]) /\ Goto(w, "metrics")
             /\ UNCHANGED <<chainVars, writer, token, account, pending,
                            recoveryReady, lockHolder, purchased>>
    <2> DEFINE row == [job EXCEPT !.proof = TRUE]
    <2>1. /\ row \in JobRows /\ Moves(job, row) /\ row.attempts = job.attempts
          /\ row.status = job.status
      BY <1>2 DEF JobRows, Moves
    <2> HIDE DEF row
    <2>2. "metrics" \in Stages
      BY StageNames
    <2>3. QED
      BY <1>1, <1>5, <2>1, <2>2, StatementTurns DEF row
  <1>6. QED
    BY <1>3, <1>4, <1>5 DEF BeginProofRequest, WaitProof

LEMMA RequestTurns ==
    ASSUME TurnsInv, GatewayInv', NEW w \in Replicas, RequestProof(w), UNCHANGED indexerVars
    PROVE  TurnsInv'
  <1>1. worker[w].pc \notin Resting
    BY StageNames DEF RequestProof, At
  <1>2. CASE ServiceFails(w)
    BY <1>1, <1>2, FailTurns
  <1>3. CASE /\ \/ Goto(w, "finish") \/ Fail(w, "retryable")
             /\ UNCHANGED <<chain, final, mempool, writerVars, lockHolder>>
    <2>1. PICK r \in WorkerRow : GoesOn(w, r)
      <3>1. "finish" \in Stages
        BY StageNames
      <3>2. QED
        BY <1>1, <1>3, <3>1, GotoOn, FailOn DEF TurnsInv
    <2>2. PoolInv'
      BY <1>3 DEF TurnsInv, PoolInv
    <2>3. QED
      BY <1>3, <2>1, <2>2, QuietTurns
  <1>4. QED
    BY <1>2, <1>3 DEF RequestProof

\* The request id comes late, perhaps to a job that another attempt has now.
LEMMA FinishTurns ==
    ASSUME TurnsInv, GatewayInv', NEW w \in Replicas, FinishProofRequest(w),
           UNCHANGED indexerVars
    PROVE  TurnsInv'
  <1>1. worker[w].pc \notin Resting
    BY StageNames DEF FinishProofRequest, At
  <1> DEFINE j == worker[w].job
             job == jobs[j]
             row == [job EXCEPT !.requestId = worker[w].attempt,
                          !.status = IF @ = "proving" THEN "proof_requested" ELSE @]
             r == [worker[w] EXCEPT !.pc = "wait", !.requestId = worker[w].attempt]
  <1>2. /\ job \in JobRows /\ worker[w].attempt \in Nat /\ worker[w] \in WorkerRow
        /\ j \in DOMAIN jobs
    BY <1>1, WorkingJob DEF TurnsInv
  <1>3. CASE Fenced(w)
    BY <1>1, <1>3, FailTurns
  <1>4. CASE /\ CanFinish(w) /\ Update(w, row) /\ worker' = [worker EXCEPT ![w] = r]
             /\ UNCHANGED <<chainVars, writer, token, account, pending,
                            recoveryReady, lockHolder, purchased>>
    <2>1. job.status \in {"queued", "approved", "proving", "proof_requested"}
      BY <1>4 DEF CanFinish
    <2> DEFINE s == IF job.status = "proving" THEN "proof_requested" ELSE job.status
    <2>2. /\ s \in Statuses /\ s \notin {"confirmed", "reorged", "ethereum_reverted",
                                         "proof_failed", "executed"}
          /\ job.status \notin Finished \union {"submitted"}
          /\ s \in Taken \/ s = job.status
      BY <2>1, StatusNames, StatusSets
    <2>3. row = [job EXCEPT !.requestId = worker[w].attempt, !.status = s]
      BY <1>2 DEF JobRows
    <2> HIDE DEF s
    <2>4. \A old \in JobRows, n \in Nat :
             old.status \notin Finished \union {"submitted"} =>
               LET new == [old EXCEPT !.requestId = n, !.status = s] IN
               /\ new \in JobRows /\ Moves(old, new)
               /\ new.attempts = old.attempts /\ new.status = s
      BY <2>2 DEF JobRows, Moves
    <2> HIDE DEF row
    <2>5. row \in JobRows /\ Moves(job, row) /\ row.attempts = job.attempts /\ row.status = s
      BY <1>2, <2>2, <2>3, <2>4
    <2>6. r.job = worker[w].job /\ r.attempt = worker[w].attempt
      BY <1>2 DEF WorkerRow
    <2> HIDE DEF r, job
    <2>7. GoesOn(w, r)
      BY <1>1, <1>4, <2>6 DEF GoesOn
    <2> HIDE DEF j
    <2>8. jobs' = [jobs EXCEPT ![j] = row]
      BY <1>4 DEF Update, j
    <2>9. QED
      BY <1>2, <1>4, <2>2, <2>5, <2>7, <2>8, UpdateTurns DEF job
  <1>5. QED
    BY <1>3, <1>4 DEF FinishProofRequest

LEMMA SendTurns ==
    ASSUME TurnsInv, GatewayInv', NEW w \in Replicas, Send(w), UNCHANGED indexerVars
    PROVE  TurnsInv'
  <1>1. worker[w].pc \notin Resting
    BY StageNames DEF Send, At
  <1> DEFINE j == worker[w].job
             job == jobs[j]
             h == IF job.prepared # 0 THEN job.prepared ELSE job.hash
             row == [job EXCEPT !.proof = TRUE, !.status = "submitting",
                          !.hash = IF job.prepared # 0 THEN job.prepared ELSE @]
             r == [worker[w] EXCEPT
                     !.pc = IF job.prepared # 0 THEN "broadcast" ELSE "sign",
                     !.tx = job.prepared]
  <1>2. /\ job \in JobRows /\ worker[w] \in WorkerRow /\ j \in DOMAIN jobs
    BY <1>1, WorkingJob DEF TurnsInv
  <1>3. CASE Fenced(w)
    BY <1>1, <1>3, FailTurns
  <1>4. CASE /\ Holds(w, Sending)
             /\ jobs' = [jobs EXCEPT ![j] = row] /\ worker' = [worker EXCEPT ![w] = r]
             /\ UNCHANGED <<chainVars, writer, token, account, pending,
                            recoveryReady, lockHolder, purchased>>
    <2>1. /\ job.status \notin Finished \union {"submitted"}
          /\ "submitting" \in Statuses /\ "submitting" \in Taken
      BY <1>4, StatusNames, StatusSets DEF Holds, Sending
    <2>2. /\ h \in Nat /\ (h = job.hash \/ h = job.prepared)
          /\ row = [job EXCEPT !.proof = TRUE, !.status = "submitting", !.hash = h]
      BY <1>2 DEF JobRows
    <2> HIDE DEF h
    <2>3. \A old \in JobRows, n \in Nat :
             /\ old.status \notin Finished \union {"submitted"}
             /\ n = old.hash \/ n = old.prepared
             => LET new == [old EXCEPT !.proof = TRUE, !.status = "submitting", !.hash = n] IN
                /\ new \in JobRows /\ Moves(old, new)
                /\ new.attempts = old.attempts /\ new.status = "submitting"
      BY <2>1 DEF JobRows, Moves
    <2> HIDE DEF row
    <2>4. /\ row \in JobRows /\ Moves(job, row) /\ row.attempts = job.attempts
          /\ row.status = "submitting"
      BY <1>2, <2>1, <2>2, <2>3
    <2>5. r.job = worker[w].job /\ r.attempt = worker[w].attempt
      BY <1>2 DEF WorkerRow
    <2> HIDE DEF r, job
    <2>6. GoesOn(w, r)
      BY <1>1, <1>4, <2>5 DEF GoesOn
    <2> HIDE DEF j
    <2>7. QED
      BY <1>2, <1>4, <2>1, <2>4, <2>6, UpdateTurns DEF job
  <1>5. QED
    BY <1>3, <1>4 DEF Send, Update

LEMMA SignTurns ==
    ASSUME TurnsInv, GatewayInv', NEW w \in Replicas, Sign(w), UNCHANGED indexerVars
    PROVE  TurnsInv'
  <1>1. worker[w].pc \notin Resting
    BY StageNames DEF Sign, At
  <1> DEFINE j == worker[w].job
             row == [jobs[j] EXCEPT !.prepared = worker[w].attempt,
                                    !.hash = worker[w].attempt]
             r == [worker[w] EXCEPT !.pc = "broadcast", !.tx = worker[w].attempt]
  <1>2. /\ jobs[j] \in JobRows /\ worker[w] \in WorkerRow /\ j \in DOMAIN jobs
        /\ worker[w].attempt \in Nat
    BY <1>1, WorkingJob DEF TurnsInv
  <1>3. CASE ServiceFails(w) \/ Fenced(w)
    BY <1>1, <1>3, FailTurns
  <1>4. CASE /\ CanSign(w)
             /\ jobs' = [jobs EXCEPT ![j] = row] /\ worker' = [worker EXCEPT ![w] = r]
             /\ UNCHANGED <<chainVars, writer, token, account, pending,
                            recoveryReady, lockHolder, purchased>>
    <2>1. jobs[j].prepared = 0
      BY <1>4 DEF CanSign
    <2>2. /\ row \in JobRows /\ Moves(jobs[j], row) /\ row.attempts = jobs[j].attempts
          /\ row.status = jobs[j].status
      BY <1>2, <2>1 DEF JobRows, Moves
    <2>3. r.job = worker[w].job /\ r.attempt = worker[w].attempt
      BY <1>2 DEF WorkerRow
    <2> HIDE DEF r, row
    <2>4. GoesOn(w, r)
      BY <1>1, <1>4, <2>3 DEF GoesOn
    <2> HIDE DEF j
    <2>5. QED
      BY <1>2, <1>4, <2>2, <2>4, UpdateTurns
  <1>5. QED
    BY <1>3, <1>4 DEF Sign, Update

\* What is mined is not sent again.
LEMMA BroadcastTurns ==
    ASSUME TurnsInv, GatewayInv', NEW w \in Replicas, Broadcast(w), UNCHANGED indexerVars
    PROVE  TurnsInv'
  <1>1. worker[w].pc \notin Resting
    BY StageNames DEF Broadcast, At
  <1> DEFINE tx == <<worker[w].job, worker[w].tx>>
  <1>2. CASE ServiceFails(w)
    BY <1>1, <1>2, FailTurns
  <1>3. CASE /\ mempool' = IF Mined(tx) THEN mempool ELSE mempool \union {tx}
             /\ \/ Goto(w, "mark") \/ Fail(w, "retryable")
             /\ UNCHANGED <<chain, final, writerVars, lockHolder, purchased>>
    <2>1. PICK r \in WorkerRow : GoesOn(w, r)
      <3>1. "mark" \in Stages
        BY StageNames
      <3>2. QED
        BY <1>1, <1>3, <3>1, GotoOn, FailOn DEF TurnsInv
    <2> HIDE DEF tx
    <2>2. PoolInv'
      BY <1>3 DEF TurnsInv, PoolInv, Mined
    <2>3. QED
      BY <1>3, <2>1, <2>2, QuietTurns
  <1>4. QED
    BY <1>2, <1>3 DEF Broadcast
LEMMA MarkTurns ==
    ASSUME TurnsInv, GatewayInv', NEW w \in Replicas, MarkSubmitted(w), UNCHANGED indexerVars
    PROVE  TurnsInv'
  <1>1. worker[w].pc \notin Resting /\ "claim" \in Resting /\ "claim" \in Stages
    BY StageNames DEF MarkSubmitted, At
  <1>2. /\ Goto(w, "claim")
        /\ UNCHANGED <<chainVars, writer, token, account, pending, recoveryReady>>
    BY DEF MarkSubmitted
  <1>3. CASE UNCHANGED jobs
    BY <1>1, <1>2, <1>3, StageTurns DEF writerVars
  <1> DEFINE job == jobs[worker[w].job]
             row == [job EXCEPT !.status = "submitted"]
  <1>4. CASE Holds(w, {"submitting"}) /\ Update(w, row)
    <2>1. job \in JobRows /\ job.status = "submitting" /\ job.attempts = worker[w].attempt
      BY <1>1, <1>4, HeldRow DEF Holds
    <2>2. /\ "submitted" \in Statuses /\ job.status \notin Finished \union {"submitted"}
          /\ "submitted" \notin {"confirmed", "reorged", "ethereum_reverted",
                                 "proof_failed", "executed"}
      BY <2>1, StatusNames, StatusSets
    <2>3. row \in JobRows /\ Moves(job, row) /\ row.attempts = job.attempts
      BY <2>1, <2>2, StatusMoves
    <2> HIDE DEF row
    <2>4. QED
      BY <1>1, <1>2, <1>4, <2>1, <2>3, StatementTurns
  <1>5. QED
    BY <1>3, <1>4 DEF MarkSubmitted

LEMMA RecordFailureTurns ==
    ASSUME TurnsInv, GatewayInv', NEW w \in Replicas, RecordFailure(w), UNCHANGED indexerVars
    PROVE  TurnsInv'
  <1>1. worker[w].pc \notin Resting /\ "claim" \in Resting /\ "claim" \in Stages
    BY StageNames DEF RecordFailure, At
  <1> DEFINE job == jobs[worker[w].job]
             s == FailedStatus(job, worker[w].class)
             row == [job EXCEPT !.status = s]
  <1>2. Goto(w, "claim") /\ UNCHANGED <<chainVars, writer, token, account, recoveryReady>>
    BY DEF RecordFailure
  <1>3. CASE UNCHANGED <<jobs, pending>>
    BY <1>1, <1>2, <1>3, StageTurns DEF writerVars
  <1>4. CASE /\ job.attempts = worker[w].attempt /\ job.status \notin Finished
             /\ Update(w, row)
             /\ pending' = IF KeepsPoolRow(s) THEN pending ELSE pending \ {worker[w].job}
    <2>1. job \in JobRows /\ job.status \in Taken
      BY <1>1, <1>4, HeldRow
    <2>2. s \in {"queued", "approved", "failed"}
      BY DEF FailedStatus
    <2>3. /\ s \in Statuses /\ job.status \notin Finished \union {"submitted"}
          /\ s \notin {"confirmed", "reorged", "ethereum_reverted",
                       "proof_failed", "executed"}
          /\ s = "failed" => s \in Finished
      BY <1>4, <2>1, <2>2, StatusNames, StatusSets
    <2> HIDE DEF s
    <2>4. /\ row \in JobRows /\ Moves(job, row) /\ row.attempts = job.attempts
          /\ row.status = s
      BY <2>1, <2>3, StatusMoves
    <2>5. pending' = pending \/ (pending' = pending \ {worker[w].job} /\ row.status \in Finished)
      BY <1>4, <2>3, <2>4 DEF KeepsPoolRow
    <2> HIDE DEF row
    <2>6. QED
      BY <1>1, <1>2, <1>4, <2>4, <2>5, StatementTurns
  <1>5. QED
    BY <1>3, <1>4 DEF RecordFailure

LEMMA OwnershipTurns ==
    ASSUME TurnsInv, GatewayInv', NEW w \in Replicas,
           Elect(w) \/ LoseSession(w) \/ Demote(w) \/ Crash(w), UNCHANGED indexerVars
    PROVE  TurnsInv'
  <1>1. UNCHANGED <<chain, final, mempool, writerVars>>
    BY DEF Elect, LoseSession, Demote, Crash, chainVars
  <1>2. PoolInv'
    BY <1>1 DEF TurnsInv, PoolInv
  <1>3. "recover" \in Stages /\ "recover" \in Resting /\ "idle" \in Resting
    BY StageNames
  <1>4. \E r \in WorkerRow : GoesOn(w, r)
    <2>1. CASE Elect(w)
      BY <1>3, <2>1, GotoOn DEF Elect, TurnsInv
    <2>2. CASE LoseSession(w)
      <3>1. worker' = [worker EXCEPT ![w] = worker[w]] /\ worker[w] \in WorkerRow
        BY <2>2, TypeParts DEF LoseSession, TurnsInv, GatewayInv, WorkerTyped
      <3>2. QED
        BY <3>1 DEF GoesOn
    <2>3. CASE Demote(w) \/ Crash(w)
      <3>1. IdleWorker \in WorkerRow /\ IdleWorker.pc = "idle"
        BY StageNames DEF IdleWorker, WorkerRow
      <3>2. worker' = [worker EXCEPT ![w] = IdleWorker]
        BY <2>3 DEF Demote, Crash
      <3>3. QED
        BY <1>3, <3>1, <3>2 DEF GoesOn
    <2>4. QED
      BY <2>1, <2>2, <2>3
  <1>5. QED
    BY <1>1, <1>2, <1>4, QuietTurns

\* recover_interrupted fences every attempt that it takes a job from.
LEMMA InterruptedMoves ==
    ASSUME NEW old \in JobRows
    PROVE  LET new == Interrupted(old) IN
           Moves(old, new) /\ (new = old \/ new.attempts = old.attempts + 1)
  <1>1. ASSUME NEW s \in {"queued", "submitted", "approved"},
               old.status \in {"validating", "proof_requested", "proving", "submitting"}
        PROVE  LET new == [old EXCEPT !.status = s, !.attempts = old.attempts + 1]
               IN  Moves(old, new) /\ new.attempts = old.attempts + 1
    <2>1. old.status \notin Finished \union {"submitted"}
      BY <1>1, StatusSets
    <2>2. \A n \in Nat : LET new == [old EXCEPT !.status = s, !.attempts = n]
                         IN  Moves(old, new) /\ new.attempts = n
      BY <2>1 DEF JobRows, Moves
    <2>3. old.attempts + 1 \in Nat
      BY DEF JobRows
    <2>4. QED
      BY <2>2, <2>3
  <1> DEFINE st == IF old.intent # 0 /\ old.requestId = 0 THEN "queued"
                   ELSE IF old.hash # 0 /\ old.prepared = 0 THEN "submitted"
                   ELSE IF old.approved THEN "approved" ELSE "queued"
  <1>2. st \in {"queued", "submitted", "approved"}
    OBVIOUS
  <1>3. \/ Interrupted(old) = old
        \/ /\ old.status \in {"validating", "proof_requested", "proving", "submitting"}
           /\ Interrupted(old) = [old EXCEPT !.status = st, !.attempts = old.attempts + 1]
    BY Zenon DEF Interrupted
  <1> HIDE DEF st
  <1>4. QED
    BY <1>1, <1>2, <1>3, MovesSame

LEMMA RecoverInterruptedTurns ==
    ASSUME TurnsInv, GatewayInv', NEW w \in Replicas, RecoverInterrupted(w),
           UNCHANGED indexerVars
    PROVE  TurnsInv'
  <1>0. GatewayInv /\ HolderInv /\ "claim" \in Stages /\ "claim" \in Resting
    BY StageNames DEF TurnsInv
  <1>1. /\ DOMAIN jobs' = DOMAIN jobs
        /\ \A j \in DOMAIN jobs : jobs'[j] = Interrupted(jobs[j])
        /\ Goto(w, "claim") /\ UNCHANGED <<chainVars, writer, account, pending>>
    BY DEF RecoverInterrupted
  <1>2. \A j \in DOMAIN jobs :
          /\ Moves(jobs[j], jobs'[j]) /\ jobs[j].attempts \in Nat
          /\ jobs'[j] = jobs[j] \/ jobs'[j].attempts = jobs[j].attempts + 1
    BY <1>0, <1>1, RowsTyped, InterruptedMoves
  <1>3. PICK r \in WorkerRow : GoesOn(w, r)
    BY <1>0, <1>1, GotoOn
  <1>4. \A v \in Replicas : worker'[v].pc \notin Resting =>
              /\ worker[v].pc \notin Resting
              /\ worker'[v].job = worker[v].job /\ worker'[v].attempt = worker[v].attempt
    BY <1>0, <1>3, GoesOnFrame
  <1>5. ASSUME NEW v \in Replicas, worker[v].pc \notin Resting
        PROVE  /\ jobs'[worker[v].job].attempts \in Nat
               /\ jobs[worker[v].job].attempts <= jobs'[worker[v].job].attempts
               /\ worker[v].attempt = jobs'[worker[v].job].attempts
                    => jobs'[worker[v].job].status \in Taken
    <2>1. worker[v].job \in DOMAIN jobs /\ worker[v].attempt \in Nat
      BY <1>0, <1>5, WorkingJob
    <2>2. /\ worker[v].attempt <= jobs[worker[v].job].attempts
          /\ worker[v].attempt = jobs[worker[v].job].attempts =>
                jobs[worker[v].job].status \in Taken
      BY <1>0, <1>5 DEF HolderInv
    <2>3. CASE jobs'[worker[v].job] = jobs[worker[v].job]
      BY <1>2, <2>1, <2>2, <2>3
    <2>4. CASE jobs'[worker[v].job].attempts = jobs[worker[v].job].attempts + 1
      BY <1>2, <2>1, <2>2, <2>4
    <2>5. QED
      BY <1>2, <2>1, <2>3, <2>4
  <1>6. HolderInv'
    BY <1>0, <1>4, <1>5, HolderKept
  <1>7. PoolInv'
    BY <1>1 DEF TurnsInv, PoolInv, chainVars
  <1>8. QED
    BY <1>1, <1>2, <1>6, <1>7, WorkTurns DEF chainVars
\* A claim draws a new attempt, which is nobody else's.
LEMMA ClaimTurns ==
    ASSUME TurnsInv, GatewayInv', NEW w \in Replicas, ClaimJob(w), UNCHANGED indexerVars
    PROVE  TurnsInv'
  <1>0. /\ GatewayInv /\ HolderInv
        /\ DOMAIN jobs \subseteq Nat
        /\ worker \in [Replicas -> WorkerRow]
    BY TypeParts, RowsTyped DEF TurnsInv, GatewayInv, WorkerTyped
  <1>1. writer' = Locked /\ UNCHANGED <<chainVars, account, pending>>
    BY DEF ClaimJob
  <1>2. PoolInv'
    BY <1>1 DEF TurnsInv, PoolInv, chainVars
  <1> DEFINE claimable == {j \in DOMAIN jobs : Claimable(j, Locked)}
  <1>3. CASE claimable = {}
    <2>1. UNCHANGED <<jobs, worker>>
      BY <1>3 DEF ClaimJob
    <2>2. HolderInv'
      BY <1>0, <2>1 DEF HolderInv
    <2>3. QED
      BY <1>1, <1>2, <2>1, <2>2, MovesSame, WorkTurns DEF chainVars
  <1>4. CASE claimable # {}
    <2> DEFINE j == Min(claimable)
               job == jobs[j]
               s == IF job.status = "approved" THEN "proving" ELSE "validating"
               row == [job EXCEPT !.status = s, !.attempts = job.attempts + 1]
               r == [pc |-> Entry(job), job |-> j, attempt |-> job.attempts + 1,
                     requestId |-> job.requestId, tx |-> 0, class |-> "none"]
    <2>1. /\ jobs' = [jobs EXCEPT ![j].status = s, ![j].attempts = job.attempts + 1]
          /\ worker' = [worker EXCEPT ![w] = r]
      BY <1>4, Zenon DEF ClaimJob
    <2>2. j \in claimable
      <3>1. claimable \in SUBSET Nat
        BY <1>0
      <3>2. QED
        BY <1>4, <3>1, MinMember
    <2>3. j \in DOMAIN jobs /\ job.status \in {"queued", "approved"}
      BY <2>2 DEF Claimable
    <2> HIDE DEF claimable, j
    <2>4. job \in JobRows /\ job.attempts \in Nat
      BY <1>0, <2>3, RowsTyped
    <2>5. jobs' = [jobs EXCEPT ![j] = row]
      BY <1>0, <2>1, <2>3, RowsTyped
    <2>6. s \in Taken /\ s \notin {"confirmed", "reorged", "ethereum_reverted",
                                   "proof_failed", "executed"}
          /\ job.status \notin Finished \union {"submitted"}
      BY <2>3, StatusSets
    <2>7. r.job = j /\ r.attempt = job.attempts + 1
      OBVIOUS
    <2> HIDE DEF s
    <2>8. Moves(job, row) /\ row.attempts = job.attempts + 1 /\ row.status = s
      <3>1. \A n \in Nat : LET new == [job EXCEPT !.status = s, !.attempts = n] IN
               Moves(job, new) /\ new.attempts = n /\ new.status = s
        BY <2>4, <2>6 DEF JobRows, Moves
      <3>2. job.attempts + 1 \in Nat
        BY <2>4
      <3>3. QED
        BY <3>1, <3>2
    <2> HIDE DEF row, r, job
    <2>9. DOMAIN jobs' = DOMAIN jobs /\ jobs'[j] = row
          /\ \A k \in DOMAIN jobs : k # j => jobs'[k] = jobs[k]
      BY <1>0, <2>3, <2>5, RowsTyped
    <2>10. \A k \in DOMAIN jobs : Moves(jobs[k], jobs'[k])
      BY <2>8, <2>9, MovesSame DEF job
    <2>11. worker'[w] = r /\ \A v \in Replicas : v # w => worker'[v] = worker[v]
      BY <1>0, <2>1
    <2>12. ASSUME NEW v \in Replicas, v # w, worker[v].pc \notin Resting
           PROVE  /\ worker[v].attempt <= jobs'[worker[v].job].attempts
                  /\ worker[v].attempt = jobs'[worker[v].job].attempts =>
                        jobs'[worker[v].job].status \in Taken
                  /\ worker[v].job = j => worker[v].attempt # job.attempts + 1
      <3>1. worker[v].job \in DOMAIN jobs /\ worker[v].attempt \in Nat
        BY <1>0, <2>12, WorkingJob
      <3>2. /\ worker[v].attempt <= jobs[worker[v].job].attempts
            /\ worker[v].attempt = jobs[worker[v].job].attempts =>
                  jobs[worker[v].job].status \in Taken
        BY <1>0, <2>12 DEF HolderInv
      <3>3. CASE worker[v].job # j
        BY <2>9, <3>1, <3>2, <3>3
      <3>4. CASE worker[v].job = j
        BY <2>4, <2>8, <2>9, <3>1, <3>2, <3>4 DEF job
      <3>5. QED
        BY <3>3, <3>4
    <2>13. HolderInv'
      <3>1. /\ r.attempt <= jobs'[r.job].attempts /\ jobs'[r.job].status \in Taken
        BY <2>4, <2>6, <2>7, <2>8, <2>9
      <3>2. \A v \in Replicas : worker'[v].pc \notin Resting =>
              /\ worker'[v].attempt <= jobs'[worker'[v].job].attempts
              /\ worker'[v].attempt = jobs'[worker'[v].job].attempts =>
                    jobs'[worker'[v].job].status \in Taken
        BY <2>11, <2>12, <3>1
      <3>3. \A u, v \in Replicas :
              /\ worker'[u].pc \notin Resting /\ worker'[v].pc \notin Resting
              /\ worker'[u].job = worker'[v].job /\ worker'[u].attempt = worker'[v].attempt
              => u = v
        BY <1>0, <2>7, <2>11, <2>12 DEF HolderInv
      <3>4. QED
        BY <3>2, <3>3 DEF HolderInv
    <2>14. QED
      BY <1>1, <1>2, <2>9, <2>10, <2>13, WorkTurns DEF chainVars
  <1>5. QED
    BY <1>3, <1>4

LEMMA ProgressTurns ==
    ASSUME TurnsInv, GatewayInv', NEW w \in Replicas, Progress(w), UNCHANGED indexerVars
    PROVE  TurnsInv'
  BY OwnershipTurns, RecoverInterruptedTurns, ClaimTurns, PreflightTurns, ChecksTurns,
     SetProvingTurns, BeginTurns, RequestTurns, FinishTurns, SendTurns, SignTurns,
     BroadcastTurns, MarkTurns, RecordFailureTurns
     DEF Progress

\* The operator approves what nobody holds, and cancels what is not signed.
LEMMA OperatorTurns ==
    ASSUME TurnsInv, GatewayInv', Operator, UNCHANGED indexerVars
    PROVE  TurnsInv'
  <1>0. GatewayInv /\ HolderInv
    BY DEF TurnsInv
  <1>1. /\ UNCHANGED <<chainVars, writer, account, workerVars>>
    BY DEF Operator, ApproveProof, CancelProof
  <1>2. PICK j \in DOMAIN jobs : ApproveProof(j) \/ CancelProof(j)
    BY DEF Operator
  <1> DEFINE row == IF ApproveProof(j)
                    THEN [jobs[j] EXCEPT !.status = "approved", !.approved = TRUE]
                    ELSE [jobs[j] EXCEPT !.status = "rejected"]
  <1>3. /\ jobs' = [jobs EXCEPT ![j] = row]
        /\ jobs[j].status \in {"queued", "validating", "awaiting_approval", "approved"}
        /\ row = [jobs[j] EXCEPT !.status = "approved", !.approved = TRUE]
              => jobs[j].status = "awaiting_approval"
        /\ \/ pending' = pending
           \/ /\ pending' = pending \ {j}
              /\ row = [jobs[j] EXCEPT !.status = "rejected"]
    <2>1. CASE ApproveProof(j)
      <3>1. row = [jobs[j] EXCEPT !.status = "approved", !.approved = TRUE]
        BY <2>1
      <3> HIDE DEF row
      <3>2. QED
        BY <2>1, <3>1 DEF ApproveProof
    <2>2. CASE ~ApproveProof(j) /\ CancelProof(j)
      <3>1. row = [jobs[j] EXCEPT !.status = "rejected"]
        BY <2>2
      <3>2. row.status = "rejected"
        BY <1>0, <3>1, RowsTyped DEF JobRows
      <3>3. row # [jobs[j] EXCEPT !.status = "approved", !.approved = TRUE]
        <4>1. [jobs[j] EXCEPT !.status = "approved", !.approved = TRUE].status = "approved"
          BY <1>0, RowsTyped DEF JobRows
        <4> HIDE DEF row
        <4>2. QED
          BY <3>2, <4>1
      <3> HIDE DEF row
      <3>4. QED
        BY <2>2, <3>1, <3>3 DEF CancelProof, Cancellable
    <2>3. QED
      BY <1>2, <2>1, <2>2
  <1>4. \/ row = [jobs[j] EXCEPT !.status = "approved", !.approved = TRUE]
        \/ row = [jobs[j] EXCEPT !.status = "rejected"]
    OBVIOUS
  <1> HIDE DEF row
  <1>5. jobs[j] \in JobRows /\ jobs[j].status \notin Finished \union {"submitted"}
    BY <1>0, <1>3, RowsTyped, StatusSets
  <1>6. /\ Moves(jobs[j], row) /\ row.attempts = jobs[j].attempts
        /\ row.status \in Taken \/ jobs[j].status \notin Taken
        /\ row = [jobs[j] EXCEPT !.status = "rejected"] => row.status \in Finished
    <2>1. CASE row = [jobs[j] EXCEPT !.status = "approved", !.approved = TRUE]
      <3>1. Moves(jobs[j], row) /\ row.attempts = jobs[j].attempts /\ row.status = "approved"
        BY <1>5, <2>1 DEF JobRows, Moves
      <3>2. jobs[j].status \notin Taken
        BY <1>3, <2>1, StatusSets
      <3>3. [jobs[j] EXCEPT !.status = "rejected"].status = "rejected"
        BY <1>5 DEF JobRows
      <3>4. QED
        BY <3>1, <3>2, <3>3
    <2>2. CASE row = [jobs[j] EXCEPT !.status = "rejected"]
      <3>1. Moves(jobs[j], row) /\ row.attempts = jobs[j].attempts /\ row.status = "rejected"
        BY <1>5, <2>2 DEF JobRows, Moves
      <3>2. QED
        BY <3>1, StatusSets
    <2>3. QED
      BY <1>4, <2>1, <2>2
  <1>7. DOMAIN jobs' = DOMAIN jobs /\ jobs'[j] = row
        /\ \A k \in DOMAIN jobs : k # j => jobs'[k] = jobs[k]
    BY <1>0, <1>3, RowsTyped
  <1>8. \A k \in DOMAIN jobs : Moves(jobs[k], jobs'[k])
    BY <1>6, <1>7, MovesSame
  <1>9. \A k \in DOMAIN jobs : k \in pending /\ k \notin pending' =>
              jobs'[k].status \in Finished
    BY <1>3, <1>6, <1>7
  <1>10. HolderInv'
    <2>1. \A v \in Replicas : worker[v].pc \notin Resting =>
             /\ worker[v].job \in DOMAIN jobs
             /\ jobs'[worker[v].job].attempts = jobs[worker[v].job].attempts
             /\ jobs[worker[v].job].status \in Taken => jobs'[worker[v].job].status \in Taken
      BY <1>0, <1>6, <1>7, WorkingJob
    <2>2. QED
      BY <1>0, <1>1, <2>1 DEF HolderInv, workerVars
  <1>11. PoolInv'
    BY <1>1 DEF TurnsInv, PoolInv, chainVars
  <1>12. QED
    BY <1>1, <1>7, <1>8, <1>9, <1>10, <1>11, WorkTurns DEF chainVars
-----------------------------------------------------------------------------
(* The indexer.                                                            *)

\* A step of the indexer leaves the chain, the workers and the attempts alone.
LEMMA IndexerTurns ==
    ASSUME TurnsInv, GatewayInv', UNCHANGED <<chain, mempool, worker>>,
           DOMAIN jobs' = DOMAIN jobs,
           \A j \in DOMAIN jobs :
              /\ jobs'[j].base = jobs[j].base /\ jobs'[j].attempts = jobs[j].attempts
              /\ jobs[j].status \in Taken => jobs'[j].status \in Taken,
           OutcomesInv', TurnInv'
    PROVE  TurnsInv'
  <1>1. ChainInv' /\ PoolInv'
    BY ChainKept DEF TurnsInv, PoolInv
  <1>2. \A v \in Replicas : worker[v].pc \notin Resting => worker[v].job \in DOMAIN jobs
    BY WorkingJob DEF TurnsInv
  <1>3. HolderInv'
    BY <1>2 DEF TurnsInv, HolderInv
  <1>4. QED
    BY <1>1, <1>3 DEF TurnsInv

LEMMA TickPlan ==
    ASSUME NEW pc \in {"start", "tick"}, NEW n, indexer' = Tick(pc, n)
    PROVE  PlanInv'
  <1>1. indexer'.pc = pc
    BY DEF Tick
  <1>2. QED
    BY <1>1 DEF PlanInv

\* Heights that the proofs compare.
LEMMA Heights ==
    ASSUME TurnsInv
    PROVE  /\ indexedFinal \in Nat /\ final \in Nat /\ indexedFinal <= final
           /\ Len(chain) \in Nat /\ final <= Len(chain) /\ DOMAIN chain = 1..Len(chain)
           /\ \A p \in 1..indexedFinal :
                /\ p \in 1..final /\ p \in DOMAIN chain /\ indexed[p] = chain[p]
                /\ p \in DOMAIN indexed
  <1>1. /\ indexedFinal \in Nat /\ final \in Nat /\ Len(chain) \in Nat
        /\ final <= Len(chain) /\ DOMAIN chain = 1..Len(chain)
        /\ Len(indexed) \in Nat /\ indexedFinal <= Len(indexed)
        /\ DOMAIN indexed = 1..Len(indexed)
    BY TypeParts, LenProperties DEF TurnsInv, GatewayInv, ChainTyped, IndexerTyped
  <1>2. indexedFinal <= final /\ \A p \in 1..indexedFinal : indexed[p] = chain[p]
    BY DEF TurnsInv, OutcomesInv, FinalInv
  <1>3. QED
    BY <1>1, <1>2

\* Ticks that only move on.
LEMMA TickEndsTurns ==
    ASSUME TurnsInv, GatewayInv', EndTick \/ AbortTick
    PROVE  TurnsInv'
  <1>1. /\ indexer' = Tick("start", 0)
        /\ UNCHANGED <<chain, final, mempool, jobs, writer, account, pending,
                       worker, indexed, indexedFinal, history>>
    BY DEF EndTick, AbortTick, chainVars, writerVars, workerVars
  <1>2. PlanInv'
    BY <1>1, TickPlan
  <1>3. FinalInv' /\ StatusInv' /\ AccountIsFinalized'
    BY <1>1 DEF TurnsInv, OutcomesInv, FinalInv, StatusInv, AccountIsFinalized, Applied
  <1>4. TurnInv'
    BY <1>1 DEF TurnsInv, TurnInv, WriterInv, HeldInv, Applied
  <1>5. QED
    BY <1>1, <1>2, <1>3, <1>4, IndexerTurns DEF OutcomesInv

LEMMA IndexBlocksTurns ==
    ASSUME TurnsInv, GatewayInv', IndexBlocks
    PROVE  TurnsInv'
  <1>1. /\ indexed' = SubSeq(chain, 1, Len(chain)) /\ indexedFinal' = final
        /\ indexer' = Tick("tick", 0)
        /\ UNCHANGED <<chainVars, writerVars, workerVars, history>>
    BY DEF IndexBlocks, IndexedThrough, Prefix
  <1>2. indexed' = chain
    BY <1>1, TypeParts, SubSeqFull DEF ChainTyped, TurnsInv, GatewayInv
  <1>3. final \in Nat /\ 1..indexedFinal \subseteq 1..final
    BY Heights
  <1>4. PlanInv'
    BY <1>1, TickPlan
  <1>5. FinalInv' /\ StatusInv' /\ AccountIsFinalized'
    <2>1. FinalInv /\ StatusInv /\ AccountIsFinalized
      BY DEF TurnsInv, OutcomesInv
    <2>2. UNCHANGED <<chain, final, jobs, account, history>>
      BY <1>1 DEF chainVars, writerVars
    <2>3. FinalInv'
      <3>1. indexedFinal' <= final' /\ \A p \in 1..indexedFinal' : indexed'[p] = chain'[p]
        <4>1. indexedFinal' = final /\ final' = final /\ indexed' = chain'
          BY <1>1, <1>2, <2>2
        <4>2. QED
          BY <1>3, <4>1
      <3>2. \A h \in history' : h.block \in 1..indexedFinal'
        <4>1. \A h \in history : h.block \in 1..indexedFinal
          BY <2>1 DEF FinalInv
        <4>2. QED
          BY <1>1, <1>3, <2>2, <4>1
      <3>3. \A h \in history' : chain'[h.block].ok /\ chain'[h.block].tx[1] = h.job
        BY <2>1, <2>2 DEF FinalInv
      <3>4. QED
        BY <3>1, <3>2, <3>3 DEF FinalInv
    <2>4. \A j : Applied(j)' <=> Applied(j)
      BY <2>2 DEF Applied
    <2>5. StatusInv'
      BY <1>1, <1>3, <2>1, <2>2, <2>4 DEF StatusInv
    <2>6. AccountIsFinalized'
      BY <2>1, <2>2 DEF AccountIsFinalized
    <2>7. QED
      BY <2>3, <2>5, <2>6
  <1>6. TurnInv'
    BY <1>1 DEF TurnsInv, TurnInv, WriterInv, HeldInv, Applied, writerVars
  <1>7. QED
    BY <1>1, <1>4, <1>5, <1>6, IndexerTurns
       DEF OutcomesInv, chainVars, writerVars, workerVars

\* A rollback stops at a finalized block: it undoes no receipt, puts back only a
\* submitted job, and marks as reorged only one whose receipt was applied.
LEMMA RolledBackTurns ==
    ASSUME TurnsInv, NEW n \in Nat, indexedFinal <= n, NEW j \in DOMAIN jobs
    PROVE  LET new == RolledBack(j, n) IN
           \/ new = jobs[j]
           \/ jobs[j].status = "confirmed" /\ new = [jobs[j] EXCEPT !.status = "reorged"]
           \/ jobs[j].status = "submitted" /\ new = Requeued(jobs[j])
  <1>0. indexedFinal \in Nat
    BY Heights
  <1>1. \A k \in Orphaned(n) : k \in DOMAIN jobs /\ jobs[k].status = "submitted"
    <2>1. ASSUME NEW k \in Orphaned(n), jobs[k].status = "confirmed" PROVE FALSE
      <3>1. /\ k \in DOMAIN jobs /\ jobs[k].block > n /\ jobs[k].block \in 1..indexedFinal
        BY <2>1 DEF Orphaned, TurnsInv, OutcomesInv, StatusInv
      <3>2. QED
        BY <1>0, <3>1
    <2>2. QED
      BY <2>1 DEF Orphaned
  <1>2. CASE /\ RetrySettlement(n) # {} /\ j \notin RetrySettlement(n)
             /\ jobs[j].status \in Active \union {"queued", "confirmed"}
             /\ RolledBack(j, n) = [jobs[j] EXCEPT !.status = "reorged"]
    <2>1. PICK k \in RetrySettlement(n) : TRUE
      BY <1>2
    <2>2. k # j /\ k \in Orphaned(n)
      BY <1>2 DEF RetrySettlement
    <2>3. k \in DOMAIN jobs /\ jobs[k].status \in Working
      BY <1>1, <2>2, StatusSets
    <2>4. jobs[j].status \notin Working
      BY <2>2, <2>3 DEF TurnsInv, TurnInv, WriterInv
    <2>5. jobs[j].status = "confirmed"
      BY <1>2, <2>4 DEF Working
    <2>6. QED
      BY <1>2, <2>5
  <1>3. CASE j \in Orphaned(n) /\ RolledBack(j, n) = Requeued(jobs[j])
    BY <1>1, <1>3
  <1>4. CASE RolledBack(j, n) = jobs[j]
    BY <1>4
  <1>5. QED
    BY <1>2, <1>3, <1>4, Zenon DEF RolledBack

LEMMA RollbackTurns ==
    ASSUME TurnsInv, GatewayInv', Rollback
    PROVE  TurnsInv'
  <1> DEFINE n == CommonAncestor
  <1>0. /\ GatewayInv /\ n \in 0..Len(indexed) /\ n \in Nat /\ indexed \in Seq(Blocks)
        /\ Len(indexed) \in Nat
    BY TypeParts, AncestorTyped DEF TurnsInv, GatewayInv, IndexerTyped
  <1>1. /\ jobs' = [j \in DOMAIN jobs |-> RolledBack(j, n)]
        /\ account' = AccountAt(n) /\ history' = {h \in history : h.block <= n}
        /\ indexed' = Prefix(indexed, n) /\ indexedFinal <= n
        /\ \A j \in pending : j \in pending' \/ jobs'[j].status = "reorged"
        /\ indexer.pc = "start"
        /\ UNCHANGED <<chainVars, writer, token, workerVars, indexedFinal, indexer>>
    BY DEF Rollback
  <1> HIDE DEF n
  <1>2. indexedFinal \in Nat /\ final \in Nat
    BY Heights
  <1>3. \A h \in history : h.block \in 1..indexedFinal /\ h.block <= n /\ ~(h.block > n)
    BY <1>0, <1>1, <1>2 DEF TurnsInv, OutcomesInv, FinalInv
  <1>4. history' = history
    BY <1>1, <1>3
  <1>5. account' = account
    <2>1. {h \in history : h.block > n} = {}
      BY <1>3
    <2>2. QED
      BY <1>1, <2>1 DEF AccountAt
  <1>6. /\ DOMAIN jobs' = DOMAIN jobs
        /\ \A j \in DOMAIN jobs :
             \/ jobs'[j] = jobs[j]
             \/ /\ jobs[j].status = "confirmed"
                /\ jobs'[j] = [jobs[j] EXCEPT !.status = "reorged"]
             \/ jobs[j].status = "submitted" /\ jobs'[j] = Requeued(jobs[j])
    BY <1>0, <1>1, RolledBackTurns
  <1>7. ASSUME NEW j \in DOMAIN jobs
        PROVE  /\ jobs'[j].base = jobs[j].base /\ jobs'[j].kind = jobs[j].kind
               /\ jobs'[j].attempts = jobs[j].attempts
               /\ jobs'[j].prepared = jobs[j].prepared
               /\ jobs'[j].hash = jobs[j].hash \/ jobs'[j].hash = 0
               /\ \/ jobs'[j].status = jobs[j].status /\ jobs'[j].block = jobs[j].block
                  \/ jobs[j].status = "confirmed" /\ jobs'[j].status = "reorged"
                  \/ jobs[j].status = "submitted" /\ jobs'[j].status \in {"approved", "queued"}
    <2>1. jobs[j] \in JobRows
      BY <1>0, RowsTyped
    <2>2. CASE jobs'[j] = jobs[j]
      BY <2>2
    <2>3. CASE jobs[j].status = "confirmed" /\ jobs'[j] = [jobs[j] EXCEPT !.status = "reorged"]
      BY <2>1, <2>3 DEF JobRows
    <2>4. CASE jobs[j].status = "submitted" /\ jobs'[j] = Requeued(jobs[j])
      <3>1. \A old \in JobRows : LET new == Requeued(old) IN
               /\ new.base = old.base /\ new.kind = old.kind /\ new.attempts = old.attempts
               /\ new.prepared = old.prepared /\ new.hash = 0
               /\ new.status \in {"approved", "queued"}
        BY DEF JobRows, Requeued
      <3>2. QED
        BY <2>1, <2>4, <3>1
    <2>5. QED
      BY <1>6, <2>2, <2>3, <2>4
  <1>8. FinalInv'
    <2>1. \A p \in 1..indexedFinal : p \in 1..n
      BY <1>0, <1>1, <1>2
    <2>2. \A p \in 1..indexedFinal : indexed'[p] = indexed[p]
      BY <1>0, <1>1, <2>1, PrefixTyped DEF Prefix
    <2>3. QED
      BY <1>1, <1>4, <2>2 DEF TurnsInv, OutcomesInv, FinalInv, chainVars
  <1>9. StatusInv'
    <2>1. \A j \in DOMAIN jobs :
            /\ jobs'[j].hash # 0 => jobs'[j].hash = jobs'[j].prepared
            /\ jobs'[j].status = "confirmed" =>
                  jobs[j].status = "confirmed" /\ jobs'[j].block = jobs[j].block
            /\ jobs'[j].status = "reorged" => jobs[j].status \in {"confirmed", "reorged"}
            /\ jobs'[j].status = "ethereum_reverted" => jobs[j].status = "ethereum_reverted"
            /\ jobs'[j].status \notin {"proof_failed", "executed"}
      BY <1>7 DEF TurnsInv, OutcomesInv, StatusInv
    <2>2. QED
      BY <1>1, <1>4, <1>6, <2>1 DEF TurnsInv, OutcomesInv, StatusInv, Applied, chainVars
  <1>10. PlanInv' /\ AccountIsFinalized'
    BY <1>1, <1>5 DEF TurnsInv, OutcomesInv, PlanInv, AccountIsFinalized, chainVars
  <1>11. TurnInv'
    <2>1. \A j \in DOMAIN jobs : jobs'[j].status \in Working =>
             jobs[j].status \in Working /\ jobs'[j].status # "reorged"
      BY <1>7, StatusSets
    <2>2. WriterInv'
      BY <1>1, <1>5, <1>6, <2>1 DEF TurnsInv, TurnInv, WriterInv
    <2>3. HeldInv'
      BY <1>1, <1>4, <1>5, <1>6, <1>7, <2>1 DEF TurnsInv, TurnInv, HeldInv, Applied
    <2>4. QED
      BY <2>2, <2>3 DEF TurnInv
  <1>12. \A j \in DOMAIN jobs : jobs[j].status \in Taken => jobs'[j].status \in Taken
    BY <1>7, StatusSets
  <1>13. QED
    BY <1>1, <1>6, <1>7, <1>8, <1>9, <1>10, <1>11, <1>12, IndexerTurns
       DEF OutcomesInv, chainVars, workerVars
\* An accepted finalized transaction whose receipt is not applied yet is that of
\* the job whose turn it is.
LEMMA AcceptedTurn ==
    ASSUME TurnsInv, NEW p \in 1..indexedFinal, chain[p].ok, ~Applied(chain[p].tx[1])
    PROVE  LET j == chain[p].tx[1] IN
           /\ j \in DOMAIN jobs /\ jobs[j].status \in Working /\ writer.job = j
           /\ jobs[j].base = OuterState(Prefix(chain, p - 1))
  <1> DEFINE j == chain[p].tx[1]
  <1>0. /\ GatewayInv /\ chain \in Seq(Blocks) /\ p \in DOMAIN chain /\ p \in 1..final
        /\ DOMAIN chain = 1..Len(chain) /\ 1..final \subseteq DOMAIN chain
    BY Heights, TypeParts DEF TurnsInv, GatewayInv, ChainTyped
  <1>1. \A q \in DOMAIN chain :
          /\ chain[q].tx = <<chain[q].tx[1], chain[q].tx[2]>>
          /\ chain[q].tx[1] \in DOMAIN jobs /\ chain[q].tx[2] # 0
          /\ jobs[chain[q].tx[1]].prepared = chain[q].tx[2]
    <2>1. \A q \in DOMAIN chain : chain[q] \in Blocks
      BY <1>0, ElementOfSeq
    <2>2. QED
      BY <1>0, <2>1 DEF Blocks, Txs, GatewayInv, TransactionInv
  <1>2. /\ j \in DOMAIN jobs /\ jobs[j].prepared # 0
        /\ jobs[j].base = OuterState(Prefix(chain, p - 1))
    BY <1>0, <1>1 DEF TurnsInv, ChainInv
  <1>3. jobs[j].status \in Statuses
    BY <1>0, <1>2, RowsTyped
  <1>4. jobs[j].status \notin {"confirmed", "reorged", "proof_failed", "executed"}
    BY <1>2 DEF TurnsInv, OutcomesInv, StatusInv
  <1>5. jobs[j].status \notin {"failed", "rejected"}
    BY <1>0, <1>2 DEF GatewayInv, SignedInv, Dropped
  <1>6. jobs[j].status # "ethereum_reverted"
    <2>1. SUFFICES ASSUME jobs[j].status = "ethereum_reverted" PROVE FALSE
      OBVIOUS
    <2>2. PICK q \in 1..final : chain[q].tx[1] = j /\ ~chain[q].ok
      BY <1>2, <2>1 DEF TurnsInv, OutcomesInv, StatusInv
    <2>3. q \in DOMAIN chain
      BY <1>0
    <2>4. chain[q].tx = chain[p].tx
      BY <1>0, <1>1, <2>2, <2>3
    <2>5. q = p
      BY <1>0, <2>3, <2>4 DEF TurnsInv, ChainInv
    <2>6. QED
      BY <2>2, <2>5
  <1> HIDE DEF j
  <1>7. jobs[j].status \in Working
    BY <1>3, <1>4, <1>5, <1>6, StatusSets
  <1>8. writer.job = j
    BY <1>2, <1>7 DEF TurnsInv, TurnInv, WriterInv
  <1>9. QED
    BY <1>2, <1>7, <1>8 DEF j

\* Applying a finalized receipt moves the account to the state that its block
\* leaves, and the writer's turn is the job's own.
LEMMA ApplyTurns ==
    ASSUME TurnsInv, NEW p \in 1..indexedFinal, chain[p].ok, Apply(chain[p].tx[1], p),
           UNCHANGED <<chain, final, jobs, writer, indexed, indexedFinal>>
    PROVE  /\ \E h \in history' : h.job = chain[p].tx[1]
           /\ FinalInv' /\ StatusInv' /\ AccountIsFinalized' /\ TurnInv'
  <1> DEFINE j == chain[p].tx[1]
  <1>1. CASE Applied(j)
    <2>1. UNCHANGED <<account, history, pending>>
      BY <1>1 DEF Apply
    <2>2. QED
      BY <1>1, <2>1 DEF TurnsInv, OutcomesInv, FinalInv, StatusInv, AccountIsFinalized,
                        Applied, TurnInv, WriterInv, HeldInv
  <1>2. CASE ~Applied(j)
    <2>1. /\ account' = Append(jobs[j].base, indexed[p])
          /\ history' = history \union {[job |-> j, before |-> account, block |-> p]}
      BY <1>2 DEF Apply
    <2>2. /\ j \in DOMAIN jobs /\ jobs[j].status \in Working /\ writer.job = j
          /\ jobs[j].base = OuterState(Prefix(chain, p - 1))
      BY <1>2, AcceptedTurn
    <2>3. /\ chain \in Seq(Blocks) /\ p \in 1..Len(chain) /\ p \in 0..final
          /\ indexed[p] = chain[p] /\ Len(chain) \in Nat
      BY Heights, TypeParts DEF TurnsInv, GatewayInv, ChainTyped
    <2>4. account' = OuterState(Prefix(chain, p))
      BY <2>1, <2>2, <2>3, AcceptedBlock
    <2>5. AccountIsFinalized'
      BY <2>3, <2>4 DEF AccountIsFinalized
    <2> DEFINE added == [job |-> j, before |-> account, block |-> p]
    <2>6. added.job = j /\ added.block = p /\ added \in history'
      BY <2>1
    <2>7. \A h \in history' : h \in history \/ (h.job = j /\ h.block = p)
      BY <2>1, <2>6
    <2>8. (\E h \in history' : h.job = j) /\ \A k : Applied(k) => Applied(k)'
      BY <2>1, <2>6 DEF Applied
    <2> HIDE DEF added, j
    <2>9. FinalInv'
      <3>1. FinalInv
        BY DEF TurnsInv, OutcomesInv
      <3>2. chain[p].ok /\ chain[p].tx[1] = j
        BY DEF j
      <3>3. \A h \in history' : /\ h.block \in 1..indexedFinal
                                /\ chain[h.block].ok /\ chain[h.block].tx[1] = h.job
        BY <2>7, <3>1, <3>2 DEF FinalInv
      <3>4. QED
        BY <3>1, <3>3 DEF FinalInv
    <2>10. StatusInv'
      <3>1. StatusInv
        BY DEF TurnsInv, OutcomesInv
      <3>2. QED
        BY <2>8, <3>1 DEF StatusInv
    <2>11. WriterInv'
      <3>1. j # 0
        BY <2>2, RowsTyped DEF TurnsInv
      <3>2. ~writer.live
        BY <2>2, <3>1 DEF TurnsInv, TurnInv, WriterInv
      <3>3. QED
        BY <3>2 DEF TurnsInv, TurnInv, WriterInv
    <2>12. HeldInv'
      <3>1. \A k \in DOMAIN jobs : jobs[k].status \in Working => k = j
        BY <2>2 DEF TurnsInv, TurnInv, WriterInv
      <3>2. QED
        BY <2>8, <3>1 DEF HeldInv, Applied
    <2>13. QED
      BY <2>5, <2>8, <2>9, <2>10, <2>11, <2>12 DEF TurnInv, j
  <1>3. QED
    BY <1>1, <1>2

LEMMA RecoverTurns ==
    ASSUME TurnsInv, GatewayInv', RecoverGatewayState
    PROVE  TurnsInv'
  <1> DEFINE p == Min(Unrecovered)
             tx == indexed[p].tx
  <1>1. /\ Apply(tx[1], p)
        /\ indexer' = [pc |-> "recovered", row |-> 0, job |-> tx[1],
                       status |-> "confirmed", block |-> p, hash |-> tx[2]]
        /\ UNCHANGED <<chainVars, jobs, writer, token, recoveryReady, workerVars,
                       indexed, indexedFinal>>
    BY DEF RecoverGatewayState
  <1>2. p \in 1..indexedFinal /\ indexed[p].ok
    <2>1. Unrecovered \in SUBSET Nat
      BY Heights DEF Unrecovered
    <2>2. p \in Unrecovered
      BY <2>1, MinMember DEF RecoverGatewayState
    <2>3. QED
      BY <2>2 DEF Unrecovered
  <1> HIDE DEF p
  <1>3. indexed[p] = chain[p] /\ chain[p] \in Blocks
    <2>1. indexed[p] = chain[p] /\ p \in DOMAIN chain
      BY <1>2, Heights
    <2>2. QED
      BY <2>1, TypeParts, ElementOfSeq DEF TurnsInv, GatewayInv, ChainTyped
  <1>4. UNCHANGED <<chain, final, mempool, jobs, writer, worker, indexed, indexedFinal>>
    BY <1>1 DEF chainVars, workerVars
  <1>5. /\ \E h \in history' : h.job = chain[p].tx[1]
        /\ FinalInv' /\ StatusInv' /\ AccountIsFinalized' /\ TurnInv'
    BY <1>1, <1>2, <1>3, <1>4, ApplyTurns
  <1>6. PlanInv'
    <2>1. /\ indexer'.pc = "recovered" /\ indexer'.status = "confirmed"
          /\ indexer'.job = chain[p].tx[1] /\ indexer'.block = p
          /\ indexer'.hash = chain[p].tx[2]
      BY <1>1, <1>3
    <2>2. chain[p].tx = <<chain[p].tx[1], chain[p].tx[2]>>
      BY <1>3 DEF Blocks, Txs
    <2>3. Applied(indexer.job)'
      BY <1>5, <1>4, <2>1 DEF Applied
    <2>4. QED
      BY <1>2, <1>4, <2>1, <2>2, <2>3 DEF PlanInv
  <1>7. QED
    BY <1>4, <1>5, <1>6, IndexerTurns DEF OutcomesInv
\* After recovery a tick finds only submitted jobs to reconcile: it marks those
\* that finally reverted, and plans to leave the others as they are.
LEMMA ReconcileTurns ==
    ASSUME TurnsInv, GatewayInv', NEW j \in DOMAIN jobs, ReconcileJob(j)
    PROVE  TurnsInv'
  <1>0. /\ GatewayInv /\ FinalInv /\ StatusInv /\ AccountIsFinalized /\ TurnInv
        /\ jobs[j] \in JobRows
    BY RowsTyped DEF TurnsInv, OutcomesInv
  <1>1. /\ UNCHANGED <<chain, final, mempool, writer, worker, indexed, indexedFinal>>
        /\ Unrecovered = {} /\ Reconcilable(j)
    BY DEF ReconcileJob, chainVars, workerVars
  <1>2. jobs[j].status \in {"submitted", "reorged"}
    BY <1>0, <1>1 DEF Reconcilable, StatusInv
  <1>3. PICK p \in Receipts(j) :
         /\ jobs[j].status = "reorged" => TransactionIsFinalized(p) /\ ~chain[p].ok
         /\ IF TransactionIsFinalized(p) /\ ~chain[p].ok
            THEN /\ jobs' = [jobs EXCEPT ![j].status = "ethereum_reverted"]
                 /\ pending' = pending \ {j}
                 /\ indexer' = Tick("tick", j)
                 /\ UNCHANGED <<account, history>>
            ELSE /\ IF TransactionIsFinalized(p) THEN Apply(j, p)
                    ELSE UNCHANGED <<account, history, pending>>
                 /\ indexer' = [pc |-> "reconciled", row |-> j, job |-> j,
                                status |-> IF TransactionIsFinalized(p) THEN "confirmed"
                                                                        ELSE "submitted",
                                block |-> p, hash |-> jobs[j].hash]
                 /\ UNCHANGED jobs
    BY DEF ReconcileJob
  <1>4. p \in Nat /\ p >= 1 /\ chain[p].tx = <<j, jobs[j].hash>>
    <2>1. CommonAncestor \in Nat
      BY <1>0, AncestorTyped, TypeParts, LenProperties DEF GatewayInv, IndexerTyped
    <2>2. QED
      BY <2>1 DEF Receipts
  <1>5. TransactionIsFinalized(p) => p \in 1..indexedFinal
    BY <1>4, Heights DEF TransactionIsFinalized
  <1>6. ~(TransactionIsFinalized(p) /\ chain[p].ok)
    <2>1. SUFFICES ASSUME TransactionIsFinalized(p), chain[p].ok PROVE FALSE
      OBVIOUS
    <2>2. p \in 1..indexedFinal /\ indexed[p] = chain[p]
      BY <1>5, <2>1, Heights
    <2>3. Recovered(chain[p].tx)
      BY <1>1, <2>1, <2>2 DEF Unrecovered
    <2>4. jobs[j].status = "confirmed"
      BY <1>4, <2>3 DEF Recovered
    <2>5. QED
      BY <1>2, <2>4
  <1>7. CASE TransactionIsFinalized(p)
    <2>1. /\ jobs' = [jobs EXCEPT ![j].status = "ethereum_reverted"]
          /\ pending' = pending \ {j} /\ indexer' = Tick("tick", j)
          /\ UNCHANGED <<account, history>>
      BY <1>3, <1>6, <1>7
    <2>2. PlanInv'
      BY <2>1, TickPlan
    <2>3. /\ DOMAIN jobs' = DOMAIN jobs
          /\ \A k \in DOMAIN jobs : k # j => jobs'[k] = jobs[k]
          /\ jobs'[j].status = "ethereum_reverted" /\ jobs'[j].base = jobs[j].base
          /\ jobs'[j].attempts = jobs[j].attempts /\ jobs'[j].hash = jobs[j].hash
          /\ jobs'[j].prepared = jobs[j].prepared
      BY <1>0, <2>1 DEF JobRows
    <2>4. \A k : Applied(k)' <=> Applied(k)
      BY <2>1 DEF Applied
    <2>5. \E q \in 1..final : chain[q].tx[1] = j /\ ~chain[q].ok
      <3>1. p \in 1..final
        BY <1>5, <1>7, Heights
      <3>2. QED
        BY <1>4, <1>6, <1>7, <3>1
    <2>6. StatusInv'
      <3>1. \A k \in DOMAIN jobs : k # j =>
              /\ jobs'[k].hash # 0 => jobs'[k].hash = jobs'[k].prepared
              /\ jobs'[k].status = "confirmed" => Applied(k)' /\ jobs'[k].block \in 1..indexedFinal
              /\ jobs'[k].status = "reorged" => Applied(k)'
              /\ jobs'[k].status = "ethereum_reverted" =>
                     \E q \in 1..final : chain[q].tx[1] = k /\ ~chain[q].ok
              /\ jobs'[k].status \notin {"proof_failed", "executed"}
        BY <1>0, <2>3, <2>4 DEF StatusInv
      <3>2. jobs'[j].hash # 0 => jobs'[j].hash = jobs'[j].prepared
        BY <1>0, <2>3 DEF StatusInv
      <3>3. QED
        BY <1>1, <2>3, <2>5, <3>1, <3>2 DEF StatusInv
    <2>7. FinalInv' /\ AccountIsFinalized'
      BY <1>0, <1>1, <2>1 DEF FinalInv, AccountIsFinalized
    <2>8. jobs'[j].status \notin Working /\ jobs'[j].status \in Taken
      BY <2>3, StatusSets
    <2>9. TurnInv'
      BY <1>0, <1>1, <2>1, <2>3, <2>4, <2>8 DEF TurnInv, WriterInv, HeldInv
    <2>10. QED
      BY <1>1, <2>2, <2>3, <2>6, <2>7, <2>8, <2>9, IndexerTurns DEF OutcomesInv
  <1>8. CASE ~TransactionIsFinalized(p)
    <2>1. /\ UNCHANGED <<account, history, pending, jobs>>
          /\ indexer' = [pc |-> "reconciled", row |-> j, job |-> j, status |-> "submitted",
                         block |-> p, hash |-> jobs[j].hash]
      BY <1>3, <1>8
    <2>2. jobs[j].status = "submitted"
      BY <1>2, <1>3, <1>8
    <2>3. PlanInv'
      BY <2>1, <2>2 DEF PlanInv
    <2>4. FinalInv' /\ StatusInv' /\ AccountIsFinalized'
      BY <1>0, <1>1, <2>1 DEF FinalInv, StatusInv, AccountIsFinalized, Applied
    <2>5. TurnInv'
      BY <1>0, <1>1, <2>1 DEF TurnInv, WriterInv, HeldInv, Applied
    <2>6. QED
      BY <1>1, <2>1, <2>3, <2>4, <2>5, IndexerTurns DEF OutcomesInv
  <1>9. QED
    BY <1>7, <1>8

\* The status is written after the receipt was applied, in another transaction:
\* what it says is still so.
LEMMA WriteStatusTurns ==
    ASSUME TurnsInv, GatewayInv', WriteStatus
    PROVE  TurnsInv'
  <1> DEFINE j == indexer.job
             hash == IF indexer.pc = "recovered" THEN indexer.hash ELSE jobs[j].hash
             row == [jobs[j] EXCEPT !.status = indexer.status, !.block = indexer.block,
                                    !.hash = hash]
  <1>0. /\ GatewayInv /\ FinalInv /\ StatusInv /\ PlanInv /\ AccountIsFinalized /\ TurnInv
        /\ Len(jobs) \in Nat /\ DOMAIN jobs = 1..Len(jobs)
    BY RowsTyped DEF TurnsInv, OutcomesInv
  <1>1. /\ indexer.pc \in {"recovered", "reconciled"} /\ jobs' = [jobs EXCEPT ![j] = row]
        /\ indexer' = Tick("tick", indexer.row)
        /\ UNCHANGED <<chain, final, mempool, writer, account, pending, worker, indexed,
                       indexedFinal, history>>
    BY DEF WriteStatus, chainVars, workerVars
  <1>2. j \in DOMAIN jobs /\ jobs[j] \in JobRows
    <2>1. j \in Nat /\ j <= Len(jobs) /\ j # 0
      BY <1>0, <1>1, TypeParts DEF GatewayInv, IndexerTyped, IndexerRow, OutcomeInv
    <2>2. j \in DOMAIN jobs
      BY <1>0, <2>1
    <2>3. QED
      BY <1>0, <2>2, RowsTyped
  <1>3. /\ row.status = indexer.status /\ row.block = indexer.block /\ row.hash = hash
        /\ row.base = jobs[j].base /\ row.kind = jobs[j].kind
        /\ row.attempts = jobs[j].attempts /\ row.prepared = jobs[j].prepared
    BY <1>2 DEF JobRows
  <1>4. /\ hash # 0 => hash = jobs[j].prepared
        /\ \/ /\ indexer.status = "confirmed" /\ Applied(j)
              /\ indexer.block \in 1..indexedFinal
           \/ indexer.status = "submitted" /\ jobs[j].status = "submitted"
    <2>1. CASE indexer.pc = "recovered"
      <3>1. /\ indexer.status = "confirmed" /\ Applied(j) /\ indexer.block \in 1..indexedFinal
            /\ chain[indexer.block].tx = <<j, indexer.hash>> /\ hash = indexer.hash
        BY <1>0, <2>1 DEF PlanInv
      <3>2. indexer.block \in DOMAIN chain
        BY <3>1, Heights
      <3>3. jobs[j].prepared = indexer.hash
        BY <1>0, <3>1, <3>2 DEF GatewayInv, TransactionInv
      <3>4. QED
        BY <3>1, <3>3
    <2>2. CASE indexer.pc = "reconciled"
      <3>1. indexer.status = "submitted" /\ jobs[j].status = "submitted"
        BY <1>0, <2>2 DEF PlanInv
      <3>2. hash = jobs[j].hash
        BY <2>2
      <3>3. QED
        BY <1>0, <1>2, <3>1, <3>2 DEF StatusInv
    <2>3. QED
      BY <1>1, <2>1, <2>2
  <1> HIDE DEF j, hash, row
  <1>5. /\ DOMAIN jobs' = DOMAIN jobs /\ jobs'[j] = row
        /\ \A k \in DOMAIN jobs : k # j => jobs'[k] = jobs[k]
    BY <1>1, <1>2
  <1>6. \A k : Applied(k)' <=> Applied(k)
    BY <1>1 DEF Applied
  <1>7. StatusInv'
    <2>1. \A k \in DOMAIN jobs : k # j =>
            /\ jobs'[k].hash # 0 => jobs'[k].hash = jobs'[k].prepared
            /\ jobs'[k].status = "confirmed" => Applied(k) /\ jobs'[k].block \in 1..indexedFinal
            /\ jobs'[k].status = "reorged" => Applied(k)
            /\ jobs'[k].status = "ethereum_reverted" =>
                   \E q \in 1..final : chain[q].tx[1] = k /\ ~chain[q].ok
            /\ jobs'[k].status \notin {"proof_failed", "executed"}
      BY <1>0, <1>5 DEF StatusInv
    <2>2. /\ jobs'[j].hash # 0 => jobs'[j].hash = jobs'[j].prepared
          /\ jobs'[j].status = "confirmed" => Applied(j) /\ jobs'[j].block \in 1..indexedFinal
          /\ jobs'[j].status \in {"confirmed", "submitted"}
      BY <1>3, <1>4, <1>5
    <2>3. \A k \in DOMAIN jobs :
            /\ jobs'[k].hash # 0 => jobs'[k].hash = jobs'[k].prepared
            /\ jobs'[k].status = "confirmed" => Applied(k) /\ jobs'[k].block \in 1..indexedFinal
            /\ jobs'[k].status = "reorged" => Applied(k)
            /\ jobs'[k].status = "ethereum_reverted" =>
                   \E q \in 1..final : chain[q].tx[1] = k /\ ~chain[q].ok
            /\ jobs'[k].status \notin {"proof_failed", "executed"}
      BY <2>1, <2>2
    <2>4. QED
      BY <1>1, <1>5, <1>6, <2>3 DEF StatusInv
  <1>8. FinalInv' /\ AccountIsFinalized'
    BY <1>0, <1>1 DEF FinalInv, AccountIsFinalized
  <1>9. PlanInv'
    BY <1>1, TickPlan
  <1>10. \A k \in DOMAIN jobs : /\ jobs'[k].status \in Working => jobs[k].status \in Working
                                /\ jobs[k].status \in Taken => jobs'[k].status \in Taken
                                /\ jobs'[k].base = jobs[k].base /\ jobs'[k].kind = jobs[k].kind
                                /\ jobs'[k].attempts = jobs[k].attempts
    <2>1. \A k \in DOMAIN jobs : k # j => jobs'[k] = jobs[k]
      BY <1>5
    <2>2. /\ jobs'[j].status \in Working => jobs[j].status \in Working
          /\ jobs[j].status \in Taken => jobs'[j].status \in Taken
      BY <1>3, <1>4, <1>5, StatusSets
    <2>3. QED
      BY <1>3, <1>5, <2>1, <2>2
  <1>11. TurnInv'
    BY <1>0, <1>1, <1>5, <1>6, <1>10 DEF TurnInv, WriterInv, HeldInv
  <1>12. QED
    BY <1>1, <1>5, <1>7, <1>8, <1>9, <1>10, <1>11, IndexerTurns DEF OutcomesInv
-----------------------------------------------------------------------------
(* The invariant and what follows from it.                                 *)

LEMMA InitTurns == Init => TurnsInv
  <1> SUFFICES ASSUME Init PROVE TurnsInv
    OBVIOUS
  <1>0. GatewayInv
    BY InitGateway
  <1>1. /\ DOMAIN chain = {} /\ DOMAIN jobs = {} /\ final = 0 /\ indexedFinal = 0
        /\ history = {} /\ account = << >> /\ chain = << >>
        /\ writer.job = 0 /\ writer.live = FALSE /\ indexer.pc = "start"
        /\ \A w \in Replicas : worker[w].pc = "idle"
    BY DEF Init, Tick, IdleWorker
  <1>2. ChainInv /\ PoolInv
    BY <1>1 DEF ChainInv, PoolInv
  <1>3. FinalInv /\ StatusInv /\ PlanInv
    BY <1>1 DEF FinalInv, StatusInv, PlanInv
  <1>4. AccountIsFinalized
    <2>1. Prefix(chain, 0) = << >>
      BY <1>1 DEF Prefix
    <2>2. Len(<< >>) = 0
      OBVIOUS
    <2>3. PICK f : Accepts(<< >>, 0, f) /\ OuterState(<< >>) = f[0]
      BY <2>2, OuterStateIs
    <2>4. f[0] = << >>
      BY <2>3, AcceptsSteps
    <2>5. account = OuterState(Prefix(chain, 0)) /\ 0 \in 0..final
      BY <1>1, <2>1, <2>3, <2>4
    <2>6. QED
      BY <2>5 DEF AccountIsFinalized
  <1>5. TurnInv
    BY <1>1 DEF TurnInv, WriterInv, HeldInv
  <1>6. HolderInv
    BY <1>1 DEF HolderInv, Resting
  <1>7. QED
    BY <1>0, <1>2, <1>3, <1>4, <1>5, <1>6 DEF TurnsInv, OutcomesInv

LEMMA StutterTurns ==
    ASSUME TurnsInv, GatewayInv', UNCHANGED vars
    PROVE  TurnsInv'
  <1>1. UNCHANGED <<chain, final, mempool, jobs, writer, account, pending, worker, indexed,
                    indexedFinal, history, indexer>>
    BY DEF vars, chainVars, writerVars, workerVars, indexerVars
  <1>2. OutcomesInv'
    BY <1>1 DEF TurnsInv, OutcomesInv, FinalInv, StatusInv, PlanInv, AccountIsFinalized,
                Applied
  <1>3. TurnInv'
    BY <1>1 DEF TurnsInv, TurnInv, WriterInv, HeldInv, Applied
  <1>4. QED
    BY <1>1, <1>2, <1>3, IndexerTurns

LEMMA NextTurns == TurnsInv /\ [Next]_vars => TurnsInv'
  <1> SUFFICES ASSUME TurnsInv, [Next]_vars PROVE TurnsInv'
    OBVIOUS
  <1>0. GatewayInv'
    BY NextGateway DEF TurnsInv
  <1>1. CASE Ethereum
    BY <1>0, <1>1, EthereumTurns
  <1>2. CASE Admission
    BY <1>0, <1>2, AdmissionTurns
  <1>3. CASE /\ \E w \in Replicas : Progress(w) \/ Interruption(w) \/ Demote(w)
             /\ UNCHANGED indexerVars
    BY <1>0, <1>3, ProgressTurns, OwnershipTurns DEF Interruption
  <1>4. CASE Operator /\ UNCHANGED indexerVars
    BY <1>0, <1>4, OperatorTurns
  <1>5. CASE IndexerStep
    BY <1>0, <1>5, RollbackTurns, IndexBlocksTurns, RecoverTurns, WriteStatusTurns,
       TickEndsTurns DEF IndexerStep
  <1>6. CASE \E j \in DOMAIN jobs : ReconcileJob(j)
    BY <1>0, <1>6, ReconcileTurns
  <1>7. CASE AbortTick
    BY <1>0, <1>7, TickEndsTurns
  <1>8. CASE UNCHANGED vars
    BY <1>0, <1>8, StutterTurns
  <1>9. QED
    BY <1>1, <1>2, <1>3, <1>4, <1>5, <1>6, <1>7, <1>8 DEF Next

LEMMA TurnsInvariant == Spec => []TurnsInv
  BY InitTurns, NextTurns, PTL DEF Spec

\* A job that may still change the outer account is on its way: one that failed
\* or was rejected has signed nothing, and a reorged one is final on the chain.
LEMMA OpenIsWorking ==
    ASSUME TurnsInv, NEW j \in DOMAIN jobs, Open(j)
    PROVE  jobs[j].status \in Working
  <1>0. GatewayInv /\ StatusInv /\ FinalInv /\ jobs[j].status \in Statuses
    BY RowsTyped DEF TurnsInv, OutcomesInv
  <1>1. jobs[j].status \notin {"confirmed", "ethereum_reverted", "proof_failed", "executed"}
    BY <1>0 DEF Open, Released, StatusInv
  <1>2. jobs[j].status \notin {"failed", "rejected"}
    <2>1. SUFFICES ASSUME jobs[j].status \in {"failed", "rejected"} PROVE FALSE
      OBVIOUS
    <2>2. jobs[j].prepared = 0
      BY <1>0, <2>1 DEF GatewayInv, SignedInv, Dropped
    <2>3. jobs[j].hash = 0
      BY <1>0, <2>2 DEF StatusInv
    <2>4. QED
      BY <2>1, <2>2, <2>3 DEF Open, Released
  <1>3. jobs[j].status # "reorged"
    <2>1. SUFFICES ASSUME jobs[j].status = "reorged" PROVE FALSE
      OBVIOUS
    <2>2. PICK h \in history : h.job = j
      BY <1>0, <2>1 DEF StatusInv, Applied
    <2>3. h.block \in 1..final /\ chain[h.block].tx[1] = j
      BY <1>0, <2>2, Heights DEF FinalInv
    <2>4. QED
      BY <2>1, <2>3 DEF Open, Final
  <1>4. QED
    BY <1>0, <1>1, <1>2, <1>3, StatusSets

\* Settlements and bridge batches take turns: at most one job is open, and the
\* writer row is attached to it, whatever crashes, is fenced, reorganized or
\* rolled back (lock, ensure_no_jobs, rollback_after).
THEOREM OneWriter == Spec => []SingleWriter
  <1>1. ASSUME TurnsInv PROVE SingleWriter
    BY <1>1, OpenIsWorking DEF SingleWriter, TurnsInv, TurnInv, WriterInv
  <1>2. QED
    BY <1>1, TurnsInvariant, PTL

\* Nobody moves the gateway's state under an open job or a live lease: until the
\* job's own receipt is applied it is the state its proof starts from
\* (attach_settlement, attach_bridge, apply_confirmed_settlement).
THEOREM TurnHolds == Spec => []CheckpointHeld
  <1>1. ASSUME TurnsInv PROVE CheckpointHeld
    <2>1. \A j \in DOMAIN jobs : Open(j) /\ ~Applied(j) => jobs[j].base = account
      BY <1>1, OpenIsWorking DEF TurnsInv, TurnInv, HeldInv
    <2>2. QED
      BY <1>1, <2>1 DEF CheckpointHeld, TurnsInv, TurnInv, WriterInv
  <1>2. QED
    BY <1>1, TurnsInvariant, PTL

\* The sequencer's command of an open settlement stays in the pool until its
\* receipt is applied (record_failure, rollback_after).
THEOREM CommandKept == Spec => []PendingKept
  <1>1. ASSUME TurnsInv PROVE PendingKept
    BY <1>1, OpenIsWorking DEF PendingKept, TurnsInv, TurnInv, HeldInv
  <1>2. QED
    BY <1>1, TurnsInvariant, PTL

\* A status confirmed or ethereum_reverted is what the finalized chain says of
\* the job's transaction, and the virtual account is the outer state of a
\* finalized block (recover_gateway_state, reconcile_jobs, apply_confirmed_*).
THEOREM RecordedIsFinal == Spec => []RecordsAreFinal
  <1>1. ASSUME TurnsInv PROVE RecordsAreFinal
    <2>0. StatusInv /\ FinalInv /\ AccountIsFinalized
      BY <1>1 DEF TurnsInv, OutcomesInv
    <2>1. \A p \in 1..final : chain[p].ok \in BOOLEAN
      <3>1. /\ chain \in Seq(Blocks) /\ 1..final \subseteq 1..Len(chain)
        BY <1>1, Heights, TypeParts DEF TurnsInv, GatewayInv, ChainTyped
      <3>2. \A p \in 1..final : chain[p] \in Blocks
        BY <3>1, ElementOfSeq
      <3>3. QED
        BY <3>2 DEF Blocks
    <2>2. ASSUME NEW j \in DOMAIN jobs, jobs[j].status = "confirmed"
          PROVE  \E p \in 1..final : chain[p].tx[1] = j /\ chain[p].ok = TRUE
      <3>1. PICK h \in history : h.job = j
        BY <2>0, <2>2 DEF StatusInv, Applied
      <3>2. h.block \in 1..final /\ chain[h.block].tx[1] = j /\ chain[h.block].ok
        BY <1>1, <2>0, <3>1, Heights DEF FinalInv
      <3>3. chain[h.block].ok = TRUE
        BY <2>1, <3>2, Zenon
      <3>4. QED
        BY <3>2, <3>3
    <2>3. ASSUME NEW j \in DOMAIN jobs, jobs[j].status = "ethereum_reverted"
          PROVE  \E p \in 1..final : chain[p].tx[1] = j /\ chain[p].ok = FALSE
      <3>1. PICK p \in 1..final : chain[p].tx[1] = j /\ ~chain[p].ok
        BY <2>0, <2>3 DEF StatusInv
      <3>2. chain[p].ok = FALSE
        BY <2>1, <3>1, Zenon
      <3>3. QED
        BY <3>1, <3>2
    <2>4. OutcomeIsFinal
      BY <2>2, <2>3, Zenon DEF OutcomeIsFinal
    <2>5. QED
      BY <2>0, <2>4 DEF RecordsAreFinal
  <1>2. QED
    BY <1>1, TurnsInvariant, PTL
=============================================================================
