--------------------------- MODULE ReplicaProofs ----------------------------
(***************************************************************************)
(* The indexers of any number of replicas on one database, for any number  *)
(* of blocks and reorganizations: no outcome is recorded that consensus    *)
(* has not made final, and an indexer that runs alone skips no final block *)
(* and loses no job.                                                       *)
(***************************************************************************)
EXTENDS IndexerReplicas, LogLemmas

Phases == {"idle", "tip", "rollback", "latest", "fetch", "insert", "recover",
           "reconcile", "status", "end"}

Ticks == [at : Phases, head : Nat, fin : Nat, next : Nat, id : Nat, ancestor : Nat,
          status : {"none", "submitted", "confirmed", "ethereum_reverted"},
          block : Nat]

JobRows == [status : {"queued", "submitted", "confirmed", "ethereum_reverted"},
            signed : BOOLEAN, hash : BOOLEAN, block : Nat]

MadeBlocks == [parent : Nat, tx : {"none", "accepted", "reverted"}]

-----------------------------------------------------------------------------
(* The invariant for any number of indexers.                               *)

\* A block follows the one below it on the chain, and was mined after it.
ChainInv ==
    /\ made \in Seq(MadeBlocks) /\ Len(made) <= MaxBlocks
    /\ chain \in Seq(Nat)
    /\ \A n \in DOMAIN chain : chain[n] \in n..Len(made)
    /\ \A n \in DOMAIN chain : n > 1 => made[chain[n]].parent = chain[n - 1]
    /\ final \in 0..Len(chain) /\ reorgs \in Nat

\* Heights are marked final no sooner than consensus says so.
TableInv ==
    /\ deployment \in Deployments
    /\ DOMAIN blocks \subseteq 1..MaxBlocks
    /\ \A n \in DOMAIN blocks : blocks[n] \in 1..Len(made)
    /\ marks \subseteq DOMAIN blocks
    /\ \A k \in marks : k <= final
    /\ job \in JobRows /\ job.block <= MaxBlocks
    /\ ready \in BOOLEAN

Happened(outcome) == \E n \in 1..final : Outcome(n) = outcome

\* What an indexer has read of the chain holds of it for good where it is
\* final: the finalized height, and an outcome it is about to write.
TickOK(t) ==
    /\ t \in Ticks
    /\ t.head <= MaxBlocks /\ t.fin <= t.head /\ t.fin <= final
    /\ t.next <= MaxBlocks + 1 /\ t.id <= Len(made) /\ t.block <= MaxBlocks
    /\ t.at = "insert" \/ (t.at = "rollback" /\ t.next # 0) =>
           t.next \in 1..MaxBlocks /\ t.id \in 1..Len(made)
    /\ t.at = "status" =>
           /\ t.status # "none"
           /\ t.status = "confirmed" => Happened("accepted")
           /\ t.status = "ethereum_reverted" => Happened("reverted")

TickInv ==
    /\ tick \in [Indexers -> Ticks]
    /\ \A i \in Indexers : TickOK(tick[i])

ReplicaInv == ChainInv /\ TableInv /\ TickInv /\ OutcomesAreFinal

-----------------------------------------------------------------------------
(* The invariant for one indexer.                                          *)

\* The rows have no gap, and each is the parent of the one above it.
RowsLinked ==
    /\ DOMAIN blocks = 1..Highest
    /\ \A n \in DOMAIN blocks : n > 1 => made[blocks[n]].parent = blocks[n - 1]

\* The cursor is the next row's, the block in hand is its block, a rollback
\* after a comparison goes below the block compared, and a status is written
\* to a job that has its hash.
CursorOK(t) ==
    /\ t.at \in {"fetch", "insert"} => t.next = Highest + 1
    /\ t.at = "insert" /\ t.next > 1 => made[t.id].parent = blocks[t.next - 1]
    /\ t.at = "rollback" => t.ancestor <= Highest /\ t.next # t.ancestor + 1
    /\ t.at = "status" => job.hash

AloneInv ==
    Alone => /\ RowsLinked
             /\ \A i \in Indexers : CursorOK(tick[i])
             /\ NothingIsLost
-----------------------------------------------------------------------------
(* Helpers.                                                                *)

LEMMA BoundsNat ==
    ASSUME TableInv
    PROVE  MaxBlocks \in Nat /\ IsFiniteSet(Indexers)
  BY ReplicasAssumption DEF TableInv, MaxBlocks, Indexers

LEMMA HighestRow ==
    ASSUME TableInv
    PROVE  /\ Highest \in 0..MaxBlocks
           /\ \A n \in DOMAIN blocks : n <= Highest
           /\ Highest # 0 => Highest \in DOMAIN blocks
  <1>1. MaxBlocks \in Nat
    BY BoundsNat
  <1> DEFINE T == {0} \union DOMAIN blocks
  <1>2. T \in SUBSET (0..MaxBlocks) /\ T # {}
    BY <1>1 DEF TableInv
  <1>3. Max(T) \in T /\ \A y \in T : Max(T) >= y
    <2> HIDE DEF T
    <2> QED BY <1>1, <1>2, MaxMember
  <1>4. Max(T) = Highest
    BY DEF Highest
  <1>5. QED
    BY <1>1, <1>2, <1>3, <1>4

LEMMA AncestorFound ==
    ASSUME NEW n \in Nat
    PROVE  /\ CommonAncestor(n) \in 0..n
           /\ \/ CommonAncestor(n) = 0
              \/ CommonAncestor(n) \notin DOMAIN blocks
              \/ blocks[CommonAncestor(n)] = chain[CommonAncestor(n)]
  <1> DEFINE T == {k \in 0..n : k = 0 \/ k \notin DOMAIN blocks \/ blocks[k] = chain[k]}
  <1>1. T \in SUBSET (0..n) /\ 0 \in T
    OBVIOUS
  <1>2. PICK x \in T : \A y \in T : x >= y
    <2> HIDE DEF T
    <2> QED BY <1>1, LargestNat
  <1>3. x \in 0..n /\ (x = 0 \/ x \notin DOMAIN blocks \/ blocks[x] = chain[x])
    BY <1>2
  <1>4. \A m \in (x + 1)..n : m \in DOMAIN blocks /\ blocks[m] # chain[m]
    <2> SUFFICES ASSUME NEW m \in (x + 1)..n, ~(m \in DOMAIN blocks /\ blocks[m] # chain[m])
                 PROVE  FALSE
      OBVIOUS
    <2>1. m \in T
      BY <1>3
    <2>2. x >= m
      BY <1>2, <2>1
    <2> QED
      BY <1>3, <2>2
  <1>5. \E k \in 0..n :
           /\ k = 0 \/ k \notin DOMAIN blocks \/ blocks[k] = chain[k]
           /\ \A m \in (k + 1)..n : m \in DOMAIN blocks /\ blocks[m] # chain[m]
    BY <1>3, <1>4
  <1>6. QED
    BY <1>5 DEF CommonAncestor

\* A step of one indexer that leaves the chain alone.
LEMMA OneTick ==
    ASSUME TickInv, NEW i \in Indexers, NEW new, TickOK(new),
           tick' = [tick EXCEPT ![i] = new],
           UNCHANGED <<deployment, chainVars>>
    PROVE  TickInv'
  <1>1. new \in Ticks
    BY DEF TickOK
  <1>2. tick' \in [Indexers -> Ticks] /\ Indexers' = Indexers
    BY <1>1 DEF TickInv, Indexers
  <1>3. \A j \in Indexers : TickOK(tick'[j])
    BY DEF TickInv
  <1>4. QED
    BY <1>2, <1>3 DEF TickInv, TickOK, Happened, Outcome, MaxBlocks, chainVars

LEMMA IdleOK ==
    ASSUME ChainInv, TableInv
    PROVE  TickOK(Idle)
  <1>1. MaxBlocks \in Nat /\ final \in Nat /\ Len(made) \in Nat
    BY BoundsNat DEF ChainInv
  <1>2. QED
    BY <1>1 DEF TickOK, Idle, Ticks, Phases

LEMMA InitReplicas == Init => ReplicaInv
  <1> SUFFICES ASSUME Init PROVE ReplicaInv
    OBVIOUS
  <1>1. ChainInv
    <2>1. MaxBlocks \in Nat
      BY ReplicasAssumption DEF Init, MaxBlocks
    <2>2. QED
      BY <2>1 DEF Init, ChainInv
  <1>2. TableInv
    <2>1. MaxBlocks \in Nat
      BY ReplicasAssumption DEF Init, MaxBlocks
    <2>2. DOMAIN blocks = {}
      BY DEF Init
    <2>3. job \in JobRows /\ job.block = 0
      BY DEF Init, Queued, JobRows
    <2>4. ready \in BOOLEAN /\ deployment \in Deployments /\ marks = {}
      BY Zenon DEF Init
    <2>5. job.block <= MaxBlocks
      BY <2>1, <2>3
    <2>6. QED
      BY <2>2, <2>3, <2>4, <2>5 DEF TableInv
  <1>3. TickInv
    <2>1. TickOK(Idle)
      BY <1>1, <1>2, IdleOK
    <2>2. Idle \in Ticks
      BY <2>1 DEF TickOK
    <2>3. tick = [i \in Indexers |-> Idle]
      BY DEF Init
    <2>4. tick \in [Indexers -> Ticks]
      BY <2>2, <2>3
    <2>5. \A i \in Indexers : tick[i] = Idle
      BY <2>3
    <2>6. QED
      BY <2>1, <2>4, <2>5 DEF TickInv
  <1>4. OutcomesAreFinal
    BY DEF Init, Queued, OutcomesAreFinal
  <1>5. QED
    BY <1>1, <1>2, <1>3, <1>4 DEF ReplicaInv
-----------------------------------------------------------------------------
(* Ethereum and the worker.                                                *)

\* What holds of the chain after a step of its own: what was final stays.
ChainKept ==
    /\ Len(made) <= Len(made') /\ \A b \in 1..Len(made) : made'[b] = made[b]
    /\ final <= final'
    /\ \A n \in 1..final : chain'[n] = chain[n]

LEMMA KeptHolds ==
    ASSUME ReplicaInv, ChainInv', ChainKept,
           UNCHANGED <<deployment, blocks, marks, job, ready, tick>>
    PROVE  ReplicaInv'
  <1> USE DEF ReplicaInv
  <1>1. Len(made) \in Nat /\ Len(made') \in Nat /\ final \in Nat /\ final' \in Nat
    BY DEF ChainInv
  <1>2. ASSUME NEW o, Happened(o)
        PROVE  \E n \in 1..final' : made'[chain'[n]].tx = o
    <2>1. PICK n \in 1..final : made[chain[n]].tx = o
      BY <1>2 DEF Happened, Outcome
    <2>2. n \in DOMAIN chain
      BY <1>1 DEF ChainInv
    <2>3. chain[n] \in 1..Len(made)
      BY <2>2 DEF ChainInv
    <2>4. chain'[n] = chain[n] /\ made'[chain[n]] = made[chain[n]]
      BY <2>1, <2>3 DEF ChainKept
    <2>5. n \in 1..final'
      BY <1>1 DEF ChainKept
    <2>6. QED
      BY <2>1, <2>4, <2>5
  <1>3. TableInv'
    <2>1. MaxBlocks' = MaxBlocks
      BY DEF MaxBlocks
    <2>2. \A n \in DOMAIN blocks : blocks[n] \in 1..Len(made')
      BY <1>1 DEF TableInv, ChainKept
    <2>3. \A k \in marks : k <= final'
      BY <1>1 DEF TableInv, ChainKept
    <2>4. QED
      BY <2>1, <2>2, <2>3 DEF TableInv
  <1>4. TickInv'
    <2>1. Indexers' = Indexers /\ MaxBlocks' = MaxBlocks
      BY DEF Indexers, MaxBlocks
    <2>2. ASSUME NEW i \in Indexers
          PROVE  TickOK(tick[i])'
      <3>1. TickOK(tick[i])
        BY DEF TickInv
      <3>2. tick[i] \in Ticks
        BY <3>1 DEF TickOK
      <3>3. tick[i].fin <= final' /\ tick[i].id <= Len(made')
        BY <1>1, <3>1, <3>2 DEF TickOK, Ticks, ChainKept
      <3>4. tick[i].id \in 1..Len(made) => tick[i].id \in 1..Len(made')
        BY <1>1 DEF ChainKept
      <3>5. Happened("accepted") => Happened("accepted")'
        BY <1>2 DEF Happened, Outcome
      <3>6. Happened("reverted") => Happened("reverted")'
        BY <1>2 DEF Happened, Outcome
      <3>7. QED
        BY <2>1, <3>1, <3>3, <3>4, <3>5, <3>6 DEF TickOK
    <2>3. QED
      BY <2>1, <2>2 DEF TickInv
  <1>5. OutcomesAreFinal'
    BY <1>2 DEF OutcomesAreFinal, Happened, Outcome
  <1>6. QED
    BY <1>3, <1>4, <1>5

LEMMA MineKeeps ==
    ASSUME ReplicaInv, Mine, UNCHANGED deployment
    PROVE  ChainInv' /\ ChainKept /\ final' = final
  <1> USE DEF ReplicaInv
  <1>1. PICK tx \in {"none", "accepted", "reverted"} :
           /\ Len(made) < MaxBlocks
           /\ made' = Append(made, [parent |-> IF chain = << >> THEN 0 ELSE Last(chain),
                                    tx |-> tx])
           /\ chain' = Append(chain, Len(made) + 1)
           /\ UNCHANGED <<final, reorgs>>
    BY DEF Mine
  <1> DEFINE below == IF chain = << >> THEN 0 ELSE Last(chain)
             block == [parent |-> below, tx |-> tx]
  <1>2. Len(made) \in Nat /\ Len(chain) \in Nat /\ MaxBlocks \in Nat
        /\ MaxBlocks' = MaxBlocks
    BY BoundsNat DEF ChainInv, MaxBlocks
  <1>3. chain # << >> => Len(chain) \in DOMAIN chain /\ below = chain[Len(chain)]
    BY <1>2 DEF ChainInv, Last
  <1>4. below \in Nat
    BY <1>2, <1>3 DEF ChainInv
  <1>5. block \in MadeBlocks
    BY <1>4 DEF MadeBlocks
  <1>6. Len(chain) <= Len(made)
    <2>1. CASE chain = << >>
      BY <1>2, <2>1
    <2>2. CASE chain # << >>
      <3>1. chain[Len(chain)] \in Len(chain)..Len(made)
        BY <1>3, <2>2 DEF ChainInv
      <3>2. QED
        BY <1>2, <3>1
    <2>3. QED
      BY <2>1, <2>2
  <1>7. made' = Append(made, block)
    BY <1>1
  <1> HIDE DEF block
  <1>8. /\ made' \in Seq(MadeBlocks) /\ Len(made') = Len(made) + 1
        /\ \A b \in 1..Len(made) : made'[b] = made[b]
        /\ made'[Len(made) + 1] = block
    BY <1>5, <1>7, AppendProperties DEF ChainInv
  <1>9. /\ chain' \in Seq(Nat) /\ Len(chain') = Len(chain) + 1
        /\ \A n \in 1..Len(chain) : chain'[n] = chain[n]
        /\ chain'[Len(chain) + 1] = Len(made) + 1
    <2>1. Len(made) + 1 \in Nat
      BY <1>2
    <2>2. QED
      BY <1>1, <2>1, AppendProperties DEF ChainInv
  <1>10. \A n \in DOMAIN chain' : n \in 1..Len(chain) \/ n = Len(chain) + 1
    BY <1>2, <1>9
  <1>11. \A n \in 1..Len(chain) : chain[n] \in n..Len(made) /\ chain[n] \in 1..Len(made)
    BY <1>2 DEF ChainInv
  <1>12. ASSUME NEW n \in DOMAIN chain'
         PROVE  /\ chain'[n] \in n..Len(made')
                /\ n > 1 => made'[chain'[n]].parent = chain'[n - 1]
    <2>1. CASE n \in 1..Len(chain)
      <3>1. chain'[n] = chain[n] /\ made'[chain[n]] = made[chain[n]]
        BY <1>8, <1>9, <1>11, <2>1
      <3>2. n > 1 => n - 1 \in 1..Len(chain) /\ made[chain[n]].parent = chain[n - 1]
        BY <1>2, <2>1 DEF ChainInv
      <3>3. QED
        BY <1>2, <1>8, <1>9, <1>11, <2>1, <3>1, <3>2
    <2>2. CASE n = Len(chain) + 1
      <3>1. chain'[n] = Len(made) + 1 /\ made'[chain'[n]] = block
        BY <1>8, <1>9, <2>2
      <3>2. chain'[n] \in n..Len(made')
        BY <1>2, <1>6, <1>8, <2>2, <3>1
      <3>3. ASSUME n > 1 PROVE block.parent = chain'[n - 1]
        <4>1. Len(chain) \in 1..Len(chain) /\ chain # << >> /\ n - 1 = Len(chain)
          BY <1>2, <2>2, <3>3
        <4>2. chain'[n - 1] = chain[Len(chain)]
          BY <1>9, <4>1
        <4>3. QED
          BY <1>3, <4>1, <4>2 DEF block
      <3>4. QED
        BY <3>1, <3>2, <3>3
    <2>3. QED
      BY <1>10, <2>1, <2>2
  <1>13. ChainInv'
    <2>1. final' \in 0..Len(chain') /\ reorgs' \in Nat
      BY <1>1, <1>2, <1>9 DEF ChainInv
    <2>2. Len(made') <= MaxBlocks'
      BY <1>1, <1>2, <1>8
    <2>3. QED
      BY <1>8, <1>9, <1>12, <2>1, <2>2 DEF ChainInv
  <1>14. ChainKept
    <2>1. \A n \in 1..final : n \in 1..Len(chain)
      BY <1>2 DEF ChainInv
    <2>2. final <= final'
      BY <1>1 DEF ChainInv
    <2>3. Len(made) <= Len(made')
      BY <1>2, <1>8
    <2>4. QED
      BY <1>8, <1>9, <2>1, <2>2, <2>3 DEF ChainKept
  <1>15. QED
    BY <1>1, <1>13, <1>14

LEMMA ReorgKeeps ==
    ASSUME ReplicaInv, Reorg, UNCHANGED deployment
    PROVE  ChainInv' /\ ChainKept
  <1> USE DEF ReplicaInv
  <1>1. PICK k \in final..(Len(chain) - 1) : chain' = SubSeq(chain, 1, k)
    BY DEF Reorg
  <1>2. UNCHANGED <<made, final>> /\ reorgs' = reorgs + 1 /\ MaxBlocks' = MaxBlocks
    BY DEF Reorg, MaxBlocks
  <1>3. k \in Nat /\ Len(chain) \in Nat /\ final \in Nat /\ k <= Len(chain) /\ final <= k
    BY DEF ChainInv
  <1>4. \A n \in 1..k : chain[n] \in Nat
    BY <1>3 DEF ChainInv
  <1>5. /\ chain' \in Seq(Nat) /\ Len(chain') = k
        /\ \A n \in 1..k : chain'[n] = chain[n]
    BY <1>1, <1>3, <1>4, SubSeqProperties
  <1>6. ASSUME NEW n \in DOMAIN chain'
        PROVE  /\ chain'[n] \in n..Len(made)
               /\ n > 1 => made[chain'[n]].parent = chain'[n - 1]
    <2>1. n \in 1..k /\ n \in DOMAIN chain /\ (n > 1 => n - 1 \in 1..k)
      BY <1>3, <1>5 DEF ChainInv
    <2>2. QED
      BY <1>5, <2>1 DEF ChainInv
  <1>7. ChainInv'
    BY <1>2, <1>3, <1>5, <1>6 DEF ChainInv
  <1>8. ChainKept
    <2>1. \A n \in 1..final : n \in 1..k
      BY <1>3
    <2>2. QED
      BY <1>2, <1>3, <1>5, <2>1 DEF ChainKept, ChainInv
  <1>9. QED
    BY <1>7, <1>8

LEMMA FinalizeKeeps ==
    ASSUME ReplicaInv, Finalize, UNCHANGED deployment
    PROVE  ChainInv' /\ ChainKept
  <1> USE DEF ReplicaInv
  <1>1. UNCHANGED <<chain, made, reorgs>> /\ final' = final + 1 /\ final < Len(chain)
        /\ MaxBlocks' = MaxBlocks
    BY DEF Finalize, MaxBlocks
  <1>2. QED
    BY <1>1 DEF ChainInv, ChainKept

LEMMA ChainSteps ==
    ASSUME ReplicaInv, Mine \/ Finalize \/ Reorg, UNCHANGED deployment
    PROVE  ChainInv' /\ ChainKept /\ ReplicaInv'
  <1>1. ChainInv' /\ ChainKept
    BY MineKeeps, ReorgKeeps, FinalizeKeeps
  <1>2. UNCHANGED <<blocks, marks, job, ready, tick>>
    BY DEF Mine, Finalize, Reorg
  <1>3. QED
    BY <1>1, <1>2, KeptHolds
-----------------------------------------------------------------------------
(* The steps of an indexer, for any number of them.                        *)

\* A step that leaves the chain and the tables alone.
LEMMA QuietTick ==
    ASSUME ReplicaInv, NEW i \in Indexers, NEW new, TickOK(new),
           tick' = [tick EXCEPT ![i] = new],
           UNCHANGED <<deployment, chainVars, blocks, marks, job, ready>>
    PROVE  ReplicaInv'
  <1>1. TickInv'
    BY OneTick DEF ReplicaInv
  <1>2. ChainInv' /\ TableInv' /\ OutcomesAreFinal'
    BY DEF ReplicaInv, ChainInv, TableInv, OutcomesAreFinal, Outcome, MaxBlocks, chainVars
  <1>3. QED
    BY <1>1, <1>2 DEF ReplicaInv

\* What a tick holds where it is.
LEMMA TickHolds ==
    ASSUME ReplicaInv, NEW i \in Indexers
    PROVE  /\ TickOK(tick[i]) /\ tick[i] \in Ticks
           /\ tick = [tick EXCEPT ![i] = tick[i]]
           /\ MaxBlocks \in Nat /\ final \in Nat /\ Len(made) \in Nat /\ Len(chain) \in Nat
           /\ Highest \in 0..MaxBlocks
           /\ \A n \in DOMAIN chain : n \in 1..MaxBlocks /\ chain[n] \in 1..Len(made)
  <1>1. TickOK(tick[i]) /\ tick[i] \in Ticks /\ tick = [tick EXCEPT ![i] = tick[i]]
    BY DEF ReplicaInv, TickInv, TickOK
  <1>2. MaxBlocks \in Nat /\ Highest \in 0..MaxBlocks
    BY BoundsNat, HighestRow DEF ReplicaInv
  <1>3. final \in Nat /\ Len(made) \in Nat /\ Len(chain) \in Nat /\ Len(made) <= MaxBlocks
    BY DEF ReplicaInv, ChainInv
  <1>4. \A n \in DOMAIN chain : n \in 1..Len(chain) /\ chain[n] \in n..Len(made)
    BY DEF ReplicaInv, ChainInv
  <1>5. QED
    BY <1>1, <1>2, <1>3, <1>4

\* The fields a step of a tick writes, and those it keeps.
Keeps(t, new) ==
    new \in Ticks /\ new.head = t.head /\ new.fin = t.fin /\ new.block = t.block

LEMMA Fetches ==
    ASSUME NEW t \in Ticks, NEW n \in Nat
    PROVE  LET new == [t EXCEPT !.at = "fetch", !.next = n] IN
           Keeps(t, new) /\ new.at = "fetch" /\ new.next = n /\ new.id = t.id
  BY DEF Ticks, Phases, Keeps

LEMMA Inserts ==
    ASSUME NEW t \in Ticks, NEW b \in Nat
    PROVE  LET new == [t EXCEPT !.at = "insert", !.id = b] IN
           Keeps(t, new) /\ new.at = "insert" /\ new.next = t.next /\ new.id = b
  BY DEF Ticks, Phases, Keeps

\* A tick that goes on with what it has read of the chain.
LEMMA TickGoesOn ==
    ASSUME NEW t, TickOK(t), NEW new \in Ticks,
           Keeps(t, new), new.at # "status", new.next <= MaxBlocks + 1, new.id <= Len(made),
           new.at = "insert" \/ (new.at = "rollback" /\ new.next # 0) =>
               new.next \in 1..MaxBlocks /\ new.id \in 1..Len(made)
    PROVE  TickOK(new)
  BY DEF TickOK, Keeps

LEMMA EndsReplica ==
    ASSUME ReplicaInv, NEW i \in Indexers, UNCHANGED deployment,
           EndTick(i) \/ TickFails(i)
    PROVE  ReplicaInv'
  <1>1. TickOK(Idle)
    BY IdleOK DEF ReplicaInv
  <1>2. CASE TickFails(i)
    BY <1>1, <1>2, QuietTick DEF TickFails
  <1>3. CASE EndTick(i)
    <2>1. TickInv'
      BY <1>1, <1>3, OneTick DEF EndTick, ReplicaInv
    <2>2. ready' \in BOOLEAN
      BY <1>3, Zenon DEF EndTick
    <2>3. ChainInv' /\ TableInv' /\ OutcomesAreFinal'
      BY <1>3, <2>2 DEF EndTick, ReplicaInv, ChainInv, TableInv, OutcomesAreFinal,
                        Outcome, MaxBlocks, chainVars
    <2>4. QED
      BY <2>1, <2>3 DEF ReplicaInv
  <1>4. QED
    BY <1>2, <1>3

LEMMA BeginReplica ==
    ASSUME ReplicaInv, NEW i \in Indexers, UNCHANGED deployment, Begin(i)
    PROVE  ReplicaInv'
  <1> DEFINE new == [Idle EXCEPT !.at = "tip", !.head = Len(chain), !.fin = final]
  <1>1. Len(chain) <= MaxBlocks /\ final <= Len(chain)
    <2>1. chain # << >> => Len(chain) \in DOMAIN chain
      BY TickHolds DEF ReplicaInv, ChainInv
    <2>2. QED
      BY <2>1, TickHolds DEF Begin, ReplicaInv, ChainInv
  <1>2. new \in Ticks /\ new.at = "tip" /\ new.head = Len(chain) /\ new.fin = final
        /\ new.next = 0 /\ new.id = 0 /\ new.block = 0
    BY TickHolds DEF Idle, Ticks, Phases
  <1>3. TickOK(new)
    <2> HIDE DEF new
    <2>1. QED
      BY <1>1, <1>2, TickHolds DEF TickOK
  <1>4. QED
    BY <1>3, QuietTick DEF Begin

LEMMA CheckTipReplica ==
    ASSUME ReplicaInv, NEW i \in Indexers, UNCHANGED deployment, CheckTip(i)
    PROVE  ReplicaInv'
  <1> DEFINE t == tick[i]
             back == [t EXCEPT !.at = "rollback", !.next = 0,
                               !.ancestor = CommonAncestor(t.head)]
             on == [t EXCEPT !.at = "fetch", !.next = Highest + 1]
  <1>1. CommonAncestor(t.head) \in Nat
    <2>1. t.head \in Nat
      BY TickHolds DEF Ticks
    <2>2. QED
      BY <2>1, AncestorFound
  <1>2. TickOK(back)
    <2>1. /\ Keeps(t, back) /\ back \in Ticks /\ back.id = t.id
          /\ back.at = "rollback" /\ back.next = 0
      BY <1>1, TickHolds DEF Ticks, Phases, Keeps
    <2> HIDE DEF back
    <2>2. t.id <= Len(made)
      BY TickHolds DEF TickOK
    <2>3. QED
      BY <2>1, <2>2, TickHolds, TickGoesOn
  <1>3. TickOK(on)
    <2>0. Highest + 1 \in Nat /\ t \in Ticks
      BY TickHolds
    <2>1. /\ Keeps(t, on) /\ on \in Ticks /\ on.id = t.id /\ on.at = "fetch"
          /\ on.next = Highest + 1
      BY <2>0, Fetches DEF Keeps
    <2> HIDE DEF on
    <2>2. t.id <= Len(made)
      BY TickHolds DEF TickOK
    <2>3. QED
      BY <2>1, <2>2, TickHolds, TickGoesOn
  <1>4. tick' = [tick EXCEPT ![i] = IF TipMoved(i) THEN back ELSE on]
    BY DEF CheckTip
  <1> HIDE DEF back, on
  <1>5. TickOK(IF TipMoved(i) THEN back ELSE on)
    BY <1>2, <1>3
  <1>6. QED
    BY <1>4, <1>5, QuietTick DEF CheckTip

LEMMA FetchReplica ==
    ASSUME ReplicaInv, NEW i \in Indexers, UNCHANGED deployment, FetchBlock(i)
    PROVE  ReplicaInv'
  <1> DEFINE t == tick[i]
             n == t.next
             back == [t EXCEPT !.at = "rollback", !.id = chain[n],
                               !.ancestor = CommonAncestor(n - 1)]
             on == [t EXCEPT !.at = "insert", !.id = chain[n]]
             differs == n - 1 \in DOMAIN blocks /\ blocks[n - 1] # made[chain[n]].parent
  <1>0. n \in 1..MaxBlocks /\ chain[n] \in 1..Len(made)
    BY TickHolds DEF FetchBlock
  <1>1. CommonAncestor(n - 1) \in Nat
    <2>1. n - 1 \in Nat
      BY <1>0, TickHolds
    <2>2. QED
      BY <2>1, AncestorFound
  <1>2. TickOK(back)
    <2>0. chain[n] \in Nat /\ t \in Ticks
      BY <1>0, TickHolds
    <2> DEFINE to(b, a) == [t EXCEPT !.at = "rollback", !.id = b, !.ancestor = a]
    <2>1. ASSUME NEW b \in Nat, NEW a \in Nat
          PROVE  /\ Keeps(t, to(b, a)) /\ to(b, a).next = n
                 /\ to(b, a).id = b /\ to(b, a).at = "rollback"
      BY <2>0 DEF Ticks, Phases, Keeps
    <2>2. back = to(chain[n], CommonAncestor(n - 1))
      OBVIOUS
    <2> HIDE DEF to, back
    <2>3. /\ Keeps(t, back) /\ back \in Ticks /\ back.next = n /\ back.id = chain[n]
          /\ back.at = "rollback"
      BY <1>1, <2>0, <2>1, <2>2 DEF Keeps
    <2>4. QED
      BY <1>0, <2>3, TickHolds, TickGoesOn
  <1>3. TickOK(on)
    <2>0. chain[n] \in Nat /\ t \in Ticks
      BY <1>0, TickHolds
    <2>1. /\ Keeps(t, on) /\ on \in Ticks /\ on.next = n /\ on.id = chain[n]
          /\ on.at = "insert"
      BY <2>0, Inserts DEF Keeps
    <2> HIDE DEF on
    <2>2. QED
      BY <1>0, <2>1, TickHolds, TickGoesOn
  <1>4. tick' = [tick EXCEPT ![i] = IF differs THEN back ELSE on]
    BY DEF FetchBlock
  <1> HIDE DEF back, on, differs
  <1>5. TickOK(IF differs THEN back ELSE on)
    BY <1>2, <1>3
  <1>6. QED
    BY <1>4, <1>5, QuietTick DEF FetchBlock

LEMMA ReadLatestReplica ==
    ASSUME ReplicaInv, NEW i \in Indexers, UNCHANGED deployment, ReadLatest(i)
    PROVE  ReplicaInv'
  <1> DEFINE on == [tick[i] EXCEPT !.at = "fetch", !.next = Highest + 1]
  <1>1. TickOK(on)
    <2>0. Highest + 1 \in Nat /\ tick[i] \in Ticks
      BY TickHolds
    <2>1. /\ Keeps(tick[i], on) /\ on \in Ticks /\ on.id = tick[i].id /\ on.at = "fetch"
          /\ on.next = Highest + 1
      BY <2>0, Fetches DEF Keeps
    <2> HIDE DEF on
    <2>2. tick[i].id <= Len(made)
      BY TickHolds DEF TickOK
    <2>3. QED
      BY <2>1, <2>2, TickHolds, TickGoesOn
  <1>2. tick' = [tick EXCEPT ![i] = on]
    BY TickHolds DEF ReadLatest
  <1> HIDE DEF on
  <1>3. QED
    BY <1>1, <1>2, QuietTick DEF ReadLatest
LEMMA RollBackReplica ==
    ASSUME ReplicaInv, NEW i \in Indexers, UNCHANGED deployment, RollBack(i)
    PROVE  ReplicaInv'
  <1> DEFINE t == tick[i]
             n == t.ancestor
             read == [t EXCEPT !.at = "latest"]
             insert == [t EXCEPT !.at = "insert"]
             new == IF t.next = 0 THEN read ELSE IF t.next = n + 1 THEN insert ELSE Idle
  <1>1. TickOK(t) /\ t \in Ticks /\ t.at = "rollback"
    BY TickHolds DEF RollBack, At
  <1>2. TickOK(read)
    <2>1. Keeps(t, read) /\ read.at = "latest" /\ read.next = t.next /\ read.id = t.id
      BY <1>1 DEF Ticks, Phases, Keeps
    <2>2. read \in Ticks
      BY <2>1 DEF Keeps
    <2> HIDE DEF read
    <2>3. t.id <= Len(made) /\ t.next <= MaxBlocks + 1
      BY <1>1 DEF TickOK
    <2>4. QED
      BY <1>1, <2>1, <2>2, <2>3, TickGoesOn
  <1>3. ASSUME t.next # 0
        PROVE  TickOK(insert)
    <2>1. /\ Keeps(t, insert) /\ insert.at = "insert" /\ insert.next = t.next
          /\ insert.id = t.id
      BY <1>1 DEF Ticks, Phases, Keeps
    <2>2. insert \in Ticks
      BY <2>1 DEF Keeps
    <2> HIDE DEF insert
    <2>3. /\ t.id <= Len(made) /\ t.next <= MaxBlocks + 1
          /\ t.next \in 1..MaxBlocks /\ t.id \in 1..Len(made)
      BY <1>1, <1>3 DEF TickOK
    <2>4. QED
      BY <1>1, <2>1, <2>2, <2>3, TickGoesOn
  <1>4. TickOK(Idle)
    BY IdleOK DEF ReplicaInv
  <1>5. /\ tick' = [tick EXCEPT ![i] = new]
        /\ blocks' = CanonicalRows(n) /\ job' = Requeued(n) /\ ready' = FALSE
        /\ \A k \in marks : k <= n
        /\ UNCHANGED <<chainVars, marks>>
    BY DEF RollBack
  <1>6. TickOK(new)
    <2> HIDE DEF read, insert
    <2>1. QED
      BY <1>2, <1>3, <1>4
  <1>7. TickInv'
    <2> HIDE DEF new
    <2>1. QED
      BY <1>5, <1>6, OneTick DEF ReplicaInv
  <1>8. /\ DOMAIN blocks' = {k \in DOMAIN blocks : k <= n}
        /\ \A k \in DOMAIN blocks' : blocks'[k] = blocks[k]
    BY <1>5 DEF CanonicalRows
  <1>9. /\ job' \in JobRows /\ job'.block <= MaxBlocks
        /\ job'.status \in {"confirmed", "ethereum_reverted"} => job'.status = job.status
    <2>1. job \in JobRows /\ job.block <= MaxBlocks
      BY DEF ReplicaInv, TableInv
    <2>2. CASE job' = job
      BY <2>1, <2>2
    <2>3. CASE job' = [job EXCEPT !.status = "queued", !.hash = FALSE, !.block = 0]
      <3>1. job' \in JobRows /\ job'.block = 0 /\ job'.status = "queued"
        BY <2>1, <2>3 DEF JobRows
      <3>2. QED
        BY <3>1, TickHolds
    <2>4. QED
      BY <1>5, <2>2, <2>3 DEF Requeued
  <1>10. TableInv'
    <2>1. ready' \in BOOLEAN
      BY <1>5, Zenon
    <2>2. marks' \subseteq DOMAIN blocks' /\ \A k \in marks' : k <= final'
      BY <1>5, <1>8 DEF ReplicaInv, TableInv, chainVars
    <2>3. /\ DOMAIN blocks' \subseteq 1..MaxBlocks
          /\ \A k \in DOMAIN blocks' : blocks'[k] \in 1..Len(made')
      BY <1>5, <1>8 DEF ReplicaInv, TableInv, chainVars
    <2>4. QED
      BY <1>9, <2>1, <2>2, <2>3 DEF ReplicaInv, TableInv, MaxBlocks
  <1>11. ChainInv'
    BY <1>5 DEF ReplicaInv, ChainInv, MaxBlocks, chainVars
  <1>12. OutcomesAreFinal'
    BY <1>5, <1>9 DEF ReplicaInv, OutcomesAreFinal, Outcome, chainVars
  <1>13. QED
    BY <1>7, <1>10, <1>11, <1>12 DEF ReplicaInv

LEMMA InsertReplica ==
    ASSUME ReplicaInv, NEW i \in Indexers, UNCHANGED deployment, InsertBlock(i)
    PROVE  ReplicaInv'
  <1> DEFINE t == tick[i]
             n == t.next
             on == [t EXCEPT !.at = "fetch", !.next = n + 1]
  <1>1. TickOK(t) /\ t \in Ticks /\ n \in 1..MaxBlocks /\ t.id \in 1..Len(made)
    BY TickHolds DEF InsertBlock, At, TickOK
  <1>2. TickOK(on)
    <2>1. n + 1 \in Nat /\ n + 1 <= MaxBlocks + 1 /\ t.id <= Len(made)
      BY <1>1, TickHolds
    <2>2. Keeps(t, on) /\ on.at = "fetch" /\ on.next = n + 1 /\ on.id = t.id
      BY <1>1, <2>1, Fetches
    <2>3. on \in Ticks
      BY <2>2 DEF Keeps
    <2> HIDE DEF on
    <2>4. QED
      BY <1>1, <2>1, <2>2, <2>3, TickGoesOn
  <1>3. tick' = [tick EXCEPT ![i] = on]
    BY TickHolds DEF InsertBlock
  <1>4. TickInv'
    <2> HIDE DEF on
    <2>1. QED
      BY <1>2, <1>3, OneTick DEF ReplicaInv, InsertBlock
  <1>5. /\ DOMAIN blocks' = DOMAIN blocks \union {n}
        /\ \A k \in DOMAIN blocks' : blocks'[k] = IF k = n THEN t.id ELSE blocks[k]
        /\ marks' = marks \ {n} /\ UNCHANGED <<chainVars, job, ready>>
    BY DEF InsertBlock
  <1>6. TableInv'
    BY <1>1, <1>5 DEF ReplicaInv, TableInv, MaxBlocks, chainVars
  <1>7. ChainInv' /\ OutcomesAreFinal'
    BY <1>5 DEF ReplicaInv, ChainInv, OutcomesAreFinal, Outcome, MaxBlocks, chainVars
  <1>8. QED
    BY <1>4, <1>6, <1>7 DEF ReplicaInv

\* Moving on without reading.
LEMMA GotoTick ==
    ASSUME ReplicaInv, NEW i \in Indexers, UNCHANGED <<deployment, chainVars>>,
           NEW phase \in {"recover", "reconcile", "end"}, Goto(i, phase)
    PROVE  TickInv'
  <1> DEFINE t == tick[i]
             on == [t EXCEPT !.at = phase]
  <1>1. TickOK(t) /\ t \in Ticks
    BY TickHolds
  <1>2. Keeps(t, on) /\ on.at = phase /\ on.next = t.next /\ on.id = t.id
    BY <1>1 DEF Ticks, Phases, Keeps
  <1>3. on \in Ticks
    BY <1>2 DEF Keeps
  <1>4. tick' = [tick EXCEPT ![i] = on]
    BY TickHolds DEF Goto
  <1> HIDE DEF on
  <1>5. t.id <= Len(made) /\ t.next <= MaxBlocks + 1
    BY <1>1 DEF TickOK
  <1>6. TickOK(on)
    BY <1>1, <1>2, <1>3, <1>5, TickGoesOn
  <1>7. QED
    BY <1>4, <1>6, OneTick DEF ReplicaInv

LEMMA FinishReplica ==
    ASSUME ReplicaInv, NEW i \in Indexers, UNCHANGED deployment, FinishBlocks(i)
    PROVE  ReplicaInv'
  <1>1. TickInv'
    BY GotoTick DEF FinishBlocks
  <1>2. \A k \in marks' : k \in DOMAIN blocks /\ k <= final
    <2>1. tick[i].fin \in Nat /\ tick[i].fin <= final
      BY TickHolds DEF TickOK, Ticks
    <2>2. \A k \in DOMAIN blocks : k \in Nat
      BY DEF ReplicaInv, TableInv
    <2>3. QED
      BY <2>1, <2>2, TickHolds DEF FinishBlocks
  <1>3. ChainInv' /\ TableInv' /\ OutcomesAreFinal'
    BY <1>2 DEF FinishBlocks, ReplicaInv, ChainInv, TableInv, OutcomesAreFinal, Outcome,
                MaxBlocks, chainVars
  <1>4. QED
    BY <1>1, <1>3 DEF ReplicaInv

LEMMA RecoverReplica ==
    ASSUME ReplicaInv, NEW i \in Indexers, UNCHANGED deployment, Recover(i)
    PROVE  ReplicaInv'
  <1> DEFINE accepted == {n \in Receipts : n \in marks /\ Outcome(n) = "accepted"}
  <1>1. TickInv'
    BY GotoTick DEF Recover
  <1>2. job \in JobRows
    BY DEF ReplicaInv, TableInv
  <1>3. CASE accepted = {}
    <2>1. UNCHANGED <<chainVars, blocks, marks, job, ready>>
      BY <1>3 DEF Recover
    <2>2. ChainInv' /\ TableInv' /\ OutcomesAreFinal'
      BY <2>1 DEF ReplicaInv, ChainInv, TableInv, OutcomesAreFinal, Outcome, MaxBlocks,
                  chainVars
    <2>3. QED
      BY <1>1, <2>2 DEF ReplicaInv
  <1>4. CASE accepted # {}
    <2>1. /\ job' = [job EXCEPT !.status = "confirmed", !.hash = TRUE,
                                !.block = Max(accepted)]
          /\ UNCHANGED <<chainVars, blocks, marks, ready>>
      BY <1>4 DEF Recover
    <2>2. MaxBlocks \in Nat /\ accepted \in SUBSET (0..MaxBlocks)
      BY TickHolds DEF Receipts
    <2>3. Max(accepted) \in accepted
      <3> HIDE DEF accepted
      <3>1. QED
        BY <1>4, <2>2, MaxMember
    <2>4. Max(accepted) \in 1..MaxBlocks
      BY <2>3, TickHolds DEF Receipts
    <2>5. Max(accepted) \in 1..final /\ Outcome(Max(accepted)) = "accepted"
      <3>1. Max(accepted) \in marks /\ Outcome(Max(accepted)) = "accepted"
        BY <2>3
      <3>2. QED
        BY <2>4, <3>1, TickHolds DEF ReplicaInv, TableInv
    <2> HIDE DEF accepted
    <2>6. job' \in JobRows /\ job'.block <= MaxBlocks /\ job'.status = "confirmed"
      <3>1. \A b \in Nat : LET new == [job EXCEPT !.status = "confirmed", !.hash = TRUE,
                                                  !.block = b]
                           IN  new \in JobRows /\ new.block = b /\ new.status = "confirmed"
        BY <1>2 DEF JobRows
      <3>2. Max(accepted) \in Nat /\ Max(accepted) <= MaxBlocks
        BY <2>2, <2>4
      <3>3. /\ job' \in JobRows /\ job'.block = Max(accepted)
            /\ job'.status = "confirmed"
        BY <2>1, <3>1, <3>2
      <3>4. QED
        BY <3>2, <3>3
    <2>7. ChainInv' /\ TableInv'
      BY <2>1, <2>6 DEF ReplicaInv, ChainInv, TableInv, MaxBlocks, chainVars
    <2>8. OutcomesAreFinal'
      BY <2>1, <2>5, <2>6 DEF OutcomesAreFinal, Outcome, chainVars
    <2>9. QED
      BY <1>1, <2>7, <2>8 DEF ReplicaInv
  <1>5. QED
    BY <1>3, <1>4
LEMMA ReadJobReplica ==
    ASSUME ReplicaInv, NEW i \in Indexers, UNCHANGED deployment, ReadJob(i)
    PROVE  ReplicaInv'
  <1> DEFINE t == tick[i]
             verdict(n) == IF ~TransactionIsFinalized(i, n) THEN "submitted"
                           ELSE IF Outcome(n) = "reverted"
                           THEN "ethereum_reverted" ELSE "confirmed"
             new(n, s) == [t EXCEPT !.at = "status", !.block = n, !.status = s]
  <1>1. TickOK(t) /\ t \in Ticks
    BY TickHolds
  <1> DEFINE step(n, s) == [tick EXCEPT ![i].at = "status", ![i].block = n, ![i].status = s]
  <1>2. PICK n \in Receipts : tick' = [tick EXCEPT ![i] = new(n, verdict(n))]
    <2>1. ASSUME NEW n, NEW s
          PROVE  step(n, s) = [tick EXCEPT ![i] = new(n, s)]
      BY <1>1, TickHolds
    <2>2. PICK n \in Receipts : tick' = step(n, verdict(n))
      BY DEF ReadJob
    <2> HIDE DEF step, new, verdict
    <2>3. QED
      BY <2>1, <2>2
  <1>3. n \in 1..MaxBlocks /\ n \in DOMAIN chain /\ Outcome(n) # "none"
    BY TickHolds DEF Receipts
  <1>4. made[chain[n]] \in MadeBlocks
    <2>1. chain[n] \in 1..Len(made)
      BY <1>3, TickHolds
    <2>2. QED
      BY <2>1 DEF ReplicaInv, ChainInv
  <1>5. Outcome(n) \in {"accepted", "reverted"}
    BY <1>3, <1>4 DEF Outcome, MadeBlocks
  <1>6. TransactionIsFinalized(i, n) => n \in 1..final
    <2>1. t.fin \in Nat /\ t.fin <= final
      BY <1>1 DEF TickOK, Ticks
    <2>2. QED
      BY <1>3, <2>1, TickHolds DEF TransactionIsFinalized
  <1>7. /\ verdict(n) \in {"submitted", "confirmed", "ethereum_reverted"}
        /\ verdict(n) = "confirmed" => Happened("accepted")
        /\ verdict(n) = "ethereum_reverted" => Happened("reverted")
    BY <1>5, <1>6 DEF Happened
  <1> HIDE DEF verdict
  <1>8. ASSUME NEW s \in {"submitted", "confirmed", "ethereum_reverted"}
        PROVE  /\ new(n, s) \in Ticks /\ new(n, s).head = t.head
               /\ new(n, s).fin = t.fin /\ new(n, s).next = t.next
               /\ new(n, s).id = t.id /\ new(n, s).block = n
               /\ new(n, s).at = "status" /\ new(n, s).status = s
    <2>1. n \in Nat
      BY <1>3, TickHolds
    <2>2. QED
      BY <1>1, <2>1 DEF Ticks, Phases
  <1> HIDE DEF new
  <1>9. n <= MaxBlocks
    BY <1>3, TickHolds
  <1>10. TickOK(new(n, verdict(n)))
    BY <1>1, <1>7, <1>8, <1>9 DEF TickOK
  <1>11. QED
    BY <1>2, <1>10, QuietTick DEF ReadJob

LEMMA WriteStatusReplica ==
    ASSUME ReplicaInv, NEW i \in Indexers, UNCHANGED deployment, WriteStatus(i)
    PROVE  ReplicaInv'
  <1> DEFINE t == tick[i]
             row(s, b) == [job EXCEPT !.status = s, !.block = b]
             block == IF t.status = "ethereum_reverted" THEN job.block ELSE t.block
  <1>1. TickInv'
    BY GotoTick DEF WriteStatus
  <1>2. TickOK(t) /\ t \in Ticks /\ t.at = "status"
    BY TickHolds DEF WriteStatus, At
  <1>3. job \in JobRows /\ job.block <= MaxBlocks
    BY DEF ReplicaInv, TableInv
  <1>4. /\ t.status \in {"submitted", "confirmed", "ethereum_reverted"}
        /\ t.status = "confirmed" => Happened("accepted")
        /\ t.status = "ethereum_reverted" => Happened("reverted")
    BY <1>2 DEF TickOK, Ticks
  <1>5. block \in Nat /\ block <= MaxBlocks
    BY <1>2, <1>3 DEF TickOK, Ticks, JobRows
  <1>6. job' = row(t.status, block)
    BY DEF WriteStatus
  <1>7. ASSUME NEW s \in {"submitted", "confirmed", "ethereum_reverted"}, NEW b \in Nat
        PROVE  row(s, b) \in JobRows /\ row(s, b).status = s /\ row(s, b).block = b
    BY <1>3 DEF JobRows
  <1> HIDE DEF row, block
  <1>8. job' \in JobRows /\ job'.block <= MaxBlocks /\ job'.status = t.status
    BY <1>4, <1>5, <1>6, <1>7
  <1>9. ChainInv' /\ TableInv'
    BY <1>8 DEF WriteStatus, ReplicaInv, ChainInv, TableInv, MaxBlocks, chainVars
  <1>10. OutcomesAreFinal'
    BY <1>4, <1>8 DEF WriteStatus, OutcomesAreFinal, Happened, Outcome, chainVars
  <1>11. QED
    BY <1>1, <1>9, <1>10 DEF ReplicaInv

LEMMA SendReplica ==
    ASSUME ReplicaInv, Send, UNCHANGED deployment
    PROVE  ReplicaInv'
  <1>1. job \in JobRows /\ job.block <= MaxBlocks
    BY DEF ReplicaInv, TableInv
  <1>2. job' \in JobRows /\ job'.block = job.block /\ job'.status = "submitted"
    BY <1>1 DEF Send, JobRows
  <1>3. ChainInv' /\ TableInv'
    BY <1>1, <1>2 DEF Send, ReplicaInv, ChainInv, TableInv, MaxBlocks, chainVars
  <1>4. TickInv'
    BY DEF Send, ReplicaInv, TickInv, TickOK, Happened, Outcome, Indexers, MaxBlocks,
           chainVars
  <1>5. OutcomesAreFinal'
    BY <1>2 DEF OutcomesAreFinal
  <1>6. QED
    BY <1>3, <1>4, <1>5 DEF ReplicaInv

LEMMA NextReplicas == ReplicaInv /\ [Next]_vars => ReplicaInv'
  <1> SUFFICES ASSUME ReplicaInv, [Next]_vars PROVE ReplicaInv'
    OBVIOUS
  <1>1. CASE UNCHANGED vars
    BY <1>1 DEF ReplicaInv, ChainInv, TableInv, TickInv, TickOK, OutcomesAreFinal,
                Happened, Outcome, Indexers, MaxBlocks, vars, chainVars
  <1>2. CASE Next
    <2>1. UNCHANGED deployment
      BY <1>2 DEF Next
    <2>2. CASE Mine \/ Finalize \/ Reorg \/ Send
      BY <2>1, <2>2, ChainSteps, SendReplica
    <2>3. ASSUME NEW i \in Indexers, Replica(i) PROVE ReplicaInv'
      BY <2>1, <2>3, BeginReplica, CheckTipReplica, FetchReplica, RollBackReplica,
         ReadLatestReplica, InsertReplica, FinishReplica, RecoverReplica,
         ReadJobReplica, WriteStatusReplica, EndsReplica DEF Replica
    <2>4. QED
      BY <1>2, <2>2, <2>3 DEF Next
  <1>3. QED
    BY <1>1, <1>2

LEMMA ReplicasHold == Spec => []ReplicaInv
  BY InitReplicas, NextReplicas, PTL DEF Spec

\* For any number of replicas: a job is recorded as confirmed or as reverted
\* only on that outcome in a consensus-final block, whatever another replica
\* rolls back between the read and the write (reconcile_jobs).
THEOREM OutcomesCorrect == Spec => []OutcomesAreFinal
  <1>1. ReplicaInv => OutcomesAreFinal
    BY DEF ReplicaInv
  <1>2. QED
    BY <1>1, ReplicasHold, PTL
\* Rows and marks are of mined blocks and indexed heights.
THEOREM TypeCorrect == Spec => []TypeOK
  <1>1. ReplicaInv => TypeOK
    <2> SUFFICES ASSUME ReplicaInv PROVE TypeOK
      OBVIOUS
    <2>1. \A i \in Indexers : tick[i].next \in 0..(MaxBlocks + 1)
      BY TickHolds DEF TickOK, Ticks
    <2>2. /\ job.status \in {"queued", "submitted", "confirmed", "ethereum_reverted"}
          /\ job.block \in 0..MaxBlocks
      BY BoundsNat DEF ReplicaInv, TableInv, JobRows
    <2>3. QED
      BY <2>1, <2>2 DEF ReplicaInv, TableInv, TypeOK
  <1>2. QED
    BY <1>1, ReplicasHold, PTL

-----------------------------------------------------------------------------
(* One indexer.                                                            *)

LEMMA OnlyIndexer ==
    ASSUME TableInv, Alone, NEW i \in Indexers
    PROVE  Indexers = {i}
  <1>1. PICK x : Indexers = {x}
    BY BoundsNat, FS_Singleton DEF Alone
  <1>2. QED
    BY <1>1

LEMMA MaxUpTo ==
    ASSUME NEW h \in Nat
    PROVE  Max({0} \union 1..h) = h
  <1> DEFINE T == {0} \union 1..h
  <1>1. T \in SUBSET (0..h) /\ h \in T
    OBVIOUS
  <1>2. Max(T) \in T /\ Max(T) >= h
    <2> HIDE DEF T
    <2> QED BY <1>1, MaxMember
  <1>3. QED
    BY <1>1, <1>2

LEMMA AloneStep ==
    ASSUME ReplicaInv, AloneInv, UNCHANGED deployment, NEW i \in Indexers,
           Alone => RowsLinked' /\ CursorOK(tick[i])' /\ NothingIsLost'
    PROVE  AloneInv'
  <1>1. Alone' = Alone /\ Indexers' = Indexers
    BY DEF Alone, Indexers
  <1>2. Alone => Indexers = {i}
    BY OnlyIndexer DEF ReplicaInv
  <1>3. QED
    BY <1>1, <1>2 DEF AloneInv

LEMMA QuietAlone ==
    ASSUME ReplicaInv, AloneInv, NEW i \in Indexers,
           UNCHANGED <<deployment, chainVars, blocks, marks, job>>,
           Alone => CursorOK(tick[i])'
    PROVE  AloneInv'
  <1>1. Alone => RowsLinked' /\ NothingIsLost'
    BY DEF AloneInv, RowsLinked, NothingIsLost, JobIsFollowed, FinalBlocksTrue, Alone,
           Indexers, Highest, chainVars
  <1>2. QED
    BY <1>1, AloneStep

LEMMA InitAlone == Init => AloneInv
  <1> SUFFICES ASSUME Init, Alone
               PROVE  RowsLinked /\ (\A i \in Indexers : CursorOK(tick[i])) /\ NothingIsLost
    BY DEF AloneInv
  <1>1. DOMAIN blocks = {} /\ marks = {} /\ job.status = "queued"
    BY DEF Init, Queued
  <1>2. \A i \in Indexers : tick[i].at = "idle"
    BY DEF Init, Idle
  <1>3. Highest = 0
    <2>1. {0} \union DOMAIN blocks = {0} \union 1..0
      BY <1>1
    <2>2. QED
      BY <2>1, MaxUpTo DEF Highest
  <1>4. RowsLinked
    BY <1>1, <1>3 DEF RowsLinked
  <1>5. \A i \in Indexers : CursorOK(tick[i])
    BY <1>2 DEF CursorOK
  <1>6. NothingIsLost
    BY <1>1 DEF NothingIsLost, JobIsFollowed, FinalBlocksTrue
  <1>7. QED
    BY <1>4, <1>5, <1>6

LEMMA ChainAlone ==
    ASSUME ReplicaInv, AloneInv, Mine \/ Finalize \/ Reorg, UNCHANGED deployment
    PROVE  AloneInv'
  <1> SUFFICES ASSUME Alone
               PROVE  /\ RowsLinked' /\ NothingIsLost'
                      /\ \A i \in Indexers : CursorOK(tick[i])'
    BY DEF AloneInv, Alone, Indexers
  <1>1. ChainKept /\ UNCHANGED <<blocks, marks, job, ready, tick>>
    BY ChainSteps DEF Mine, Finalize, Reorg
  <1>2. Highest' = Highest
    BY <1>1 DEF Highest
  <1>3. RowsLinked'
    BY <1>1, <1>2 DEF AloneInv, RowsLinked, ReplicaInv, TableInv, ChainKept
  <1>4. ASSUME NEW i \in Indexers PROVE CursorOK(tick[i])'
    <2>1. tick[i].at = "insert" => made'[tick[i].id] = made[tick[i].id]
      BY <1>1, TickHolds DEF TickOK, ChainKept
    <2>2. QED
      BY <1>1, <1>2, <2>1 DEF AloneInv, CursorOK
  <1>5. NothingIsLost'
    <2>1. ASSUME NEW m \in marks, NEW n \in 1..m
          PROVE  n \in DOMAIN blocks /\ blocks[n] = chain'[n]
      <3>1. n \in 1..final
        BY DEF ReplicaInv, TableInv, ChainInv
      <3>2. n \in DOMAIN blocks /\ blocks[n] = chain[n]
        BY DEF AloneInv, NothingIsLost, FinalBlocksTrue
      <3>3. QED
        BY <1>1, <3>1, <3>2 DEF ChainKept
    <2>2. QED
      BY <1>1, <2>1 DEF AloneInv, NothingIsLost, JobIsFollowed, FinalBlocksTrue
  <1>6. QED
    BY <1>3, <1>4, <1>5

LEMMA SendAlone ==
    ASSUME ReplicaInv, AloneInv, Send, UNCHANGED deployment
    PROVE  AloneInv'
  <1>1. job' \in JobRows /\ job'.hash = TRUE
    BY DEF ReplicaInv, TableInv, JobRows, Send
  <1>2. UNCHANGED <<chainVars, blocks, marks, tick>>
    BY DEF Send
  <1>3. QED
    BY <1>1, <1>2 DEF AloneInv, RowsLinked, CursorOK, NothingIsLost, JobIsFollowed,
                      FinalBlocksTrue, Alone, Indexers, Highest, chainVars

\* Steps of a tick that neither read the tables nor write them.
LEMMA EasyAlone ==
    ASSUME ReplicaInv, AloneInv, NEW i \in Indexers, UNCHANGED deployment,
           Begin(i) \/ EndTick(i) \/ TickFails(i)
    PROVE  AloneInv'
  <1>1. UNCHANGED <<chainVars, blocks, marks, job>>
    BY DEF Begin, EndTick, TickFails
  <1>2. tick'[i].at \in {"tip", "idle"}
    <2>1. tick \in [Indexers -> Ticks]
      BY DEF ReplicaInv, TickInv
    <2>2. CASE Begin(i)
      BY <2>1, <2>2 DEF Begin, Idle
    <2>3. CASE EndTick(i) \/ TickFails(i)
      BY <2>1, <2>3 DEF EndTick, TickFails, Idle
    <2>4. QED
      BY <2>2, <2>3
  <1>3. CursorOK(tick[i])'
    BY <1>2 DEF CursorOK
  <1>4. QED
    BY <1>1, <1>3, QuietAlone

LEMMA CheckTipAlone ==
    ASSUME ReplicaInv, AloneInv, NEW i \in Indexers, UNCHANGED deployment, CheckTip(i)
    PROVE  AloneInv'
  <1> DEFINE t == tick[i]
             a == CommonAncestor(t.head)
  <1>1. UNCHANGED <<chainVars, blocks, marks, job>> /\ Highest' = Highest
    BY DEF CheckTip, Highest
  <1>2. t \in Ticks /\ t.head \in Nat /\ a \in 0..t.head /\ Highest \in Nat
    BY TickHolds, AncestorFound DEF Ticks
  <1>3. CASE TipMoved(i)
    <2>1. tick'[i] = [t EXCEPT !.at = "rollback", !.next = 0, !.ancestor = a]
      BY <1>3 DEF CheckTip, ReplicaInv, TickInv
    <2>2. tick'[i].at = "rollback" /\ tick'[i].next = 0 /\ tick'[i].ancestor = a
      BY <1>2, <2>1 DEF Ticks
    <2>3. Highest >= t.head
      BY <1>2, <1>3 DEF TipMoved
    <2>4. CursorOK(tick[i])'
      BY <1>1, <1>2, <2>2, <2>3 DEF CursorOK
    <2>5. QED
      BY <1>1, <2>4, QuietAlone
  <1>4. CASE ~TipMoved(i)
    <2>1. tick'[i] = [t EXCEPT !.at = "fetch", !.next = Highest + 1]
      BY <1>4 DEF CheckTip, ReplicaInv, TickInv
    <2>2. tick'[i].at = "fetch" /\ tick'[i].next = Highest + 1
      BY <1>2, <2>1 DEF Ticks
    <2>3. CursorOK(tick[i])'
      BY <1>1, <2>2 DEF CursorOK
    <2>4. QED
      BY <1>1, <2>3, QuietAlone
  <1>5. QED
    BY <1>3, <1>4

LEMMA ReadLatestAlone ==
    ASSUME ReplicaInv, AloneInv, NEW i \in Indexers, UNCHANGED deployment, ReadLatest(i)
    PROVE  AloneInv'
  <1>1. UNCHANGED <<chainVars, blocks, marks, job>> /\ Highest' = Highest
    BY DEF ReadLatest, Highest
  <1>2. tick'[i].at = "fetch" /\ tick'[i].next = Highest + 1
    <2>1. tick \in [Indexers -> Ticks] /\ tick[i] \in Ticks
      BY DEF ReplicaInv, TickInv
    <2>2. QED
      BY <2>1 DEF ReadLatest, Ticks
  <1>3. CursorOK(tick[i])'
    BY <1>1, <1>2 DEF CursorOK
  <1>4. QED
    BY <1>1, <1>3, QuietAlone
\* The block fetched is the cursor's; where its parent is not the row below,
\* the common ancestor is further down.
LEMMA FetchAlone ==
    ASSUME ReplicaInv, AloneInv, NEW i \in Indexers, UNCHANGED deployment, FetchBlock(i)
    PROVE  AloneInv'
  <1> DEFINE t == tick[i]
             n == t.next
             a == CommonAncestor(n - 1)
             differs == n - 1 \in DOMAIN blocks /\ blocks[n - 1] # made[chain[n]].parent
  <1>1. UNCHANGED <<chainVars, blocks, marks, job>> /\ Highest' = Highest
    BY DEF FetchBlock, Highest
  <1> SUFFICES ASSUME Alone PROVE CursorOK(tick[i])'
    BY <1>1, QuietAlone
  <1>2. t \in Ticks /\ n \in 1..MaxBlocks /\ n \in DOMAIN chain /\ chain[n] \in 1..Len(made)
        /\ Highest \in Nat /\ MaxBlocks \in Nat
    BY TickHolds DEF FetchBlock
  <1>3. n = Highest + 1 /\ DOMAIN blocks = 1..Highest
    BY DEF AloneInv, CursorOK, RowsLinked, FetchBlock, At
  <1>4. a \in 0..(n - 1) /\ (a = 0 \/ a \notin DOMAIN blocks \/ blocks[a] = chain[a])
    <2>1. n - 1 \in Nat
      BY <1>2
    <2>2. QED
      BY <2>1, AncestorFound
  <1>5. CASE differs
    <2>1. tick'[i] = [t EXCEPT !.at = "rollback", !.id = chain[n], !.ancestor = a]
      BY <1>5 DEF FetchBlock, ReplicaInv, TickInv
    <2>2. tick'[i].at = "rollback" /\ tick'[i].next = n /\ tick'[i].ancestor = a
      BY <1>2, <2>1 DEF Ticks
    <2>3. n > 1 /\ made[chain[n]].parent = chain[n - 1]
      <3>1. n > 1
        BY <1>2, <1>3, <1>5
      <3>2. QED
        BY <1>2, <3>1 DEF ReplicaInv, ChainInv
    <2>4. a # n - 1
      BY <1>2, <1>4, <1>5, <2>3
    <2> HIDE DEF a
    <2>5. a <= Highest /\ n # a + 1
      BY <1>2, <1>3, <1>4, <2>4
    <2>6. QED
      BY <1>1, <2>2, <2>5 DEF CursorOK
  <1>6. CASE ~differs
    <2>1. tick'[i] = [t EXCEPT !.at = "insert", !.id = chain[n]]
      BY <1>6 DEF FetchBlock, ReplicaInv, TickInv
    <2>2. tick'[i].at = "insert" /\ tick'[i].next = n /\ tick'[i].id = chain[n]
      BY <1>2, <2>1 DEF Ticks
    <2>3. n > 1 => made[chain[n]].parent = blocks[n - 1]
      <3>1. n > 1 => n - 1 \in DOMAIN blocks
        BY <1>2, <1>3
      <3>2. QED
        BY <1>6, <3>1
    <2>4. QED
      BY <1>1, <1>3, <2>2, <2>3 DEF CursorOK, chainVars
  <1>7. QED
    BY <1>5, <1>6

LEMMA RollBackAlone ==
    ASSUME ReplicaInv, AloneInv, NEW i \in Indexers, UNCHANGED deployment, RollBack(i)
    PROVE  AloneInv'
  <1> SUFFICES ASSUME Alone
               PROVE  RowsLinked' /\ CursorOK(tick[i])' /\ NothingIsLost'
    BY AloneStep
  <1> DEFINE t == tick[i]
             n == t.ancestor
  <1>1. t \in Ticks /\ n \in Nat /\ n <= Highest /\ t.next # n + 1 /\ Highest \in Nat
    BY TickHolds DEF AloneInv, CursorOK, RollBack, At, Ticks
  <1>2. /\ DOMAIN blocks' = {k \in DOMAIN blocks : k <= n}
        /\ \A k \in DOMAIN blocks' : blocks'[k] = blocks[k]
        /\ UNCHANGED <<chainVars, marks>>
        /\ \A k \in marks : k <= n
    BY DEF RollBack, CanonicalRows
  <1>3. DOMAIN blocks = 1..Highest
    BY DEF AloneInv, RowsLinked
  <1>4. DOMAIN blocks' = 1..n
    BY <1>1, <1>2, <1>3
  <1>5. Highest' = n
    BY <1>1, <1>4, MaxUpTo DEF Highest
  <1>6. RowsLinked'
    <2>1. ASSUME NEW k \in 1..n, k > 1
          PROVE  made[blocks'[k]].parent = blocks'[k - 1]
      <3>1. k - 1 \in 1..n /\ k \in DOMAIN blocks
        BY <1>1, <1>3, <2>1
      <3>2. blocks'[k] = blocks[k] /\ blocks'[k - 1] = blocks[k - 1]
        BY <1>2, <1>4, <3>1
      <3>3. QED
        BY <2>1, <3>1, <3>2 DEF AloneInv, RowsLinked
    <2>2. QED
      BY <1>2, <1>4, <1>5, <2>1 DEF RowsLinked, chainVars
  <1>7. CursorOK(tick[i])'
    <2>1. tick'[i] = IF t.next = 0 THEN [t EXCEPT !.at = "latest"] ELSE Idle
      BY <1>1 DEF RollBack, ReplicaInv, TickInv
    <2>2. tick'[i].at \in {"latest", "idle"}
      BY <1>1, <2>1 DEF Ticks, Idle
    <2>3. QED
      BY <2>2 DEF CursorOK
  <1>8. JobIsFollowed'
    <2>1. job \in JobRows /\ (job' = job \/ job'.status = "queued")
      <3>1. job \in JobRows
        BY DEF ReplicaInv, TableInv
      <3>2. QED
        BY <3>1 DEF RollBack, Requeued, JobRows
    <2>2. QED
      BY <2>1 DEF AloneInv, NothingIsLost, JobIsFollowed
  <1>9. FinalBlocksTrue'
    <2>1. ASSUME NEW m \in marks, NEW k \in 1..m
          PROVE  k \in DOMAIN blocks' /\ blocks'[k] = chain[k]
      <3>1. k \in DOMAIN blocks /\ blocks[k] = chain[k]
        BY DEF AloneInv, NothingIsLost, FinalBlocksTrue
      <3>2. m \in Nat /\ m <= n
        BY <1>2 DEF ReplicaInv, TableInv
      <3>3. k <= n
        BY <1>1, <3>2
      <3>4. QED
        BY <1>2, <3>1, <3>3
    <2>2. QED
      BY <1>2, <2>1 DEF FinalBlocksTrue, chainVars
  <1>10. QED
    BY <1>6, <1>7, <1>8, <1>9 DEF NothingIsLost

LEMMA InsertAlone ==
    ASSUME ReplicaInv, AloneInv, NEW i \in Indexers, UNCHANGED deployment, InsertBlock(i)
    PROVE  AloneInv'
  <1> SUFFICES ASSUME Alone
               PROVE  RowsLinked' /\ CursorOK(tick[i])' /\ NothingIsLost'
    BY AloneStep
  <1> DEFINE t == tick[i]
             n == t.next
  <1>1. t \in Ticks /\ n = Highest + 1 /\ Highest \in Nat /\ n \in Nat
    BY TickHolds DEF AloneInv, CursorOK, InsertBlock, At, Ticks
  <1>2. n > 1 => made[t.id].parent = blocks[n - 1]
    BY DEF AloneInv, CursorOK, InsertBlock, At
  <1>3. /\ DOMAIN blocks' = DOMAIN blocks \union {n}
        /\ \A k \in DOMAIN blocks' : blocks'[k] = IF k = n THEN t.id ELSE blocks[k]
        /\ marks' = marks \ {n} /\ UNCHANGED <<chainVars, job>>
    BY DEF InsertBlock
  <1>4. DOMAIN blocks = 1..Highest
    BY DEF AloneInv, RowsLinked
  <1>5. DOMAIN blocks' = 1..n
    BY <1>1, <1>3, <1>4
  <1>6. Highest' = n
    BY <1>1, <1>5, MaxUpTo DEF Highest
  <1>7. \A k \in DOMAIN blocks : k # n /\ k \in DOMAIN blocks' /\ blocks'[k] = blocks[k]
    BY <1>1, <1>3, <1>4
  <1>8. RowsLinked'
    <2>1. ASSUME NEW k \in 1..n, k > 1
          PROVE  made[blocks'[k]].parent = blocks'[k - 1]
      <3>1. k - 1 \in DOMAIN blocks
        BY <1>1, <1>4, <2>1
      <3>2. CASE k = n
        BY <1>2, <1>3, <1>5, <1>7, <2>1, <3>1, <3>2
      <3>3. CASE k # n
        <4>1. k \in DOMAIN blocks
          BY <1>1, <1>4, <3>3
        <4>2. QED
          BY <1>7, <2>1, <3>1, <4>1 DEF AloneInv, RowsLinked
      <3>4. QED
        BY <3>2, <3>3
    <2>2. QED
      BY <1>3, <1>5, <1>6, <2>1 DEF RowsLinked, chainVars
  <1>9. CursorOK(tick[i])'
    <2>1. tick'[i].at = "fetch" /\ tick'[i].next = n + 1
      <3>1. tick \in [Indexers -> Ticks]
        BY DEF ReplicaInv, TickInv
      <3>2. QED
        BY <1>1, <3>1 DEF InsertBlock, Ticks
    <2>2. QED
      BY <1>6, <2>1 DEF CursorOK
  <1>10. NothingIsLost'
    <2>1. ASSUME NEW m \in marks, NEW k \in 1..m
          PROVE  k \in DOMAIN blocks' /\ blocks'[k] = chain[k]
      BY <1>7 DEF AloneInv, NothingIsLost, FinalBlocksTrue
    <2>2. QED
      BY <1>3, <2>1 DEF AloneInv, NothingIsLost, JobIsFollowed, FinalBlocksTrue, chainVars
  <1>11. QED
    BY <1>8, <1>9, <1>10

\* Where the head is the chain's, so is every row below it.
LEMMA AgreeBelow ==
    ASSUME ReplicaInv, RowsLinked, NEW head \in DOMAIN chain, head \in DOMAIN blocks,
           blocks[head] = chain[head]
    PROVE  \A n \in 1..head : n \in DOMAIN blocks /\ blocks[n] = chain[n]
  <1> DEFINE T == {n \in 1..head : blocks[n] # chain[n]}
  <1>1. head \in Nat /\ head <= Highest /\ Highest \in Nat /\ DOMAIN blocks = 1..Highest
        /\ Len(chain) \in Nat /\ head <= Len(chain) /\ DOMAIN chain = 1..Len(chain)
    BY HighestRow, BoundsNat DEF RowsLinked, ReplicaInv, ChainInv
  <1>2. ASSUME T # {} PROVE FALSE
    <2>1. T \in SUBSET (0..head)
      BY <1>1
    <2>2. PICK x \in T : \A y \in T : x >= y
      <3> HIDE DEF T
      <3> QED BY <1>1, <1>2, <2>1, LargestNat
    <2>3. x \in 1..head /\ blocks[x] # chain[x] /\ x # head
      BY <2>2
    <2>4. x + 1 \in 1..head /\ x + 1 \notin T
      BY <1>1, <2>2, <2>3
    <2>5. blocks[x + 1] = chain[x + 1]
      BY <2>4
    <2>6. x + 1 \in DOMAIN chain /\ x + 1 \in DOMAIN blocks /\ x + 1 > 1 /\ (x + 1) - 1 = x
      BY <1>1, <2>3, <2>4
    <2>7. made[chain[x + 1]].parent = chain[x] /\ made[blocks[x + 1]].parent = blocks[x]
      BY <2>6 DEF RowsLinked, ReplicaInv, ChainInv
    <2>8. QED
      BY <2>3, <2>5, <2>7
  <1>3. QED
    BY <1>1, <1>2

LEMMA FinishAlone ==
    ASSUME ReplicaInv, AloneInv, NEW i \in Indexers, UNCHANGED deployment, FinishBlocks(i)
    PROVE  AloneInv'
  <1> SUFFICES ASSUME Alone
               PROVE  RowsLinked' /\ CursorOK(tick[i])' /\ NothingIsLost'
    BY AloneStep
  <1> DEFINE t == tick[i]
  <1>1. UNCHANGED <<chainVars, blocks, job>> /\ marks' = {k \in DOMAIN blocks : k <= t.fin}
    BY DEF FinishBlocks
  <1>2. RowsLinked /\ RowsLinked'
    BY <1>1 DEF AloneInv, RowsLinked, Highest, chainVars
  <1>3. CursorOK(tick[i])'
    <2>1. tick'[i].at = "recover"
      <3>1. tick \in [Indexers -> Ticks] /\ t \in Ticks
        BY DEF ReplicaInv, TickInv
      <3>2. QED
        BY <3>1 DEF FinishBlocks, Goto, Ticks
    <2>2. QED
      BY <2>1 DEF CursorOK
  <1>4. \A n \in 1..t.head : n \in DOMAIN blocks /\ blocks[n] = chain[n]
    BY <1>2, AgreeBelow DEF FinishBlocks, HeadHeld
  <1>5. ASSUME NEW m \in marks', NEW n \in 1..m
        PROVE  n \in DOMAIN blocks /\ blocks[n] = chain[n]
    <2>1. t.fin \in Nat /\ t.head \in Nat /\ t.fin <= t.head
      BY TickHolds DEF TickOK, Ticks
    <2>2. m \in Nat /\ m <= t.fin
      BY <1>1 DEF ReplicaInv, TableInv
    <2>3. n \in 1..t.head
      BY <2>1, <2>2
    <2>4. QED
      BY <1>4, <2>3
  <1>6. NothingIsLost'
    BY <1>1, <1>5 DEF AloneInv, NothingIsLost, JobIsFollowed, FinalBlocksTrue, chainVars
  <1>7. QED
    BY <1>2, <1>3, <1>6

LEMMA JobAlone ==
    ASSUME ReplicaInv, AloneInv, NEW i \in Indexers, UNCHANGED deployment,
           Recover(i) \/ WriteStatus(i)
    PROVE  AloneInv'
  <1> SUFFICES ASSUME Alone
               PROVE  RowsLinked' /\ CursorOK(tick[i])' /\ NothingIsLost'
    BY AloneStep
  <1>1. UNCHANGED <<chainVars, blocks, marks>>
    BY DEF Recover, WriteStatus
  <1>2. RowsLinked' /\ FinalBlocksTrue'
    BY <1>1 DEF AloneInv, RowsLinked, NothingIsLost, FinalBlocksTrue, Alone, Indexers,
                Highest, chainVars
  <1>3. CursorOK(tick[i])'
    <2>1. tick'[i].at \in {"reconcile", "end"}
      <3>1. tick \in [Indexers -> Ticks] /\ tick[i] \in Ticks
        BY DEF ReplicaInv, TickInv
      <3>2. QED
        BY <3>1 DEF Recover, WriteStatus, Goto, Ticks
    <2>2. QED
      BY <2>1 DEF CursorOK
  <1>4. JobIsFollowed'
    <2>1. job \in JobRows
      BY DEF ReplicaInv, TableInv
    <2>2. CASE Recover(i)
      <3>1. job' = job \/ job'.hash = TRUE
        BY <2>1, <2>2 DEF Recover, JobRows
      <3>2. QED
        BY <3>1 DEF AloneInv, NothingIsLost, JobIsFollowed
    <2>3. CASE WriteStatus(i)
      <3>1. job.hash
        BY <2>3 DEF AloneInv, CursorOK, WriteStatus, At
      <3>2. job'.hash = job.hash
        BY <2>1, <2>3 DEF WriteStatus, JobRows
      <3>3. QED
        BY <3>1, <3>2 DEF JobIsFollowed
    <2>4. QED
      BY <2>2, <2>3
  <1>5. QED
    BY <1>2, <1>3, <1>4 DEF NothingIsLost

LEMMA ReadJobAlone ==
    ASSUME ReplicaInv, AloneInv, NEW i \in Indexers, UNCHANGED deployment, ReadJob(i)
    PROVE  AloneInv'
  <1>1. UNCHANGED <<chainVars, blocks, marks, job>> /\ job.hash
    BY DEF ReadJob, Reconcilable
  <1>2. tick'[i].at = "status"
    <2>1. tick \in [Indexers -> Ticks] /\ tick[i] \in Ticks
      BY DEF ReplicaInv, TickInv
    <2>2. QED
      BY <2>1 DEF ReadJob, Ticks
  <1>3. CursorOK(tick[i])'
    BY <1>1, <1>2 DEF CursorOK
  <1>4. QED
    BY <1>1, <1>3, QuietAlone

LEMMA NextAlone == ReplicaInv /\ AloneInv /\ [Next]_vars => AloneInv'
  <1> SUFFICES ASSUME ReplicaInv, AloneInv, [Next]_vars PROVE AloneInv'
    OBVIOUS
  <1>1. CASE UNCHANGED vars
    BY <1>1 DEF AloneInv, RowsLinked, CursorOK, NothingIsLost, JobIsFollowed,
                FinalBlocksTrue, Alone, Indexers, Highest, vars, chainVars
  <1>2. CASE Next
    <2>1. UNCHANGED deployment
      BY <1>2 DEF Next
    <2>2. CASE Mine \/ Finalize \/ Reorg \/ Send
      BY <2>1, <2>2, ChainAlone, SendAlone
    <2>3. ASSUME NEW i \in Indexers, Replica(i) PROVE AloneInv'
      BY <2>1, <2>3, EasyAlone, CheckTipAlone, FetchAlone, RollBackAlone,
         ReadLatestAlone, InsertAlone, FinishAlone, JobAlone, ReadJobAlone DEF Replica
    <2>4. QED
      BY <1>2, <2>2, <2>3 DEF Next
  <1>3. QED
    BY <1>1, <1>2

\* An indexer that runs alone follows its job by its hash and has indexed every
\* block up to the heights it marks final, whatever fails or is reorganized
\* between the steps of a tick (index_blocks, rollback_canonical_chain).
THEOREM AloneLosesNothing == Spec => []NothingIsLost
  <1>1. AloneInv => NothingIsLost
    BY DEF AloneInv, NothingIsLost, JobIsFollowed, FinalBlocksTrue
  <1>2. QED
    BY <1>1, InitReplicas, NextReplicas, InitAlone, NextAlone, PTL DEF Spec
=============================================================================
