---------------------------- MODULE TablesProofs ----------------------------
(***************************************************************************)
(* The gateway's tables, for any setup: any numbers of blocks, deposits,   *)
(* jobs, reorganizations and lost databases.  The explorer's rows are the  *)
(* chain's events, and in finalized mode one batch at a time is open and   *)
(* the virtual account is a prefix of the finalized outer log.             *)
(***************************************************************************)
EXTENDS GatewayTables, LogLemmas

-----------------------------------------------------------------------------
(* The inductive invariant: the chain and what is indexed of it.           *)

IsLog(s) == s \in Seq(Range(s))

Explorer == {"bridge", "settlement", "claim"}

Scanning == {"transitions", "settlements", "batches", "claims"}

Late == Scanning \union {"recover", "recovering", "reconcile", "reconciling"}

Phases == {"idle", "tip", "blocks"} \union Late

EventRows == [n : Nat, id : Nat, removed : BOOLEAN, batch : BOOLEAN]

ChainTyped ==
    /\ setup \in Setups /\ IsLog(made)
    /\ chain \in Seq(DOMAIN made) /\ fork \in Seq(DOMAIN made) /\ blocks \in Seq(DOMAIN made)
    /\ final \in 0..Len(chain)

IndexTyped ==
    /\ marked \in 0..Len(blocks) /\ last \in 0..Len(blocks)
    /\ rows \in [DOMAIN rows -> EventRows]
    /\ tick \in [at : Phases, head : Nat, fin : Nat, done : {tick.done}]
    /\ tick.at \in Late => tick.head <= Len(blocks)
    /\ tick.at \in Scanning => last < tick.head

\* What is mined was sent.
SentInv ==
    /\ \A tx \in sent \union DOMAIN jobs : Outermost(tx)
    /\ \A ev \in Range(made) : /\ Outermost(ev) => ev \in sent
                               /\ ev.kind = "reverted" => ev.tx \in sent

\* A block has one parent.
Agree(c, d) ==
    \A k \in DOMAIN c \intersect DOMAIN d : c[k] = d[k] => \A i \in 1..k : c[i] = d[i]

\* A transaction is in one block.
Once(c) ==
    \A tx \in sent \union {ev \in Range(made) : ev.kind = "claim"} : \A m, n \in DOMAIN c :
        /\ EventAt(c, m) \in {tx, Reverted(tx)} /\ EventAt(c, n) \in {tx, Reverted(tx)}
        => m = n

ForkInv ==
    /\ Agree(chain, fork) /\ Agree(blocks, chain) /\ Agree(blocks, fork)
    /\ Once(chain) /\ Once(fork)

\* A row is the event of the block that it names.
RowsInv ==
    \A tx \in DOMAIN rows :
        rows[tx].id \in DOMAIN made /\ made[rows[tx].id] = tx /\ tx.kind \in Explorer

\* How far the events of a kind have been read.
Through(kind) ==
    IF \/ At("settlements") /\ kind = "bridge"
       \/ tick.at \in {"batches", "claims"} /\ kind \in {"bridge", "settlement"}
    THEN tick.head ELSE last

\* The event of the block has its row.
Recorded(n) ==
    LET tx == EventAt(chain, n) IN
    tx \in Live(rows) /\ rows[tx].n = n /\ rows[tx].id = chain[n]

\* So have all the blocks that have been read and are still in the chain.
CompleteInv ==
    ~StaleProvider =>
      \A n \in DOMAIN chain \intersect DOMAIN blocks :
        /\ blocks[n] = chain[n] /\ EventAt(chain, n).kind \in Explorer
        /\ n <= Through(EventAt(chain, n).kind)
        => Recorded(n)

IndexInv == ChainTyped /\ IndexTyped /\ SentInv /\ ForkInv /\ RowsInv /\ CompleteInv

-----------------------------------------------------------------------------
(* The inductive invariant in finalized mode: jobs.                        *)

Statuses == {"queued", "submitted", "confirmed", "failed", "reorged", "ethereum_reverted"}

JobRows == [status : Statuses, signed : BOOLEAN, nonce : Nat, block : Nat, recovered : BOOLEAN]

\* What is marked final is final.
FinalInv ==
    /\ marked <= final /\ tick.fin <= final
    /\ \A i \in 1..marked : blocks[i] = chain[i]
    /\ tick.at \in Late => marked = tick.fin

\* The transaction is in a block that is marked final.
InFinal(tx, n) == n \in 1..marked /\ EventAt(blocks, n) = tx

JobsInv ==
    /\ jobs \in [DOMAIN jobs -> JobRows] /\ account.nonce \in Nat
    /\ \A tx \in DOMAIN jobs : jobs[tx].status = "confirmed" => InFinal(tx, jobs[tx].block)
    /\ \A tx \in DOMAIN history : InFinal(tx, history[tx].n)
    /\ \A t, u \in OpenBatches : t = u

\* What the tick has applied and is about to confirm is final.
DoneInv ==
    tick.at \in {"recovering", "reconciling"} =>
        tick.done[1] \in DOMAIN jobs /\ InFinal(tick.done[1], tick.done[2])

-----------------------------------------------------------------------------
(* The chain.                                                              *)

LEMMA ChainTypes ==
    ASSUME ChainTyped
    PROVE  /\ Len(made) \in Nat /\ DOMAIN made = 1..Len(made)
           /\ Len(chain) \in Nat /\ DOMAIN chain = 1..Len(chain)
           /\ Len(fork) \in Nat /\ DOMAIN fork = 1..Len(fork)
           /\ Len(blocks) \in Nat /\ DOMAIN blocks = 1..Len(blocks)
           /\ \A n \in DOMAIN chain : chain[n] \in DOMAIN made
           /\ \A n \in DOMAIN fork : fork[n] \in DOMAIN made
           /\ \A n \in DOMAIN blocks : blocks[n] \in DOMAIN made
           /\ final \in Nat /\ final <= Len(chain)
           /\ Confirmations \in Nat
  <1>1. Len(made) \in Nat /\ DOMAIN made = 1..Len(made)
    BY LenProperties DEF ChainTyped, IsLog
  <1>2. /\ Len(chain) \in Nat /\ DOMAIN chain = 1..Len(chain)
        /\ \A n \in DOMAIN chain : chain[n] \in DOMAIN made
    BY LenProperties, ElementOfSeq DEF ChainTyped
  <1>3. /\ Len(fork) \in Nat /\ DOMAIN fork = 1..Len(fork)
        /\ \A n \in DOMAIN fork : fork[n] \in DOMAIN made
    BY LenProperties, ElementOfSeq DEF ChainTyped
  <1>4. /\ Len(blocks) \in Nat /\ DOMAIN blocks = 1..Len(blocks)
        /\ \A n \in DOMAIN blocks : blocks[n] \in DOMAIN made
    BY LenProperties, ElementOfSeq DEF ChainTyped
  <1>5. Confirmations \in Nat
    BY SetupsAssumption DEF ChainTyped, Confirmations
  <1>6. final \in Nat /\ final <= Len(chain)
    BY <1>2 DEF ChainTyped
  <1>7. QED
    BY <1>1, <1>2, <1>3, <1>4, <1>5, <1>6

\* A log with one more member.
LEMMA LogAppend ==
    ASSUME NEW s, IsLog(s), NEW x
    PROVE  /\ IsLog(Append(s, x)) /\ Range(Append(s, x)) = Range(s) \union {x}
           /\ Len(Append(s, x)) = Len(s) + 1 /\ Append(s, x)[Len(s) + 1] = x
           /\ \A i \in DOMAIN s : Append(s, x)[i] = s[i]
  <1> DEFINE T == Range(s) \union {x}
  <1>1. s \in Seq(T) /\ x \in T
    BY SeqMonotonic DEF IsLog
  <1>2. Len(s) \in Nat /\ DOMAIN s = 1..Len(s)
    BY <1>1, LenProperties
  <1>3. /\ Append(s, x) \in Seq(T) /\ Len(Append(s, x)) = Len(s) + 1
        /\ \A i \in 1..Len(s) : Append(s, x)[i] = s[i]
        /\ Append(s, x)[Len(s) + 1] = x
    BY <1>1, AppendProperties
  <1>4. DOMAIN Append(s, x) = 1..(Len(s) + 1)
    BY <1>3, LenProperties
  <1>5. Range(Append(s, x)) = T
    BY <1>2, <1>3, <1>4 DEF Range
  <1>6. QED
    BY <1>2, <1>3, <1>5 DEF IsLog

\* A hash keeps its event.
LEMMA Mined ==
    ASSUME ChainTyped, NEW ev, Mine(ev)
    PROVE  /\ IsLog(made') /\ DOMAIN made' = 1..(Len(made) + 1) /\ DOMAIN made \subseteq DOMAIN made'
           /\ Range(made') = Range(made) \union {ev} /\ Len(made') = Len(made) + 1
           /\ \A h \in DOMAIN made : made'[h] = made[h]
           /\ made'[Len(made) + 1] = ev
           /\ chain' \in Seq(DOMAIN made') /\ Len(chain') = Len(chain) + 1
           /\ DOMAIN chain' = 1..(Len(chain) + 1)
           /\ \A n \in DOMAIN chain : chain'[n] = chain[n]
           /\ chain'[Len(chain) + 1] = Len(made) + 1
           /\ UNCHANGED <<setup, final, reorgs, fork, sent>>
  <1>1. /\ made' = Append(made, ev) /\ chain' = Append(chain, Len(made) + 1)
        /\ UNCHANGED <<setup, final, reorgs, fork, sent>>
    BY DEF Mine
  <1>2. IsLog(made) /\ Len(made) \in Nat /\ DOMAIN made = 1..Len(made)
    BY ChainTypes DEF ChainTyped
  <1>3. /\ IsLog(made') /\ Range(made') = Range(made) \union {ev} /\ Len(made') = Len(made) + 1
        /\ \A h \in DOMAIN made : made'[h] = made[h]
        /\ made'[Len(made) + 1] = ev
    BY <1>1, <1>2, LogAppend
  <1>4. DOMAIN made' = 1..(Len(made) + 1)
    BY <1>3, LenProperties DEF IsLog
  <1>5. DOMAIN made \subseteq DOMAIN made' /\ Len(made) + 1 \in DOMAIN made'
    BY <1>2, <1>4
  <1>6. chain \in Seq(DOMAIN made')
    BY <1>5, SeqMonotonic DEF ChainTyped
  <1>7. /\ chain' \in Seq(DOMAIN made') /\ Len(chain') = Len(chain) + 1
        /\ \A n \in 1..Len(chain) : chain'[n] = chain[n]
        /\ chain'[Len(chain) + 1] = Len(made) + 1
    BY <1>1, <1>5, <1>6, AppendProperties
  <1>8. DOMAIN chain' = 1..(Len(chain) + 1) /\ DOMAIN chain = 1..Len(chain)
    BY <1>7, LenProperties, ChainTypes
  <1>9. QED
    BY <1>1, <1>3, <1>4, <1>5, <1>7, <1>8
\* What may be mined: nothing that is in the chain already.
Fresh(ev) ==
    /\ Outermost(ev) => ev \in sent
    /\ ev.kind = "reverted" => ev.tx \in sent
    /\ \A tx \in sent \union {e \in Range(made) \union {ev} : e.kind = "claim"} :
         ev \in {tx, Reverted(tx)} =>
           \A n \in DOMAIN chain : EventAt(chain, n) \notin {tx, Reverted(tx)}

LEMMA KindsApart ==
    ASSUME NEW tx, Outermost(tx) \/ tx.kind = "claim"
    PROVE  /\ \A u : tx # Reverted(u)
           /\ \A u : Reverted(tx) = Reverted(u) => tx = u
           /\ Reverted(tx).kind = "reverted" /\ Reverted(tx).tx = tx
           /\ ~Outermost(Reverted(tx)) /\ tx.kind # "reverted" /\ tx.kind # "deposit"
  <1>1. \A u : Reverted(u).kind = "reverted" /\ Reverted(u).tx = u
    BY DEF Reverted
  <1>2. tx.kind \in {"bridge", "settlement", "claim"}
    BY DEF Outermost
  <1>3. tx.kind # "reverted" /\ tx.kind # "deposit"
    BY <1>2
  <1>4. \A u : ~Outermost(Reverted(u))
    BY <1>1 DEF Outermost
  <1>5. QED
    BY <1>1, <1>3, <1>4

LEMMA EventMade ==
    ASSUME ChainTyped
    PROVE  /\ \A n \in DOMAIN chain : EventAt(chain, n) \in Range(made)
           /\ \A n \in DOMAIN fork : EventAt(fork, n) \in Range(made)
           /\ \A n \in DOMAIN blocks : EventAt(blocks, n) \in Range(made)
  BY ChainTypes DEF EventAt, Range

LEMMA DepositFresh ==
    ASSUME SentInv, NEW ev, ev.kind = "deposit"
    PROVE  Fresh(ev)
  <1>1. ~Outermost(ev) /\ ev.kind # "reverted" /\ ev.kind # "claim"
    BY DEF Outermost
  <1>2. ASSUME NEW tx \in sent \union {e \in Range(made) \union {ev} : e.kind = "claim"}
        PROVE  ev \notin {tx, Reverted(tx)}
    <2>1. Outermost(tx) \/ tx.kind = "claim"
      BY DEF SentInv
    <2>2. QED
      BY <1>1, <2>1, KindsApart DEF Outermost
  <1>3. QED
    BY <1>1, <1>2 DEF Fresh

LEMMA ClaimFresh ==
    ASSUME ChainTyped, SentInv, NEW ev, ev.kind = "claim",
           \A n \in DOMAIN chain : EventAt(chain, n).kind # "claim"
    PROVE  Fresh(ev)
  <1>1. ~Outermost(ev) /\ ev.kind # "reverted"
    BY DEF Outermost
  <1>2. ASSUME NEW tx \in sent \union {e \in Range(made) \union {ev} : e.kind = "claim"},
               ev \in {tx, Reverted(tx)}, NEW n \in DOMAIN chain
        PROVE  EventAt(chain, n) \notin {tx, Reverted(tx)}
    <2>1. Outermost(tx) \/ tx.kind = "claim"
      BY DEF SentInv
    <2>2. ev = tx
      BY <1>1, <1>2, <2>1, KindsApart
    <2>3. Reverted(ev).kind = "reverted" /\ Reverted(ev).tx = ev
      BY KindsApart
    <2>4. EventAt(chain, n) \in Range(made)
      BY EventMade
    <2>5. EventAt(chain, n) # Reverted(ev)
      BY <1>1, <2>3, <2>4 DEF SentInv
    <2>6. QED
      BY <2>2, <2>5
  <1>3. QED
    BY <1>1, <1>2 DEF Fresh

LEMMA SentFresh ==
    ASSUME SentInv, NEW tx \in sent, ~OnChain(tx), NEW ev \in {tx, Reverted(tx)}
    PROVE  Fresh(ev)
  <1>1. Outermost(tx)
    BY DEF SentInv
  <1>2. /\ Reverted(tx).kind = "reverted" /\ Reverted(tx).tx = tx /\ ~Outermost(Reverted(tx))
        /\ tx.kind # "reverted" /\ tx.kind # "claim"
    BY <1>1, KindsApart DEF Outermost
  <1>3. ev.kind # "claim"
    BY <1>2
  <1>4. ASSUME NEW u \in sent \union {e \in Range(made) \union {ev} : e.kind = "claim"},
               ev \in {u, Reverted(u)}
        PROVE  u = tx
    <2>1. Outermost(u) \/ u.kind = "claim"
      BY DEF SentInv
    <2>2. QED
      BY <1>1, <1>4, <2>1, KindsApart
  <1>5. QED
    BY <1>2, <1>4 DEF Fresh, OnChain

LEMMA MineStep ==
    ASSUME IndexInv, NEW ev, Mine(ev), Fresh(ev), UNCHANGED <<indexVars, jobs>>
    PROVE  IndexInv'
  <1>1. ChainTyped /\ IndexTyped /\ SentInv /\ ForkInv /\ RowsInv /\ CompleteInv
    BY DEF IndexInv
  <1>2. UNCHANGED <<blocks, marked, rows, last, tick, jobs>>
    BY DEF indexVars
  <1>3. /\ IsLog(made') /\ DOMAIN made' = 1..(Len(made) + 1) /\ DOMAIN made \subseteq DOMAIN made'
        /\ Range(made') = Range(made) \union {ev} /\ Len(made') = Len(made) + 1
        /\ \A h \in DOMAIN made : made'[h] = made[h]
        /\ made'[Len(made) + 1] = ev
        /\ chain' \in Seq(DOMAIN made') /\ Len(chain') = Len(chain) + 1
        /\ DOMAIN chain' = 1..(Len(chain) + 1)
        /\ \A n \in DOMAIN chain : chain'[n] = chain[n]
        /\ chain'[Len(chain) + 1] = Len(made) + 1
        /\ UNCHANGED <<setup, final, reorgs, fork, sent>>
    BY <1>1, Mined
  <1>4. /\ Len(made) \in Nat /\ DOMAIN made = 1..Len(made)
        /\ Len(chain) \in Nat /\ DOMAIN chain = 1..Len(chain)
        /\ \A n \in DOMAIN chain : chain[n] \in DOMAIN made
        /\ \A n \in DOMAIN fork : fork[n] \in DOMAIN made
        /\ \A n \in DOMAIN blocks : blocks[n] \in DOMAIN made
        /\ DOMAIN fork \subseteq Nat /\ DOMAIN blocks \subseteq Nat
        /\ final \in Nat /\ final <= Len(chain)
    BY <1>1, ChainTypes
  <1>5. ChainTyped'
    <2>1. fork \in Seq(DOMAIN made') /\ blocks \in Seq(DOMAIN made')
      BY <1>1, <1>3, SeqMonotonic DEF ChainTyped
    <2>2. final \in 0..Len(chain')
      BY <1>3, <1>4
    <2>3. QED
      BY <1>1, <1>2, <1>3, <2>1, <2>2 DEF ChainTyped
  <1>6. IndexTyped'
    BY <1>1, <1>2 DEF IndexTyped
  <1>7. SentInv'
    BY <1>1, <1>2, <1>3 DEF SentInv, Fresh
  <1>8. Len(made) + 1 \notin DOMAIN made
    BY <1>4
  <1>9. /\ \A n \in DOMAIN chain : made'[chain'[n]] = EventAt(chain, n)
        /\ made'[chain'[Len(chain) + 1]] = ev
        /\ \A n \in DOMAIN fork : made'[fork'[n]] = EventAt(fork, n)
    <2>1. \A n \in DOMAIN chain : made'[chain'[n]] = EventAt(chain, n)
      BY <1>3, <1>4 DEF EventAt
    <2>2. made'[chain'[Len(chain) + 1]] = ev
      BY <1>3
    <2>3. fork' = fork
      BY <1>3
    <2>4. \A n \in DOMAIN fork : made'[fork'[n]] = EventAt(fork, n)
      BY <1>3, <1>4, <2>3 DEF EventAt
    <2>5. QED
      BY <2>1, <2>2, <2>4
  <1>10. DOMAIN chain' = DOMAIN chain \union {Len(chain) + 1}
    BY <1>3, <1>4
  <1>11. Agree(chain, fork)' /\ Agree(blocks, chain)' /\ Agree(blocks, fork)'
    <2>1. fork' = fork /\ blocks' = blocks
      BY <1>2, <1>3
    <2>2. Agree(chain, fork)'
      <3> SUFFICES ASSUME NEW k \in DOMAIN chain' \intersect DOMAIN fork, chain'[k] = fork[k],
                          NEW i \in 1..k
                   PROVE  chain'[i] = fork[i]
        BY <2>1 DEF Agree
      <3>1. k \in DOMAIN chain
        BY <1>3, <1>4, <1>8, <1>10
      <3>2. i \in DOMAIN chain /\ chain[k] = fork[k]
        BY <1>3, <1>4, <3>1
      <3>3. QED
        BY <1>1, <1>3, <3>1, <3>2 DEF ForkInv, Agree
    <2>3. Agree(blocks, chain)'
      <3> SUFFICES ASSUME NEW k \in DOMAIN chain' \intersect DOMAIN blocks, blocks[k] = chain'[k],
                          NEW i \in 1..k
                   PROVE  blocks[i] = chain'[i]
        BY <2>1 DEF Agree
      <3>1. k \in DOMAIN chain
        BY <1>3, <1>4, <1>8, <1>10
      <3>2. i \in DOMAIN chain /\ chain[k] = blocks[k]
        BY <1>3, <1>4, <3>1
      <3>3. QED
        BY <1>1, <1>3, <3>1, <3>2 DEF ForkInv, Agree
    <2>4. QED
      BY <1>1, <2>1, <2>2, <2>3 DEF ForkInv, Agree
  <1>12. ASSUME NEW tx \in sent' \union {e \in Range(made') : e.kind = "claim"}
         PROVE  \/ tx \in sent \union {e \in Range(made) : e.kind = "claim"}
                \/ tx = ev /\ ev.kind = "claim"
    BY <1>3, <1>12
  <1>13. Once(chain)'
    <2> SUFFICES ASSUME NEW tx \in sent' \union {e \in Range(made') : e.kind = "claim"},
                        NEW m \in DOMAIN chain', NEW n \in DOMAIN chain',
                        made'[chain'[m]] \in {tx, Reverted(tx)},
                        made'[chain'[n]] \in {tx, Reverted(tx)}
                 PROVE  m = n
      BY DEF Once, EventAt
    <2>1. tx \in sent \union {e \in Range(made) \union {ev} : e.kind = "claim"}
      BY <1>12
    <2>2. CASE m = Len(chain) + 1 \/ n = Len(chain) + 1
      <3>1. ev \in {tx, Reverted(tx)}
        BY <1>9, <2>2
      <3>2. \A k \in DOMAIN chain : EventAt(chain, k) \notin {tx, Reverted(tx)}
        BY <2>1, <3>1 DEF Fresh
      <3>3. m \notin DOMAIN chain /\ n \notin DOMAIN chain
        BY <1>9, <3>2
      <3>4. QED
        BY <1>10, <3>3
    <2>3. CASE m \in DOMAIN chain /\ n \in DOMAIN chain
      <3>1. EventAt(chain, m) \in {tx, Reverted(tx)} /\ EventAt(chain, n) \in {tx, Reverted(tx)}
        BY <1>9, <2>3
      <3>2. CASE tx \in sent \union {e \in Range(made) : e.kind = "claim"}
        BY <1>1, <2>3, <3>1, <3>2 DEF ForkInv, Once
      <3>3. CASE tx = ev
        BY <2>1, <2>3, <3>1, <3>3 DEF Fresh
      <3>4. QED
        BY <1>12, <3>2, <3>3
    <2>4. QED
      BY <1>10, <2>2, <2>3
  <1>14. Once(fork)'
    <2> SUFFICES ASSUME NEW tx \in sent' \union {e \in Range(made') : e.kind = "claim"},
                        NEW m \in DOMAIN fork, NEW n \in DOMAIN fork,
                        EventAt(fork, m) \in {tx, Reverted(tx)},
                        EventAt(fork, n) \in {tx, Reverted(tx)}
                 PROVE  m = n
      <3>1. fork' = fork
        BY <1>3
      <3>2. QED
        BY <1>9, <3>1 DEF Once, EventAt
    <2>1. CASE tx \in sent \union {e \in Range(made) : e.kind = "claim"}
      BY <1>1, <2>1 DEF ForkInv, Once
    <2>2. CASE tx = ev /\ ev.kind = "claim"
      <3>1. EventAt(fork, m) \in Range(made) /\ EventAt(fork, n) \in Range(made)
        BY <1>1, EventMade
      <3>2. Reverted(ev).kind = "reverted" /\ Reverted(ev).tx = ev /\ ~Outermost(ev)
        BY <2>2, KindsApart DEF Outermost
      <3>3. EventAt(fork, m) = ev
        BY <1>1, <2>2, <3>1, <3>2 DEF SentInv
      <3>4. ev \in Range(made)
        BY <3>1, <3>3
      <3>5. QED
        BY <2>1, <2>2, <3>4
    <2>3. QED
      BY <1>12, <2>1, <2>2
  <1>15. RowsInv'
    BY <1>1, <1>2, <1>3 DEF RowsInv
  <1>16. CompleteInv'
    <2>1. StaleProvider' = StaleProvider /\ \A kind : Through(kind)' = Through(kind)
      BY <1>2, <1>3 DEF StaleProvider, Through, At
    <2>2. ASSUME ~StaleProvider, NEW n \in DOMAIN chain' \intersect DOMAIN blocks', blocks'[n] = chain'[n]
          PROVE  n \in DOMAIN chain /\ n \in DOMAIN blocks /\ blocks[n] = chain[n]
      BY <1>2, <1>3, <1>4, <1>8, <1>10, <2>2
    <2>3. \A n \in DOMAIN chain : Recorded(n)' <=> Recorded(n)
      BY <1>2, <1>3, <1>9 DEF Recorded, Live, EventAt
    <2>4. QED
      BY <1>1, <1>9, <2>1, <2>2, <2>3 DEF CompleteInv, EventAt
  <1>17. QED
    BY <1>5, <1>6, <1>7, <1>11, <1>13, <1>14, <1>15, <1>16 DEF IndexInv, ForkInv

-----------------------------------------------------------------------------
(* The other steps of the chain, and of the job table.                     *)

LEMMA Cut ==
    ASSUME NEW S, NEW s \in Seq(S), NEW k \in 0..Len(s)
    PROVE  /\ SubSeq(s, 1, k) \in Seq(S) /\ Len(SubSeq(s, 1, k)) = k
           /\ DOMAIN SubSeq(s, 1, k) = 1..k /\ 1..k \subseteq DOMAIN s
           /\ \A i \in 1..k : SubSeq(s, 1, k)[i] = s[i]
  <1>1. Len(s) \in Nat /\ DOMAIN s = 1..Len(s)
    BY LenProperties
  <1>2. 1..k \subseteq DOMAIN s
    BY <1>1
  <1>3. SubSeq(s, 1, k) = [i \in 1..k |-> s[i]]
    BY <1>1
  <1>4. QED
    BY <1>1, <1>2, <1>3, ElementOfSeq

LEMMA FinalizeStep ==
    ASSUME IndexInv, Finalize, UNCHANGED <<indexVars, jobs>>
    PROVE  IndexInv'
  <1>1. /\ UNCHANGED <<setup, chain, made, fork, sent, blocks, marked, rows, last, tick, jobs>>
        /\ final < Len(chain) /\ final' = final + 1
    BY DEF Finalize, indexVars
  <1>2. ChainTyped /\ Len(chain) \in Nat /\ final \in Nat
    BY ChainTypes DEF IndexInv
  <1>3. final' \in 0..Len(chain)
    BY <1>1, <1>2
  <1>4. ChainTyped'
    BY <1>1, <1>2, <1>3 DEF ChainTyped
  <1>5. IndexTyped' /\ SentInv' /\ RowsInv'
    BY <1>1 DEF IndexInv, IndexTyped, SentInv, RowsInv
  <1>6. ForkInv'
    BY <1>1 DEF IndexInv, ForkInv, Agree, Once, EventAt
  <1>7. CompleteInv'
    BY <1>1 DEF IndexInv, CompleteInv, Recorded, StaleProvider, Through, At, EventAt, Live
  <1>8. QED
    BY <1>4, <1>5, <1>6, <1>7 DEF IndexInv

LEMMA ReorgStep ==
    ASSUME IndexInv, Reorg, UNCHANGED <<indexVars, jobs>>
    PROVE  IndexInv'
  <1>1. UNCHANGED <<setup, made, final, sent, blocks, marked, rows, last, tick, jobs>>
    BY DEF Reorg, indexVars
  <1>2. PICK n \in final..(Len(chain) - 1) : chain' = SubSeq(chain, 1, n)
    BY DEF Reorg
  <1>3. ChainTyped /\ IndexTyped /\ SentInv /\ ForkInv /\ RowsInv /\ CompleteInv
    BY DEF IndexInv
  <1>4. /\ Len(chain) \in Nat /\ DOMAIN chain = 1..Len(chain) /\ final \in Nat
        /\ chain \in Seq(DOMAIN made)
    BY <1>3, ChainTypes DEF ChainTyped
  <1>5. n \in 0..Len(chain) /\ final \in 0..n
    BY <1>4
  <1>6. /\ chain' \in Seq(DOMAIN made) /\ Len(chain') = n
        /\ DOMAIN chain' = 1..n /\ 1..n \subseteq DOMAIN chain
        /\ \A i \in 1..n : chain'[i] = chain[i]
    BY <1>2, <1>4, <1>5, Cut
  <1>7. fork' = chain \/ fork' = << >>
    BY DEF Reorg
  <1>8. fork' \in Seq(DOMAIN made)
    BY <1>4, <1>7, EmptySeq
  <1>9. ChainTyped'
    BY <1>1, <1>3, <1>5, <1>6, <1>8 DEF ChainTyped
  <1>10. IndexTyped' /\ SentInv' /\ RowsInv'
    BY <1>1, <1>3 DEF IndexTyped, SentInv, RowsInv
  <1>11. Agree(chain, fork)'
    <2>1. \A k \in 1..n : \A i \in 1..k : i \in 1..n
      BY <1>5
    <2>2. CASE fork' = chain
      BY <1>6, <2>1, <2>2 DEF Agree
    <2>3. CASE fork' = << >>
      BY <2>3 DEF Agree
    <2>4. QED
      BY <1>7, <2>2, <2>3
  <1>12. Agree(blocks, chain)'
    <2>1. \A k \in 1..n : \A i \in 1..k : i \in 1..n
      BY <1>5
    <2>2. blocks' = blocks
      BY <1>1
    <2>3. QED
      BY <1>3, <1>6, <2>1, <2>2 DEF Agree, ForkInv
  <1>13. Agree(blocks, fork)'
    <2>1. CASE fork' = chain
      BY <1>1, <1>3, <2>1 DEF ForkInv, Agree
    <2>2. CASE fork' = << >>
      BY <2>2 DEF Agree
    <2>3. QED
      BY <1>7, <2>1, <2>2
  <1>14. Once(chain)'
    <2>1. made' = made /\ sent' = sent
      BY <1>1
    <2>2. QED
      BY <1>3, <1>6, <2>1 DEF ForkInv, Once, EventAt
  <1>15. Once(fork)'
    <2>1. CASE fork' = chain
      BY <1>1, <1>3, <2>1 DEF ForkInv, Once, EventAt
    <2>2. CASE fork' = << >>
      BY <2>2 DEF Once
    <2>3. QED
      BY <1>7, <2>1, <2>2
  <1>16. CompleteInv'
    <2>1. StaleProvider' = StaleProvider /\ \A kind : Through(kind)' = Through(kind)
      BY <1>1 DEF StaleProvider, Through, At
    <2>2. \A i \in 1..n : made'[chain'[i]] = EventAt(chain, i) /\ (Recorded(i)' <=> Recorded(i))
      BY <1>1, <1>6 DEF Recorded, Live, EventAt
    <2>3. QED
      BY <1>1, <1>3, <1>6, <2>1, <2>2 DEF CompleteInv, EventAt
  <1>17. QED
    BY <1>9, <1>10, <1>11, <1>12, <1>13, <1>14, <1>15, <1>16 DEF IndexInv, ForkInv

LEMMA FlipStep ==
    ASSUME IndexInv, FlipBack, UNCHANGED <<indexVars, jobs>>
    PROVE  IndexInv'
  <1>1. /\ UNCHANGED <<setup, made, final, sent, blocks, marked, rows, last, tick, jobs>>
        /\ StaleProvider /\ IsPrefix(SubSeq(chain, 1, final), fork)
        /\ chain' = fork /\ fork' = << >>
    BY DEF FlipBack, indexVars
  <1>2. ChainTyped /\ IndexTyped /\ SentInv /\ ForkInv /\ RowsInv
    BY DEF IndexInv
  <1>3. final \in 0..Len(fork)
    <2> DEFINE p == SubSeq(chain, 1, final)
    <2>1. p \in Seq(DOMAIN made) /\ Len(p) = final
      BY <1>2, Cut DEF ChainTyped
    <2>2. fork \in Seq(DOMAIN made) /\ IsPrefix(p, fork)
      BY <1>1, <1>2 DEF ChainTyped
    <2> HIDE DEF p
    <2>3. Len(p) <= Len(fork)
      BY <2>1, <2>2, LongerIsNoPrefix
    <2>4. QED
      BY <1>2, <2>1, <2>3, ChainTypes
  <1>4. ChainTyped'
    BY <1>1, <1>2, <1>3 DEF ChainTyped
  <1>5. IndexTyped' /\ SentInv' /\ RowsInv'
    BY <1>1, <1>2 DEF IndexTyped, SentInv, RowsInv
  <1>6. Agree(chain, fork)' /\ Agree(blocks, fork)' /\ Once(fork)'
    BY <1>1 DEF Agree, Once
  <1>7. Agree(blocks, chain)' /\ Once(chain)'
    BY <1>1, <1>2 DEF ForkInv, Agree, Once, EventAt
  <1>8. CompleteInv'
    BY <1>1 DEF CompleteInv, StaleProvider
  <1>9. QED
    BY <1>4, <1>5, <1>6, <1>7, <1>8 DEF IndexInv, ForkInv

\* Jobs come, go, and are sent.
LEMMA JobStep ==
    ASSUME IndexInv, UNCHANGED <<setup, chain, made, final, reorgs, fork, indexVars>>,
           NEW T, sent' = sent \union T, \A tx \in T \union DOMAIN jobs' : Outermost(tx)
    PROVE  IndexInv'
  <1>1. UNCHANGED <<setup, chain, made, final, fork, blocks, marked, rows, last, tick>>
    BY DEF indexVars
  <1>2. ChainTyped /\ IndexTyped /\ SentInv /\ ForkInv /\ RowsInv /\ CompleteInv
    BY DEF IndexInv
  <1>3. ChainTyped' /\ IndexTyped' /\ RowsInv'
    BY <1>1, <1>2 DEF ChainTyped, IndexTyped, RowsInv
  <1>4. SentInv'
    BY <1>1, <1>2 DEF SentInv
  <1>5. CompleteInv'
    BY <1>1, <1>2 DEF CompleteInv, Recorded, StaleProvider, Through, At, EventAt, Live
  <1>6. Agree(chain, fork)' /\ Agree(blocks, chain)' /\ Agree(blocks, fork)'
    BY <1>1, <1>2 DEF ForkInv, Agree
  <1>7. ASSUME NEW tx \in T, NEW ev \in Range(made), ev \in {tx, Reverted(tx)}
        PROVE  tx \in sent
    <2>1. Outermost(tx) /\ Reverted(tx).kind = "reverted" /\ Reverted(tx).tx = tx
      BY KindsApart
    <2>2. QED
      BY <1>2, <1>7, <2>1 DEF SentInv
  <1>8. Once(chain)'
    <2> SUFFICES ASSUME NEW tx \in sent' \union {e \in Range(made) : e.kind = "claim"},
                        NEW m \in DOMAIN chain, NEW n \in DOMAIN chain,
                        EventAt(chain, m) \in {tx, Reverted(tx)},
                        EventAt(chain, n) \in {tx, Reverted(tx)}
                 PROVE  m = n
      BY <1>1 DEF Once, EventAt
    <2>1. tx \in sent \union {e \in Range(made) : e.kind = "claim"}
      BY <1>2, <1>7, EventMade
    <2>2. QED
      BY <1>2, <2>1 DEF ForkInv, Once
  <1>9. Once(fork)'
    <2> SUFFICES ASSUME NEW tx \in sent' \union {e \in Range(made) : e.kind = "claim"},
                        NEW m \in DOMAIN fork, NEW n \in DOMAIN fork,
                        EventAt(fork, m) \in {tx, Reverted(tx)},
                        EventAt(fork, n) \in {tx, Reverted(tx)}
                 PROVE  m = n
      BY <1>1 DEF Once, EventAt
    <2>1. tx \in sent \union {e \in Range(made) : e.kind = "claim"}
      BY <1>2, <1>7, EventMade
    <2>2. QED
      BY <1>2, <2>1 DEF ForkInv, Once
  <1>10. QED
    BY <1>3, <1>4, <1>5, <1>6, <1>8, <1>9 DEF IndexInv, ForkInv

-----------------------------------------------------------------------------
(* The steps of a tick, on the index.                                      *)

\* What a step of the index leaves alone.
Indexing ==
    UNCHANGED <<setup, chain, made, final, fork, sent>> /\ \A tx \in DOMAIN jobs' : Outermost(tx)

\* The tick alone moves, and reads nothing more.
LEMMA TickMoves ==
    ASSUME IndexInv, Indexing, UNCHANGED <<blocks, rows, last>>,
           marked' \in 0..Len(blocks),
           tick' \in [at : Phases, head : Nat, fin : Nat, done : {tick'.done}],
           tick'.at \in Late => tick'.head <= Len(blocks),
           tick'.at \in Scanning => last < tick'.head,
           tick'.at \notin Scanning \ {"transitions"}
    PROVE  IndexInv'
  <1>1. UNCHANGED <<setup, chain, made, final, fork, sent, blocks, rows, last>>
    BY DEF Indexing
  <1>2. ChainTyped /\ IndexTyped /\ SentInv /\ ForkInv /\ RowsInv /\ CompleteInv
    BY DEF IndexInv
  <1>3. ChainTyped' /\ IndexTyped' /\ RowsInv'
    BY <1>1, <1>2 DEF ChainTyped, IndexTyped, RowsInv
  <1>4. SentInv'
    BY <1>1, <1>2 DEF SentInv, Indexing
  <1>5. ForkInv'
    BY <1>1, <1>2 DEF ForkInv, Agree, Once, EventAt
  <1>6. \A kind : Through(kind)' = last /\ last <= Through(kind)
    <2>1. \A kind : Through(kind)' = last
      BY <1>1 DEF Through, At, Scanning
    <2>2. last \in Nat
      BY <1>2, ChainTypes DEF IndexTyped
    <2>3. \A kind : Through(kind) \in {last, tick.head} /\ (Through(kind) # last => last < tick.head)
      BY <1>2 DEF Through, At, IndexTyped, Scanning
    <2>4. tick.head \in Nat
      BY <1>2 DEF IndexTyped
    <2>5. QED
      BY <2>1, <2>2, <2>3, <2>4
  <1>7. CompleteInv'
    <2>1. \A n : Recorded(n)' <=> Recorded(n)
      BY <1>1 DEF Recorded, EventAt, Live
    <2>2. \A kind : Through(kind)' \in Nat /\ Through(kind) \in Nat
      BY <1>2, <1>6, ChainTypes DEF IndexTyped, Through
    <2>3. StaleProvider' = StaleProvider
      BY <1>1 DEF StaleProvider
    <2>4. SUFFICES ASSUME ~StaleProvider, NEW n \in DOMAIN chain \intersect DOMAIN blocks,
                          blocks[n] = chain[n], EventAt(chain, n).kind \in Explorer,
                          n <= last
                   PROVE  Recorded(n)
      BY <1>1, <1>6, <2>1, <2>3 DEF CompleteInv, EventAt
    <2>5. n \in Nat
      BY <1>2, ChainTypes
    <2>6. n <= Through(EventAt(chain, n).kind)
      BY <1>6, <2>2, <2>4, <2>5
    <2>7. QED
      BY <1>2, <2>4, <2>6 DEF CompleteInv
  <1>8. QED
    BY <1>3, <1>4, <1>5, <1>7 DEF IndexInv

\* The common ancestor is a height at or below the one it is looked for from.
LEMMA AncestorBelow ==
    ASSUME NEW n \in Nat, n <= Len(blocks), ChainTyped
    PROVE  CommonAncestor(n) \in 0..n
  <1> DEFINE Good(k) == k = 0 \/ blocks[k] = chain[k]
             K == {k \in 0..n : Good(k)}
  <1>1. DOMAIN blocks = 1..Len(blocks) /\ Len(blocks) \in Nat
    BY ChainTypes
  <1>2. K \in SUBSET (0..n) /\ 0 \in K
    OBVIOUS
  <1>3. \E k \in K : \A m \in K : k >= m
    <2> HIDE DEF K
    <2>1. QED
      BY <1>2, LargestNat
  <1>4. PICK k \in K : \A m \in K : k >= m
    BY <1>3
  <1>5. ASSUME NEW m \in (k + 1)..n
        PROVE  m \in DOMAIN blocks /\ blocks[m] # chain[m]
    <2>1. m \in 0..n /\ m \in DOMAIN blocks /\ ~(k >= m)
      BY <1>1
    <2>2. QED
      BY <1>4, <2>1
  <1>6. k \in 0..n /\ (k = 0 \/ blocks[k] = chain[k])
    OBVIOUS
  <1> HIDE DEF K, Good
  <1>7. \E j \in 0..n :
           /\ j = 0 \/ j \notin DOMAIN blocks \/ blocks[j] = chain[j]
           /\ \A m \in (j + 1)..n : m \in DOMAIN blocks /\ blocks[m] # chain[m]
    BY <1>5, <1>6
  <1>8. QED
    BY <1>7 DEF CommonAncestor

LEMMA IndexRollsBack ==
    ASSUME IndexInv, Indexing, NEW k \in 0..Len(blocks), IndexRolledBack(k),
           tick' \in [at : Phases, head : Nat, fin : Nat, done : {tick'.done}], tick'.at \notin Late
    PROVE  IndexInv'
  <1>1. /\ UNCHANGED <<setup, chain, made, final, fork, sent>>
        /\ blocks' = SubSeq(blocks, 1, k) /\ rows' = RemovedAfter(rows, k)
        /\ marked' = IF marked > k THEN k ELSE marked
        /\ last' = IF last > k THEN k ELSE last
    BY DEF Indexing, IndexRolledBack
  <1>2. ChainTyped /\ IndexTyped /\ SentInv /\ ForkInv /\ RowsInv /\ CompleteInv
    BY DEF IndexInv
  <1>3. Len(blocks) \in Nat /\ DOMAIN blocks = 1..Len(blocks) /\ blocks \in Seq(DOMAIN made)
    BY <1>2, ChainTypes DEF ChainTyped
  <1>4. /\ blocks' \in Seq(DOMAIN made) /\ Len(blocks') = k
        /\ DOMAIN blocks' = 1..k /\ 1..k \subseteq DOMAIN blocks
        /\ \A i \in 1..k : blocks'[i] = blocks[i]
    BY <1>1, <1>3, Cut
  <1>5. ChainTyped'
    BY <1>1, <1>2, <1>4 DEF ChainTyped
  <1>6. rows' \in [DOMAIN rows -> EventRows] /\ DOMAIN rows' = DOMAIN rows
        /\ \A tx \in DOMAIN rows : /\ rows'[tx].n = rows[tx].n /\ rows'[tx].id = rows[tx].id
                                   /\ rows[tx].n \in Nat
                                   /\ rows'[tx].removed <=> rows[tx].removed \/ rows[tx].n > k
    <2>1. \A r \in EventRows : [r EXCEPT !.removed = r.removed \/ r.n > k] \in EventRows
      BY DEF EventRows
    <2>2. \A r \in EventRows : LET q == [r EXCEPT !.removed = r.removed \/ r.n > k] IN
            /\ q.n = r.n /\ q.id = r.id /\ r.n \in Nat /\ (q.removed <=> r.removed \/ r.n > k)
      BY DEF EventRows
    <2>3. \A tx \in DOMAIN rows : rows[tx] \in EventRows
      BY <1>2 DEF IndexTyped
    <2>4. rows' = [tx \in DOMAIN rows |-> [rows[tx] EXCEPT !.removed = rows[tx].removed \/ rows[tx].n > k]]
      BY <1>1 DEF RemovedAfter
    <2>5. QED
      BY <2>1, <2>2, <2>3, <2>4
  <1>7. marked' \in 0..k /\ last' \in 0..k /\ last' <= last
    BY <1>1, <1>2, <1>3 DEF IndexTyped
  <1>8. IndexTyped'
    <2>1. tick'.at \notin Scanning
      BY DEF Late
    <2>2. QED
      BY <1>4, <1>6, <1>7, <2>1 DEF IndexTyped
  <1>9. SentInv'
    BY <1>1, <1>2 DEF SentInv, Indexing
  <1>10. RowsInv'
    BY <1>1, <1>2, <1>6 DEF RowsInv
  <1>11. ForkInv'
    <2>1. \A j \in 1..k : \A i \in 1..j : i \in 1..k
      BY <1>3
    <2>2. Agree(blocks, chain)' /\ Agree(blocks, fork)'
      <3>1. chain' = chain /\ fork' = fork
        BY <1>1
      <3>2. Agree(blocks, chain)'
        BY <1>2, <1>4, <2>1, <3>1 DEF ForkInv, Agree
      <3>3. Agree(blocks, fork)'
        BY <1>2, <1>4, <2>1, <3>1 DEF ForkInv, Agree
      <3>4. QED
        BY <3>2, <3>3
    <2>3. Agree(chain, fork)' /\ Once(chain)' /\ Once(fork)'
      BY <1>1, <1>2 DEF ForkInv, Agree, Once, EventAt
    <2>4. QED
      BY <2>2, <2>3 DEF ForkInv
  <1>12. \A kind : Through(kind)' = last' /\ last <= Through(kind)
    <2>1. \A kind : Through(kind)' = last'
      BY DEF Through, At, Late, Scanning
    <2>2. last \in Nat /\ tick.head \in Nat
      BY <1>2, <1>3 DEF IndexTyped
    <2>3. \A kind : Through(kind) \in {last, tick.head} /\ (Through(kind) # last => last < tick.head)
      BY <1>2 DEF Through, At, IndexTyped, Scanning
    <2>4. QED
      BY <2>1, <2>2, <2>3
  <1>13. CompleteInv'
    <2>1. StaleProvider' = StaleProvider
      BY <1>1 DEF StaleProvider
    <2> SUFFICES ASSUME ~StaleProvider, NEW n \in DOMAIN chain \intersect 1..k,
                        blocks[n] = chain[n], EventAt(chain, n).kind \in Explorer, n <= last'
                 PROVE  Recorded(n)'
      BY <1>1, <1>4, <1>12, <2>1 DEF CompleteInv, EventAt
    <2>2. n \in Nat /\ n \in DOMAIN blocks /\ n <= last /\ last \in Nat /\ last' \in Nat
      BY <1>2, <1>3, <1>4, <1>7 DEF IndexTyped
    <2>3. \A kind : Through(kind) \in Nat
      BY <1>2, <2>2 DEF IndexTyped, Through
    <2>4. n <= Through(EventAt(chain, n).kind)
      BY <1>12, <2>2, <2>3
    <2>5. Recorded(n)
      BY <1>2, <2>2, <2>4 DEF CompleteInv
    <2> DEFINE tx == EventAt(chain, n)
    <2>6. tx \in DOMAIN rows /\ ~rows[tx].removed /\ rows[tx].n = n /\ rows[tx].id = chain[n]
      BY <2>5 DEF Recorded, Live
    <2> HIDE DEF tx
    <2>7. tx \in DOMAIN rows' /\ ~rows'[tx].removed /\ rows'[tx].n = n /\ rows'[tx].id = chain[n]
      BY <1>6, <2>2, <2>6
    <2>8. made'[chain'[n]] = tx
      BY <1>1 DEF tx, EventAt
    <2>9. QED
      BY <1>1, <2>7, <2>8 DEF Recorded, Live, EventAt
  <1>14. QED
    BY <1>5, <1>8, <1>9, <1>10, <1>11, <1>13 DEF IndexInv
LEMMA BlockStep ==
    ASSUME IndexInv, Indexing, At("blocks"), NextBlock \in DOMAIN chain, ParentMatches, BlockIndexed
    PROVE  IndexInv'
  <1>1. /\ UNCHANGED <<setup, chain, made, final, fork, sent, marked, rows, last, tick>>
        /\ blocks' = Append(blocks, chain[Len(blocks) + 1])
    BY DEF Indexing, BlockIndexed, NextBlock
  <1>2. ChainTyped /\ IndexTyped /\ SentInv /\ ForkInv /\ RowsInv /\ CompleteInv
    BY DEF IndexInv
  <1>3. /\ Len(blocks) \in Nat /\ DOMAIN blocks = 1..Len(blocks) /\ blocks \in Seq(DOMAIN made)
        /\ Len(chain) \in Nat /\ DOMAIN chain = 1..Len(chain)
        /\ \A n \in DOMAIN chain : chain[n] \in DOMAIN made
    BY <1>2, ChainTypes DEF ChainTyped
  <1>4. Len(blocks) + 1 \in DOMAIN chain
    BY DEF NextBlock
  <1>5. /\ blocks' \in Seq(DOMAIN made) /\ Len(blocks') = Len(blocks) + 1
        /\ \A n \in 1..Len(blocks) : blocks'[n] = blocks[n]
        /\ blocks'[Len(blocks) + 1] = chain[Len(blocks) + 1]
    BY <1>1, <1>3, <1>4, AppendProperties
  <1>6. DOMAIN blocks' = 1..(Len(blocks) + 1)
    BY <1>5, LenProperties
  <1>7. \A n \in DOMAIN blocks : blocks[n] = chain[n]
    <2>1. CASE Len(blocks) = 0
      BY <1>3, <2>1
    <2>2. CASE Len(blocks) > 0
      <3>1. Len(blocks) \in DOMAIN blocks \intersect DOMAIN chain
        BY <1>3, <1>4, <2>2
      <3>2. blocks[Len(blocks)] = chain[Len(blocks)]
        BY <3>1 DEF ParentMatches
      <3>3. QED
        BY <1>2, <1>3, <3>1, <3>2 DEF ForkInv, Agree
    <2>3. QED
      BY <1>3, <2>1, <2>2
  <1>8. /\ DOMAIN blocks' \subseteq DOMAIN chain
        /\ \A n \in DOMAIN blocks' : blocks'[n] = chain[n]
        /\ \A n \in DOMAIN blocks' : \A i \in 1..n : i \in DOMAIN blocks'
    <2>1. DOMAIN blocks' \subseteq DOMAIN chain
      BY <1>3, <1>4, <1>6
    <2>2. DOMAIN blocks' = DOMAIN blocks \union {Len(blocks) + 1}
      BY <1>3, <1>6
    <2>3. \A n \in DOMAIN blocks' : blocks'[n] = chain[n]
      BY <1>3, <1>5, <1>7, <2>2
    <2>4. QED
      BY <1>3, <1>6, <2>1, <2>3
  <1>9. ChainTyped'
    BY <1>1, <1>2, <1>5 DEF ChainTyped
  <1>10. IndexTyped'
    <2>1. marked \in 0..(Len(blocks) + 1) /\ last \in 0..(Len(blocks) + 1)
      BY <1>2, <1>3 DEF IndexTyped
    <2>2. tick.at \notin Late /\ tick.at \notin Scanning
      BY DEF At, Late, Scanning
    <2>3. QED
      BY <1>1, <1>2, <1>5, <2>1, <2>2 DEF IndexTyped
  <1>11. SentInv' /\ RowsInv'
    BY <1>1, <1>2 DEF SentInv, Indexing, RowsInv
  <1>12. ForkInv'
    <2>1. chain' = chain /\ fork' = fork
      BY <1>1
    <2>2. Agree(blocks, chain)'
      BY <1>8, <2>1 DEF Agree
    <2>3. Agree(blocks, fork)'
      BY <1>2, <1>8, <2>1 DEF Agree, ForkInv
    <2>4. Agree(chain, fork)' /\ Once(chain)' /\ Once(fork)'
      BY <1>1, <1>2 DEF ForkInv, Agree, Once, EventAt
    <2>5. QED
      BY <2>2, <2>3, <2>4 DEF ForkInv
  <1>13. CompleteInv'
    <2>1. \A kind : Through(kind) = last /\ Through(kind)' = last
      BY <1>1 DEF Through, At
    <2>2. \A n : Recorded(n)' <=> Recorded(n)
      BY <1>1 DEF Recorded, EventAt, Live
    <2>3. \A n \in DOMAIN chain : n <= last => n \in DOMAIN blocks
      BY <1>2, <1>3 DEF IndexTyped
    <2>4. StaleProvider' = StaleProvider
      BY <1>1 DEF StaleProvider
    <2>5. SUFFICES ASSUME ~StaleProvider, NEW n \in DOMAIN chain, EventAt(chain, n).kind \in Explorer,
                          n <= last
                   PROVE  Recorded(n)
      BY <1>1, <2>1, <2>2, <2>4 DEF CompleteInv, EventAt
    <2>6. QED
      BY <1>2, <1>7, <2>1, <2>3, <2>5 DEF CompleteInv
  <1>14. QED
    BY <1>9, <1>10, <1>11, <1>12, <1>13 DEF IndexInv

\* The events of a kind are read: those in the chain get their rows.
LEMMA SeenRow ==
    ASSUME IndexInv, NEW kind \in Explorer, NEW ev \in EventsIn(kind)
    PROVE  /\ ev.kind = kind /\ Seen(kind, ev) \in EventRows
           /\ Seen(kind, ev).id \in DOMAIN made /\ made[Seen(kind, ev).id] = ev
           /\ \A n \in DOMAIN chain : EventAt(chain, n) = ev => Seen(kind, ev) = EventRow(n, chain[n])
  <1> DEFINE m == CHOOSE n \in InRange(kind) : EventAt(chain, n) = ev
  <1>1. m \in InRange(kind) /\ EventAt(chain, m) = ev
    BY DEF EventsIn
  <1>2. Seen(kind, ev) = EventRow(m, chain[m])
    BY DEF Seen
  <1> HIDE DEF m
  <1>3. ChainTyped /\ SentInv /\ ForkInv
    BY DEF IndexInv
  <1>4. m \in DOMAIN chain /\ ev.kind = kind
    BY <1>1 DEF InRange
  <1>5. m \in Nat /\ chain[m] \in Nat /\ chain[m] \in DOMAIN made
    BY <1>3, <1>4, ChainTypes
  <1>6. EventRow(m, chain[m]) \in EventRows /\ EventRow(m, chain[m]).id = chain[m]
    BY <1>5 DEF EventRow, EventRows
  <1>7. ASSUME NEW n \in DOMAIN chain, EventAt(chain, n) = ev
        PROVE  n = m
    <2>1. ev \in Range(made)
      BY <1>1, <1>3, <1>4, EventMade
    <2>2. ev \in sent \union {e \in Range(made) : e.kind = "claim"}
      BY <1>3, <1>4, <2>1 DEF SentInv, Explorer, Outermost
    <2>3. QED
      BY <1>1, <1>3, <1>4, <1>7, <2>2 DEF ForkInv, Once
  <1>8. QED
    BY <1>1, <1>2, <1>4, <1>5, <1>6, <1>7 DEF EventAt

LEMMA EventsRead ==
    ASSUME IndexInv, Indexing, UNCHANGED <<blocks, marked>>, NEW kind \in Explorer,
           tick.at \in Scanning,
           rows' = Upsert(rows, EventsIn(kind), LAMBDA ev : Seen(kind, ev)),
           tick' \in [at : Phases, head : Nat, fin : Nat, done : {tick'.done}], tick'.head = tick.head,
           last' \in 0..tick.head, tick'.at \in Scanning => last' < tick.head,
           \A k \in Explorer : Through(k)' = IF k = kind THEN tick.head ELSE Through(k),
           Through(kind) = last
    PROVE  IndexInv'
  <1>1. UNCHANGED <<setup, chain, made, final, fork, sent, blocks, marked>>
    BY DEF Indexing
  <1>2. ChainTyped /\ IndexTyped /\ SentInv /\ ForkInv /\ RowsInv /\ CompleteInv
    BY DEF IndexInv
  <1> DEFINE found == EventsIn(kind)
  <1>3. /\ DOMAIN rows' = DOMAIN rows \union found
        /\ \A ev \in found : rows'[ev] = Seen(kind, ev)
        /\ \A ev \in DOMAIN rows \ found : rows'[ev] = rows[ev]
    BY DEF Upsert
  <1>4. \A ev \in found :
           /\ ev.kind = kind /\ Seen(kind, ev) \in EventRows
           /\ Seen(kind, ev).id \in DOMAIN made /\ made[Seen(kind, ev).id] = ev
           /\ \A n \in DOMAIN chain : EventAt(chain, n) = ev => Seen(kind, ev) = EventRow(n, chain[n])
    BY SeenRow
  <1>5. tick.head \in Nat /\ tick.head <= Len(blocks) /\ Len(blocks) \in Nat /\ last < tick.head
        /\ last \in Nat
    BY <1>2, ChainTypes DEF IndexTyped, Late
  <1> HIDE DEF found
  <1>6. ChainTyped'
    BY <1>1, <1>2 DEF ChainTyped
  <1>7. IndexTyped'
    <2>1. rows' \in [DOMAIN rows' -> EventRows]
      <3>1. rows' = [ev \in DOMAIN rows' |-> rows'[ev]]
        BY DEF Upsert
      <3>2. \A ev \in DOMAIN rows' : rows'[ev] \in EventRows
        BY <1>2, <1>3, <1>4 DEF IndexTyped
      <3>3. QED
        BY <3>1, <3>2
    <2>2. last' \in 0..Len(blocks)
      BY <1>5
    <2>3. QED
      BY <1>1, <1>2, <1>5, <2>1, <2>2 DEF IndexTyped
  <1>8. SentInv'
    BY <1>1, <1>2 DEF SentInv, Indexing
  <1>9. RowsInv'
    BY <1>1, <1>2, <1>3, <1>4 DEF RowsInv
  <1>10. ForkInv'
    BY <1>1, <1>2 DEF ForkInv, Agree, Once, EventAt
  <1>11. CompleteInv'
    <2>1. StaleProvider' = StaleProvider
      BY <1>1 DEF StaleProvider
    <2> SUFFICES ASSUME ~StaleProvider, NEW n \in DOMAIN chain \intersect DOMAIN blocks,
                        blocks[n] = chain[n], NEW k \in Explorer, k = EventAt(chain, n).kind,
                        n <= Through(k)'
                 PROVE  Recorded(n)'
      <3>1. chain' = chain /\ made' = made /\ blocks' = blocks
        BY <1>1
      <3>2. QED
        BY <2>1, <3>1 DEF CompleteInv, EventAt
    <2> DEFINE ev == EventAt(chain, n)
    <2>2. made'[chain'[n]] = ev
      BY <1>1 DEF EventAt
    <2>3. CASE ev \in found
      <3>1. rows'[ev] = EventRow(n, chain[n])
        BY <1>3, <1>4, <2>3
      <3>2. ev \in DOMAIN rows'
        BY <1>3, <2>3
      <3>3. rows'[ev].n = n /\ rows'[ev].id = chain[n] /\ ~rows'[ev].removed
        BY <3>1 DEF EventRow
      <3>4. QED
        BY <1>1, <2>2, <3>2, <3>3 DEF Recorded, Live, EventAt
    <2>4. CASE ev \notin found
      <3>1. n <= Through(ev.kind)
        <4>1. CASE ev.kind = kind
          <5>1. n \notin (last + 1)..tick.head
            BY <2>4, <4>1 DEF found, EventsIn, InRange
          <5>2. Through(k)' = tick.head
            BY <4>1
          <5>3. n <= tick.head /\ n \in Nat
            BY <1>2, <5>2, ChainTypes
          <5>4. QED
            BY <1>5, <4>1, <5>1, <5>3
        <4>2. CASE ev.kind # kind
          <5>1. Through(k)' = Through(k)
            BY <4>2
          <5>2. QED
            BY <5>1
        <4>3. QED
          BY <4>1, <4>2
      <3>2. Recorded(n)
        BY <1>2, <3>1 DEF CompleteInv
      <3>3. rows'[ev] = rows[ev] /\ ev \in DOMAIN rows'
        BY <1>3, <2>4, <3>2 DEF Recorded, Live
      <3>4. QED
        BY <1>1, <2>2, <3>2, <3>3 DEF Recorded, Live, EventAt
    <2>5. QED
      BY <2>3, <2>4
  <1>12. QED
    BY <1>6, <1>7, <1>8, <1>9, <1>10, <1>11 DEF IndexInv
LEMMA BatchesStep ==
    ASSUME IndexInv, Indexing, IndexBatches
    PROVE  IndexInv'
  <1>1. /\ UNCHANGED <<setup, chain, made, final, fork, sent, blocks, marked, last>>
        /\ tick.at = "batches" /\ tick' = [tick EXCEPT !.at = "claims"]
        /\ rows' = [tx \in DOMAIN rows |->
                      [rows[tx] EXCEPT !.batch = rows[tx].batch \/ tx \in EventsIn("settlement")]]
    BY DEF Indexing, IndexBatches, At, Goto
  <1>2. ChainTyped /\ IndexTyped /\ SentInv /\ ForkInv /\ RowsInv /\ CompleteInv
    BY DEF IndexInv
  <1>3. /\ tick' \in [at : Phases, head : Nat, fin : Nat, done : {tick'.done}] /\ tick'.at = "claims"
        /\ tick'.head = tick.head
    BY <1>1, <1>2 DEF IndexTyped, Phases, Late, Scanning
  <1>4. /\ rows' \in [DOMAIN rows -> EventRows] /\ DOMAIN rows' = DOMAIN rows
        /\ \A tx \in DOMAIN rows : /\ rows'[tx].n = rows[tx].n /\ rows'[tx].id = rows[tx].id
                                   /\ rows'[tx].removed = rows[tx].removed
    <2>1. \A r \in EventRows, b \in BOOLEAN : [r EXCEPT !.batch = r.batch \/ b] \in EventRows
      BY DEF EventRows
    <2>2. \A r \in EventRows, b \in BOOLEAN : LET q == [r EXCEPT !.batch = r.batch \/ b] IN
            q.n = r.n /\ q.id = r.id /\ q.removed = r.removed
      BY DEF EventRows
    <2>3. \A tx \in DOMAIN rows : rows[tx] \in EventRows /\ (tx \in EventsIn("settlement")) \in BOOLEAN
      BY <1>2 DEF IndexTyped
    <2>4. QED
      BY <1>1, <2>1, <2>2, <2>3
  <1>5. ChainTyped' /\ SentInv'
    BY <1>1, <1>2 DEF ChainTyped, SentInv, Indexing
  <1>6. IndexTyped'
    BY <1>1, <1>2, <1>3, <1>4 DEF IndexTyped, Late, Scanning
  <1>7. ForkInv'
    BY <1>1, <1>2 DEF ForkInv, Agree, Once, EventAt
  <1>8. RowsInv'
    BY <1>1, <1>2, <1>4 DEF RowsInv
  <1>9. CompleteInv'
    <2>1. StaleProvider' = StaleProvider /\ \A kind : Through(kind)' = Through(kind)
      BY <1>1, <1>3 DEF StaleProvider, Through, At
    <2>2. Live(rows)' = Live(rows)
      BY <1>4 DEF Live
    <2>3. \A n : Recorded(n)' <=> Recorded(n)
      BY <1>1, <1>4, <2>2 DEF Recorded, EventAt, Live
    <2>4. QED
      BY <1>1, <1>2, <2>1, <2>3 DEF CompleteInv, EventAt
  <1>10. QED
    BY <1>5, <1>6, <1>7, <1>8, <1>9 DEF IndexInv

LEMMA EmptyIndex ==
    ASSUME ChainTyped, SentInv, Agree(chain, fork), Once(chain), Once(fork),
           UNCHANGED <<setup, chain, made, final, fork, sent>>,
           blocks' = << >>, marked' = 0, rows' = << >>, last' = 0, tick' = Idle, jobs' = << >>
    PROVE  IndexInv'
  <1>1. ChainTyped'
    BY EmptySeq DEF ChainTyped
  <1>2. IndexTyped'
    <2>1. Len(blocks') = 0
      BY EmptySeq
    <2>2. tick' \in [at : Phases, head : Nat, fin : Nat, done : {tick'.done}] /\ tick'.at = "idle"
      BY DEF Idle, Phases
    <2>3. tick'.at \notin Late /\ tick'.at \notin Scanning
      BY <2>2 DEF Late, Scanning
    <2>4. rows' \in [DOMAIN rows' -> EventRows]
      OBVIOUS
    <2>5. QED
      BY <2>1, <2>2, <2>3, <2>4 DEF IndexTyped
  <1>3. SentInv' /\ RowsInv' /\ CompleteInv'
    BY DEF SentInv, RowsInv, CompleteInv
  <1>4. Agree(chain, fork)' /\ Once(chain)' /\ Once(fork)'
    BY DEF Agree, Once, EventAt
  <1>5. Agree(blocks, chain)' /\ Agree(blocks, fork)'
    BY DEF Agree
  <1>6. QED
    BY <1>1, <1>2, <1>3, <1>4, <1>5 DEF IndexInv, ForkInv

LEMMA IndexInitial ==
    ASSUME Init
    PROVE  IndexInv
  <1>1. /\ chain = << >> /\ made = << >> /\ fork = << >> /\ final = 0 /\ sent = {}
        /\ setup \in Setups
        /\ blocks = << >> /\ marked = 0 /\ rows = << >> /\ last = 0 /\ tick = Idle /\ jobs = << >>
    BY DEF Init, ChainInit, IndexInit, AccountInit
  <1>2. Len(blocks) = 0 /\ Len(chain) = 0
    BY <1>1, EmptySeq
  <1>3. ChainTyped
    BY <1>1, <1>2, EmptySeq DEF ChainTyped, IsLog
  <1>4. IndexTyped
    <2>1. tick \in [at : Phases, head : Nat, fin : Nat, done : {tick.done}] /\ tick.at = "idle"
      BY <1>1 DEF Idle, Phases
    <2>2. tick.at \notin Late /\ tick.at \notin Scanning
      BY <2>1 DEF Late, Scanning
    <2>3. rows \in [DOMAIN rows -> EventRows]
      BY <1>1
    <2>4. QED
      BY <1>1, <1>2, <2>1, <2>2, <2>3 DEF IndexTyped
  <1>5. Range(made) = {}
    BY <1>1 DEF Range
  <1>6. SentInv /\ RowsInv /\ CompleteInv
    BY <1>1, <1>5 DEF SentInv, RowsInv, CompleteInv
  <1>7. ForkInv
    BY <1>1 DEF ForkInv, Agree, Once
  <1>8. QED
    BY <1>3, <1>4, <1>6, <1>7 DEF IndexInv
LEMMA MineSteps ==
    ASSUME IndexInv, MineDeposit \/ MineClaim \/ MineSent, UNCHANGED <<indexVars, jobs>>
    PROVE  IndexInv' /\ \E ev : Mine(ev) /\ Fresh(ev) /\ (Outermost(ev) => Accepts(chain, ev))
  <1>1. ChainTyped /\ SentInv
    BY DEF IndexInv
  <1>2. \E ev : Mine(ev) /\ Fresh(ev) /\ (Outermost(ev) => Accepts(chain, ev))
    <2>1. CASE MineDeposit
      <3>1. PICK nonce, who : Mine(Deposit(nonce, who))
        BY <2>1 DEF MineDeposit
      <3> DEFINE ev == Deposit(nonce, who)
      <3>2. ev.kind = "deposit" /\ ~Outermost(ev)
        BY DEF Deposit, Outermost
      <3> HIDE DEF ev
      <3>3. Fresh(ev)
        BY <1>1, <3>2, DepositFresh
      <3>4. QED
        BY <3>1, <3>2, <3>3 DEF ev
    <2>2. CASE MineClaim
      <3>1. PICK index : Mine(Claim(index))
        BY <2>2 DEF MineClaim
      <3> DEFINE ev == Claim(index)
      <3>2. ev.kind = "claim" /\ ~Outermost(ev)
        BY DEF Claim, Outermost
      <3>3. \A n \in DOMAIN chain : EventAt(chain, n).kind # "claim"
        BY <2>2 DEF MineClaim
      <3> HIDE DEF ev
      <3>4. Fresh(ev)
        BY <1>1, <3>2, <3>3, ClaimFresh
      <3>5. QED
        BY <3>1, <3>2, <3>4 DEF ev
    <2>3. CASE MineSent
      <3>1. PICK tx \in sent : ~OnChain(tx) /\ Mine(IF Accepts(chain, tx) THEN tx ELSE Reverted(tx))
        BY <2>3 DEF MineSent
      <3>2. PICK ev : /\ Mine(ev) /\ ev \in {tx, Reverted(tx)}
                      /\ ev = IF Accepts(chain, tx) THEN tx ELSE Reverted(tx)
        BY <3>1
      <3>3. Fresh(ev)
        BY <1>1, <3>1, <3>2, SentFresh
      <3>4. ~Outermost(Reverted(tx))
        BY <1>1, KindsApart DEF SentInv
      <3>5. Outermost(ev) => Accepts(chain, ev)
        BY <3>2, <3>4
      <3>6. QED
        BY <3>2, <3>3, <3>5
    <2>4. QED
      BY <2>1, <2>2, <2>3
  <1>3. QED
    BY <1>2, MineStep

\* The tick is in another phase, with the heights it had.
GoesTo(phase) ==
    tick' \in [at : {phase}, head : {tick.head}, fin : {tick.fin}, done : {tick'.done}]

LEMMA Goes ==
    ASSUME IndexTyped, NEW phase, Goto(phase)
    PROVE  GoesTo(phase)
  BY DEF IndexTyped, Goto, GoesTo

LEMMA GoesDone ==
    ASSUME IndexTyped, NEW phase, NEW d, tick' = [tick EXCEPT !.at = phase, !.done = d]
    PROVE  GoesTo(phase) /\ tick'.done = d
  BY DEF IndexTyped, GoesTo

LEMMA ApplyGoes ==
    ASSUME IndexTyped, NEW tx, NEW n, NEW id, NEW phase, Apply(tx, n, id, phase)
    PROVE  /\ UNCHANGED <<blocks, marked, rows, last, jobs>>
           /\ GoesTo(phase) /\ tick'.done = <<tx, n>>
  <1>1. /\ tick' = [tick EXCEPT !.at = phase, !.done = <<tx, n>>]
        /\ UNCHANGED <<blocks, marked, rows, last, jobs>>
    BY DEF Apply, AccountApplied
  <1>2. QED
    BY <1>1, GoesDone

LEMMA ConfirmGoes ==
    ASSUME IndexTyped, Confirm
    PROVE  /\ UNCHANGED <<blocks, marked, rows, last>>
           /\ \/ At("recovering") /\ GoesTo("recover")
              \/ At("reconciling") /\ GoesTo("reconcile")
  <1>1. PICK phase : phase = IF At("recovering") THEN "recover" ELSE "reconcile"
    OBVIOUS
  <1>2. tick' = [tick EXCEPT !.at = phase, !.done = << >>] /\ UNCHANGED <<blocks, marked, rows, last>>
    BY <1>1 DEF Confirm
  <1>3. GoesTo(phase)
    BY <1>2, GoesDone
  <1>4. At("recovering") \/ (At("reconciling") /\ ~At("recovering"))
    BY DEF Confirm, At
  <1>5. QED
    BY <1>1, <1>2, <1>3, <1>4

\* A step of the tick that leaves the index where it is.
LEMMA TickAdvances ==
    ASSUME IndexInv, Indexing, UNCHANGED <<blocks, marked, rows, last>>, NEW phase,
           \/ phase \in {"tip", "blocks"}
           \/ phase \in Late \ Scanning /\ tick.at \in Late,
           GoesTo(phase)
    PROVE  IndexInv'
  <1>1. IndexTyped /\ Len(blocks) \in Nat
    BY ChainTypes DEF IndexInv
  <1>2. phase \in Phases /\ phase \notin Scanning
    BY DEF Phases, Late, Scanning
  <1>3. tick.head \in Nat /\ tick.fin \in Nat
    BY <1>1 DEF IndexTyped
  <1>4. /\ tick' \in [at : Phases, head : Nat, fin : Nat, done : {tick'.done}]
        /\ tick'.at = phase /\ tick'.head = tick.head
    BY <1>2, <1>3 DEF GoesTo
  <1>5. tick'.at \in Late => tick'.head <= Len(blocks)
    BY <1>1, <1>4 DEF IndexTyped, Late, Scanning
  <1>6. marked' \in 0..Len(blocks)
    BY <1>1 DEF IndexTyped
  <1>7. QED
    BY <1>2, <1>4, <1>5, <1>6, TickMoves

LEMMA TickIdle ==
    ASSUME IndexInv, Indexing, UNCHANGED <<blocks, marked, rows, last>>, tick' = Idle
    PROVE  IndexInv'
  <1>1. IndexTyped /\ Len(blocks) \in Nat
    BY ChainTypes DEF IndexInv
  <1>2. tick' \in [at : Phases, head : Nat, fin : Nat, done : {tick'.done}] /\ tick'.at = "idle"
    BY DEF Idle, Phases
  <1>3. tick'.at \notin Late /\ tick'.at \notin Scanning
    BY <1>2 DEF Late, Scanning
  <1>4. marked' \in 0..Len(blocks)
    BY <1>1 DEF IndexTyped
  <1>5. QED
    BY <1>2, <1>3, <1>4, TickMoves

\* The steps of the tick that touch several tables.
LEMMA TickSteps ==
    ASSUME IndexInv, TickStep, UNCHANGED chainVars
    PROVE  IndexInv'
  <1>1. UNCHANGED <<setup, chain, made, final, reorgs, fork, sent>>
    BY DEF chainVars
  <1>2. ChainTyped /\ IndexTyped /\ SentInv /\ Len(blocks) \in Nat
    BY ChainTypes DEF IndexInv
  <1>3. ASSUME UNCHANGED jobs PROVE Indexing
    BY <1>1, <1>2, <1>3 DEF Indexing, SentInv
  <1>4. ASSUME NEW k, AccountRolledBack(k) PROVE Indexing
    <2>1. DOMAIN jobs' \subseteq DOMAIN jobs
      BY <1>4 DEF AccountRolledBack
    <2>2. QED
      BY <1>1, <1>2, <2>1 DEF Indexing, SentInv
  <1>5. CASE CheckTip
    <2>1. tick.head \in Nat /\ tick' = [tick EXCEPT !.at = "blocks"]
      BY <1>2, <1>5 DEF IndexTyped, CheckTip, Goto
    <2>2. CASE TipMoved
      <3> DEFINE k == CommonAncestor(tick.head)
      <3>1. RollBack(k) /\ tick.head <= Len(blocks)
        BY <1>2, <1>5, <2>1, <2>2 DEF CheckTip, TipMoved
      <3>2. k \in 0..tick.head
        BY <1>2, <2>1, <3>1, AncestorBelow
      <3> HIDE DEF k
      <3>3. k \in 0..Len(blocks) /\ IndexRolledBack(k) /\ Indexing
        BY <1>2, <1>4, <2>1, <3>1, <3>2 DEF RollBack
      <3>4. tick' \in [at : Phases, head : Nat, fin : Nat, done : {tick'.done}] /\ tick'.at = "blocks"
        BY <1>2, <2>1 DEF IndexTyped, Phases
      <3>5. tick'.at \notin Late
        BY <3>4 DEF Late, Scanning
      <3>6. QED
        BY <3>3, <3>4, <3>5, IndexRollsBack
    <2>3. CASE ~TipMoved
      <3>1. UNCHANGED <<blocks, marked, rows, last, jobs>> /\ Goto("blocks")
        BY <1>5, <2>3 DEF CheckTip, accountVars
      <3>2. QED
        BY <1>2, <1>3, <3>1, Goes, TickAdvances
    <2>4. QED
      BY <2>2, <2>3
  <1>6. CASE IndexBlock
    <2>1. /\ At("blocks") /\ NextBlock \in DOMAIN chain /\ ParentMatches /\ BlockIndexed
          /\ UNCHANGED jobs
      BY <1>6 DEF IndexBlock, accountVars
    <2>2. QED
      BY <1>3, <2>1, BlockStep
  <1>7. CASE OrphanedParent
    <2> DEFINE k == CommonAncestor(Len(blocks))
    <2>1. RollBack(k) /\ tick' = Idle
      BY <1>7 DEF OrphanedParent
    <2>2. k \in 0..Len(blocks)
      BY <1>2, AncestorBelow
    <2> HIDE DEF k
    <2>3. IndexRolledBack(k) /\ Indexing
      BY <1>4, <2>1 DEF RollBack
    <2>4. tick' \in [at : Phases, head : Nat, fin : Nat, done : {tick'.done}] /\ tick'.at = "idle"
      BY <2>1 DEF Idle, Phases
    <2>5. tick'.at \notin Late
      BY <2>4 DEF Late, Scanning
    <2>6. QED
      BY <2>2, <2>3, <2>4, <2>5, IndexRollsBack
  <1>8. ASSUME UNCHANGED indexVars, \A tx \in DOMAIN jobs' : Outermost(tx)
        PROVE  IndexInv'
    <2>1. sent' = sent \union {}
      BY <1>1
    <2>2. QED
      BY <1>1, <1>8, <2>1, JobStep
  <1>9. ASSUME NEW tx, NEW n, NEW id, NEW phase \in {"recovering", "reconciling"},
               Apply(tx, n, id, phase), tick.at \in Late
        PROVE  IndexInv'
    <2>1. UNCHANGED <<blocks, marked, rows, last, jobs>> /\ GoesTo(phase)
      BY <1>2, <1>9, ApplyGoes
    <2>2. phase \in Late \ Scanning
      BY DEF Late, Scanning
    <2>3. QED
      BY <1>3, <1>9, <2>1, <2>2, TickAdvances
  <1>10. CASE RecoverJob
    <2> DEFINE tx == NextUnapplied
    <2>1. tx \in Unapplied
      <3>1. Unapplied # {}
        BY <1>10 DEF RecoverJob
      <3>2. \E t \in Unapplied : \A u \in Unapplied : rows[t].n <= rows[u].n
        <4> DEFINE D == {rows[t].n : t \in Unapplied}
        <4>1. \A t \in Unapplied : t \in DOMAIN rows
          BY DEF Unapplied, Live
        <4>2. \A t \in Unapplied : rows[t].n \in Nat
          BY <1>2, <4>1 DEF IndexTyped, EventRows
        <4>3. D \in SUBSET Nat /\ D # {}
          BY <3>1, <4>2
        <4>4. PICK d \in D : \A e \in D : d <= e
          BY <4>3, SmallestNat
        <4>5. QED
          BY <4>4
      <3>3. QED
        BY <3>2 DEF NextUnapplied
    <2>2. Outermost(tx)
      BY <2>1 DEF Unapplied, Outermost
    <2>3. DOMAIN jobs' = DOMAIN jobs \union {tx} /\ UNCHANGED indexVars
      BY <1>10 DEF RecoverJob, JobRecovered, Upsert
    <2> HIDE DEF tx
    <2>4. QED
      BY <1>2, <1>8, <2>2, <2>3 DEF SentInv
  <1>11. CASE Recover
    <2>1. Apply(NextUnapplied, rows[NextUnapplied].n, rows[NextUnapplied].id, "recovering")
      BY <1>11 DEF Recover
    <2>2. tick.at \in Late
      BY <1>11 DEF Recover, At, Late
    <2>3. QED
      BY <1>9, <2>1, <2>2
  <1>12. CASE Recovered
    <2>1. UNCHANGED <<blocks, marked, rows, last, jobs>> /\ Goto("reconcile") /\ At("recover")
      BY <1>12 DEF Recovered, accountVars
    <2>2. tick.at \in Late /\ "reconcile" \in Late \ Scanning
      BY <2>1 DEF At, Late, Scanning
    <2>3. QED
      BY <1>2, <1>3, <2>1, <2>2, Goes, TickAdvances
  <1>13. CASE Reconcile
    <2>0. PICK tx \in DOMAIN jobs :
            \E n : ReconcileApplied(tx, n) \/ ReconcileReverted(tx, n) \/ ReconcileIncluded(tx, n)
      BY <1>13 DEF Reconcile
    <2>1. PICK n : ReconcileApplied(tx, n) \/ ReconcileReverted(tx, n) \/ ReconcileIncluded(tx, n)
      BY <2>0
    <2>2. tick.at \in Late
      BY <1>13 DEF Reconcile, At, Late
    <2>3. CASE ReconcileApplied(tx, n)
      BY <1>9, <2>2, <2>3 DEF ReconcileApplied
    <2>4. ASSUME NEW m, NEW status, ReconcileStatus(tx, m, status)
          PROVE  IndexInv'
      <3>1. DOMAIN jobs' = DOMAIN jobs /\ UNCHANGED indexVars
        BY <2>4 DEF ReconcileStatus
      <3>2. QED
        BY <1>2, <1>8, <3>1 DEF SentInv
    <2>5. QED
      BY <2>1, <2>3, <2>4 DEF ReconcileReverted, ReconcileIncluded
  <1>14. CASE Confirm
    <2>1. DOMAIN jobs' = DOMAIN jobs
      BY <1>14 DEF Confirm, JobConfirmed
    <2>2. Indexing
      BY <1>1, <1>2, <2>1 DEF Indexing, SentInv
    <2>3. /\ UNCHANGED <<blocks, marked, rows, last>>
          /\ \/ At("recovering") /\ GoesTo("recover")
             \/ At("reconciling") /\ GoesTo("reconcile")
      BY <1>2, <1>14, ConfirmGoes
    <2>4. tick.at \in Late /\ "recover" \in Late \ Scanning /\ "reconcile" \in Late \ Scanning
      BY <2>3 DEF At, Late, Scanning
    <2>5. QED
      BY <2>2, <2>3, <2>4, TickAdvances
  <1>15. CASE EndTick
    <2>1. UNCHANGED <<blocks, marked, rows, last, jobs>> /\ tick' = Idle
      BY <1>15 DEF EndTick
    <2>2. QED
      BY <1>3, <2>1, TickIdle
  <1>16. QED
    BY <1>5, <1>6, <1>7, <1>10, <1>11, <1>12, <1>13, <1>14, <1>15 DEF TickStep

\* The steps of the tick that only touch the index.
LEMMA IndexSteps ==
    ASSUME IndexInv, IndexStep, UNCHANGED <<chainVars, jobs>>
    PROVE  IndexInv'
  <1>1. UNCHANGED <<setup, chain, made, final, reorgs, fork, sent>>
    BY DEF chainVars
  <1>2. ChainTyped /\ IndexTyped /\ SentInv
    BY DEF IndexInv
  <1>3. /\ Len(blocks) \in Nat /\ Len(chain) \in Nat /\ final \in Nat /\ Confirmations \in Nat
        /\ tick \in [at : Phases, head : Nat, fin : Nat, done : {tick.done}]
        /\ last \in Nat
    BY <1>2, ChainTypes DEF IndexTyped
  <1>4. Indexing
    BY <1>1, <1>2 DEF Indexing, SentInv
  <1>5. CASE BeginTick
    <2>1. /\ tick' = [at |-> "tip", head |-> Len(chain), fin |-> final, done |-> << >>]
          /\ UNCHANGED <<blocks, marked, rows, last>>
      BY <1>5 DEF BeginTick, Idle
    <2>2. tick' \in [at : Phases, head : Nat, fin : Nat, done : {tick'.done}] /\ tick'.at = "tip"
      BY <1>3, <2>1 DEF Phases
    <2>3. tick'.at \notin Late /\ tick'.at \notin Scanning
      BY <2>2 DEF Late, Scanning
    <2>4. marked' \in 0..Len(blocks)
      BY <1>2, <2>1 DEF IndexTyped
    <2>5. QED
      BY <1>4, <2>1, <2>2, <2>3, <2>4, TickMoves
  <1>6. CASE FinishBlocks
    <2> DEFINE phase == IF last < tick.head THEN "transitions" ELSE "recover"
    <2>1. /\ tick' = [tick EXCEPT !.at = phase] /\ UNCHANGED <<blocks, rows, last>>
          /\ Len(blocks) >= tick.head /\ marked' = FinalizedThrough /\ HeadHeld
      BY <1>6 DEF FinishBlocks, Goto
    <2>2. marked' \in 0..Len(blocks)
      <3>1. CASE Finalized
        BY <1>3, <2>1, <3>1 DEF FinalizedThrough, HeadHeld
      <3>2. CASE ~Finalized
        BY <1>3, <2>1, <3>2 DEF FinalizedThrough, Finalized
      <3>3. QED
        BY <3>1, <3>2
    <2>3. phase \in {"transitions", "recover"} /\ (phase = "transitions" => last < tick.head)
      OBVIOUS
    <2> HIDE DEF phase
    <2>4. /\ tick' \in [at : Phases, head : Nat, fin : Nat, done : {tick'.done}] /\ tick'.at = phase
          /\ tick'.head = tick.head
      BY <1>3, <2>1, <2>3 DEF Phases, Late, Scanning
    <2>5. tick'.head <= Len(blocks)
      BY <1>3, <2>1, <2>4
    <2>6. tick'.at \in Scanning => last < tick'.head
      BY <2>3, <2>4 DEF Scanning
    <2>7. tick'.at \notin Scanning \ {"transitions"}
      BY <2>3, <2>4 DEF Scanning
    <2>8. QED
      BY <1>4, <2>1, <2>2, <2>4, <2>5, <2>6, <2>7, TickMoves
  <1>7. CASE IndexTransitions
    <2>1. /\ tick.at = "transitions" /\ tick' = [tick EXCEPT !.at = "settlements"]
          /\ rows' = Upsert(rows, EventsIn("bridge"), LAMBDA ev : Seen("bridge", ev))
          /\ UNCHANGED <<blocks, marked, last>>
      BY <1>7 DEF IndexTransitions, At, Goto
    <2>2. /\ tick' \in [at : Phases, head : Nat, fin : Nat, done : {tick'.done}] /\ tick'.at = "settlements"
          /\ tick'.head = tick.head
      BY <1>3, <2>1 DEF Phases, Late, Scanning
    <2>3. tick.at \in Scanning /\ last < tick.head
      BY <1>2, <2>1 DEF IndexTyped, Scanning
    <2>4. last' \in 0..tick.head /\ last' < tick.head
      BY <1>3, <2>1, <2>3
    <2>5. \A k \in Explorer : Through(k)' = IF k = "bridge" THEN tick.head ELSE Through(k)
      BY <2>1, <2>2 DEF Through, At, Explorer
    <2>6. Through("bridge") = last /\ "bridge" \in Explorer
      BY <2>1 DEF Through, At, Explorer
    <2>7. QED
      BY <1>4, <2>1, <2>2, <2>3, <2>4, <2>5, <2>6, EventsRead
  <1>8. CASE IndexSettlements
    <2>1. /\ tick.at = "settlements" /\ tick' = [tick EXCEPT !.at = "batches"]
          /\ rows' = Upsert(rows, EventsIn("settlement"), LAMBDA ev : Seen("settlement", ev))
          /\ UNCHANGED <<blocks, marked, last>>
      BY <1>8 DEF IndexSettlements, At, Goto
    <2>2. /\ tick' \in [at : Phases, head : Nat, fin : Nat, done : {tick'.done}] /\ tick'.at = "batches"
          /\ tick'.head = tick.head
      BY <1>3, <2>1 DEF Phases, Late, Scanning
    <2>3. tick.at \in Scanning /\ last < tick.head
      BY <1>2, <2>1 DEF IndexTyped, Scanning
    <2>4. last' \in 0..tick.head /\ last' < tick.head
      BY <1>3, <2>1, <2>3
    <2>5. \A k \in Explorer : Through(k)' = IF k = "settlement" THEN tick.head ELSE Through(k)
      BY <2>1, <2>2 DEF Through, At, Explorer
    <2>6. Through("settlement") = last /\ "settlement" \in Explorer
      BY <2>1 DEF Through, At, Explorer
    <2>7. QED
      BY <1>4, <2>1, <2>2, <2>3, <2>4, <2>5, <2>6, EventsRead
  <1>9. CASE IndexBatches
    BY <1>4, <1>9, BatchesStep
  <1>10. CASE IndexClaims
    <2>1. /\ tick.at = "claims" /\ tick' = [tick EXCEPT !.at = "recover"]
          /\ rows' = Upsert(rows, EventsIn("claim"), LAMBDA ev : Seen("claim", ev))
          /\ UNCHANGED <<blocks, marked>> /\ last' = tick.head
      BY <1>10 DEF IndexClaims, At, Goto
    <2>2. /\ tick' \in [at : Phases, head : Nat, fin : Nat, done : {tick'.done}] /\ tick'.at = "recover"
          /\ tick'.head = tick.head
      BY <1>3, <2>1 DEF Phases, Late, Scanning
    <2>3. tick.at \in Scanning /\ tick'.at \notin Scanning
      BY <2>1, <2>2 DEF Scanning
    <2>4. last' \in 0..tick.head
      BY <1>3, <2>1
    <2>5. \A k \in Explorer : Through(k)' = IF k = "claim" THEN tick.head ELSE Through(k)
      BY <2>1, <2>2 DEF Through, At, Explorer
    <2>6. Through("claim") = last /\ "claim" \in Explorer
      BY <2>1 DEF Through, At, Explorer
    <2>7. QED
      BY <1>4, <2>1, <2>2, <2>3, <2>4, <2>5, <2>6, EventsRead
  <1>11. QED
    BY <1>5, <1>6, <1>7, <1>8, <1>9, <1>10 DEF IndexStep

LEMMA IndexNext ==
    ASSUME IndexInv, [Next]_vars
    PROVE  IndexInv'
  <1>1. ChainTyped /\ SentInv /\ ForkInv
    BY DEF IndexInv
  <1>2. ASSUME UNCHANGED <<setup, chain, made, final, reorgs, fork, indexVars>>,
               sent' = sent, \A tx \in DOMAIN jobs' : Outermost(tx)
        PROVE  IndexInv'
    <2>1. sent' = sent \union {}
      BY <1>2
    <2>2. QED
      BY <1>2, <2>1, JobStep
  <1>3. CASE Tick
    <2>1. CASE TickStep /\ UNCHANGED <<chainVars, losses>>
      BY <2>1, TickSteps
    <2>2. CASE IndexStep /\ UNCHANGED <<chainVars, accountVars, depositVars, leafVars, losses, cut>>
      BY <2>2, IndexSteps DEF accountVars
    <2>3. QED
      BY <1>3, <2>1, <2>2 DEF Tick
  <1>4. CASE TickEnds
    <2>1. UNCHANGED <<setup, chain, made, final, fork, sent, jobs, blocks, marked, rows, last>>
          /\ tick' = Idle
      BY <1>4 DEF TickEnds, TickFails, chainVars, accountVars
    <2>2. Indexing
      BY <1>1, <2>1 DEF Indexing, SentInv
    <2>3. QED
      BY <2>1, <2>2, TickIdle
  <1>5. CASE Chain
    <2>1. UNCHANGED <<indexVars, jobs>> /\ ChainStep
      BY <1>5 DEF Chain, accountVars
    <2>2. QED
      BY <2>1, MineSteps, FinalizeStep, ReorgStep, FlipStep DEF ChainStep
  <1>6. CASE Work
    <2>1. CASE JobSubmitted /\ UNCHANGED <<setup, chain, made, final, reorgs, fork, indexVars,
                                           depositVars, leafVars, losses, cut>>
      <3>1. PICK tx \in DOMAIN jobs : sent' = sent \union {tx} /\ DOMAIN jobs' = DOMAIN jobs
        BY <2>1 DEF JobSubmitted
      <3>2. \A t \in {tx} \union DOMAIN jobs' : Outermost(t)
        BY <1>1, <3>1 DEF SentInv
      <3>3. QED
        BY <2>1, <3>1, <3>2, JobStep
    <2>2. CASE /\ QueueSettlement \/ JobFailed
               /\ UNCHANGED <<chainVars, indexVars, depositVars, leafVars, losses, cut>>
      <3>1. \A t \in DOMAIN jobs' : Outermost(t)
        <4>1. CASE QueueSettlement
          <5>1. PICK sync, count :
                  DOMAIN jobs' = DOMAIN jobs \union
                    {Proved("settlement", nextJob, account.state,
                            <<Commit(sync, InnerLength(account.state), count)>>)}
            BY <4>1 DEF QueueSettlement, Upsert
          <5>2. \A job, base, acts : Outermost(Proved("settlement", job, base, acts))
            BY DEF Outermost, Proved
          <5>3. QED
            BY <1>1, <5>1, <5>2 DEF SentInv
        <4>2. CASE JobFailed
          BY <1>1, <4>2 DEF JobFailed, SentInv
        <4>3. QED
          BY <2>2, <4>1, <4>2
      <3>2. QED
        BY <1>2, <2>2, <3>1 DEF chainVars
    <2>3. QED
      BY <1>6, <2>1, <2>2 DEF Work
  <1>7. CASE Archive
    BY <1>1, <1>2, <1>7 DEF Archive, chainVars, accountVars, SentInv
  <1>8. CASE LoseDatabase
    BY <1>1, <1>8, EmptyIndex DEF LoseDatabase, chainVars, ForkInv
  <1>9. ASSUME NEW b \in Batchers, Batching(b)
        PROVE  IndexInv'
    <2>1. UNCHANGED <<setup, chain, made, final, reorgs, fork, indexVars, sent>>
      BY <1>9 DEF Batching, chainVars
    <2>2. \A t \in DOMAIN jobs' : Outermost(t)
      <3>1. CASE UNCHANGED jobs
        BY <1>1, <3>1 DEF SentInv
      <3>2. CASE QueueBatch(b) /\ jobs' # jobs
        <4>1. DOMAIN jobs' = DOMAIN jobs \union
                {Proved("bridge", nextJob, batch[b].base, batch[b].pending)}
          BY <3>2 DEF QueueBatch, Upsert
        <4>2. \A job, base, acts : Outermost(Proved("bridge", job, base, acts))
          BY DEF Outermost, Proved
        <4>3. QED
          BY <1>1, <4>1, <4>2 DEF SentInv
      <3>3. QED
        BY <1>9, <3>1, <3>2 DEF Batching, accountVars
    <2>3. QED
      BY <1>2, <2>1, <2>2
  <1>10. CASE UNCHANGED vars
    BY <1>1, <1>2, <1>10 DEF vars, chainVars, accountVars, SentInv
  <1>11. QED
    BY <1>3, <1>4, <1>5, <1>6, <1>7, <1>8, <1>9, <1>10 DEF Next

\* The explorer's rows are those of the chain, at every number of blocks,
\* transactions, reorganizations and lost databases (index_explorer_events).
THEOREM RowsCorrect == Spec => []RowsMatchChain
  <1>1. Init => IndexInv
    BY IndexInitial
  <1>2. IndexInv /\ [Next]_vars => IndexInv'
    BY IndexNext
  <1>3. IndexInv => RowsMatchChain
    <2> SUFFICES ASSUME IndexInv, ~StaleProvider, last <= Len(blocks),
                        IsPrefix(SubSeq(blocks, 1, last), chain), NEW n \in 1..last
                 PROVE  {tx \in Live(rows) : rows[tx].n = n /\ rows[tx].id = chain[n]}
                          = {EventAt(chain, n)} \intersect
                            {ev \in Range(made) : ev.kind \in {"bridge", "settlement", "claim"}}
      BY DEF RowsMatchChain
    <2>1. ChainTyped /\ IndexTyped /\ RowsInv /\ CompleteInv
      BY DEF IndexInv
    <2>2. /\ Len(blocks) \in Nat /\ last \in 0..Len(blocks) /\ blocks \in Seq(DOMAIN made)
          /\ chain \in Seq(DOMAIN made) /\ tick.head \in Nat
      BY <2>1, ChainTypes DEF ChainTyped, IndexTyped
    <2> DEFINE p == SubSeq(blocks, 1, last)
    <2>3. /\ p \in Seq(DOMAIN made) /\ DOMAIN p = 1..last /\ IsPrefix(p, chain)
          /\ \A i \in 1..last : p[i] = blocks[i] /\ i \in DOMAIN blocks
      BY <2>2, Cut
    <2> HIDE DEF p
    <2>4. n \in DOMAIN chain /\ n \in DOMAIN blocks /\ blocks[n] = chain[n]
      BY <2>2, <2>3, PrefixAgrees
    <2>5. \A kind : n <= Through(kind)
      <3>1. tick.at \in Scanning => last < tick.head
        BY <2>1 DEF IndexTyped
      <3>2. \A kind : Through(kind) \in {last, tick.head} /\ (Through(kind) # last => last < tick.head)
        BY <3>1 DEF Through, At, Scanning
      <3>3. QED
        BY <2>2, <3>2
    <2>6. EventAt(chain, n) \in Range(made)
      BY <2>1, <2>4, EventMade
    <2>7. EventAt(chain, n).kind \in Explorer => Recorded(n)
      BY <2>1, <2>4, <2>5 DEF CompleteInv
    <2>8. ASSUME NEW tx \in Live(rows), rows[tx].id = chain[n]
          PROVE  tx = EventAt(chain, n) /\ tx.kind \in Explorer
      BY <2>1, <2>8 DEF RowsInv, Live, EventAt
    <2>9. QED
      BY <2>6, <2>7, <2>8 DEF Recorded, Explorer
  <1>4. QED
    BY <1>1, <1>2, <1>3, PTL DEF Spec

-----------------------------------------------------------------------------
(* What is final stays final.                                              *)

\* The finalized blocks stay, and so do the events of all blocks.
Grown ==
    /\ setup' = setup /\ final <= final'
    /\ \A h \in DOMAIN made : h \in DOMAIN made' /\ made'[h] = made[h]
    /\ \A i \in 1..final : i \in DOMAIN chain /\ i \in DOMAIN chain' /\ chain'[i] = chain[i]

LEMMA ChainGrown ==
    ASSUME IndexInv, [Next]_vars
    PROVE  Grown
  <1>1. /\ ChainTyped /\ final \in Nat /\ final <= Len(chain) /\ Len(chain) \in Nat
        /\ DOMAIN chain = 1..Len(chain) /\ chain \in Seq(DOMAIN made) /\ fork \in Seq(DOMAIN made)
    BY ChainTypes DEF IndexInv, ChainTyped
  <1>2. \A i \in 1..final : i \in DOMAIN chain
    BY <1>1
  <1>3. ASSUME UNCHANGED <<setup, chain, made, final>>
        PROVE  Grown
    BY <1>1, <1>2, <1>3 DEF Grown
  <1>4. ASSUME NEW ev, Mine(ev)
        PROVE  Grown
    <2>1. /\ UNCHANGED <<setup, final>> /\ DOMAIN made \subseteq DOMAIN made'
          /\ \A h \in DOMAIN made : made'[h] = made[h]
          /\ \A n \in DOMAIN chain : chain'[n] = chain[n]
          /\ DOMAIN chain' = 1..(Len(chain) + 1)
      BY <1>1, <1>4, Mined
    <2>2. \A i \in DOMAIN chain : i \in DOMAIN chain'
      BY <1>1, <2>1
    <2>3. QED
      BY <1>1, <1>2, <2>1, <2>2 DEF Grown
  <1>5. CASE Finalize
    BY <1>1, <1>2, <1>5 DEF Finalize, Grown
  <1>6. CASE Reorg
    <2>1. PICK n \in final..(Len(chain) - 1) : chain' = SubSeq(chain, 1, n)
      BY <1>6 DEF Reorg
    <2>2. UNCHANGED <<setup, made, final>>
      BY <1>6 DEF Reorg
    <2>3. n \in 0..Len(chain) /\ \A i \in 1..final : i \in 1..n
      BY <1>1
    <2>4. DOMAIN chain' = 1..n /\ \A i \in 1..n : chain'[i] = chain[i]
      BY <1>1, <2>1, <2>3, Cut
    <2>5. QED
      BY <1>1, <1>2, <2>2, <2>3, <2>4 DEF Grown
  <1>7. CASE FlipBack
    <2> DEFINE p == SubSeq(chain, 1, final)
    <2>1. UNCHANGED <<setup, made, final>> /\ chain' = fork /\ IsPrefix(p, fork)
      BY <1>7 DEF FlipBack
    <2>2. p \in Seq(DOMAIN made) /\ DOMAIN p = 1..final /\ \A i \in 1..final : p[i] = chain[i]
      BY <1>1, Cut
    <2> HIDE DEF p
    <2>3. \A i \in 1..final : i \in DOMAIN fork /\ fork[i] = chain[i]
      BY <1>1, <2>1, <2>2, PrefixAgrees
    <2>4. QED
      BY <1>1, <1>2, <2>1, <2>3 DEF Grown
  <1>8. CASE Chain
    BY <1>4, <1>5, <1>6, <1>7, <1>8 DEF Chain, ChainStep, MineDeposit, MineClaim, MineSent
  <1>9. CASE Tick \/ TickEnds \/ Work \/ Archive \/ LoseDatabase
    BY <1>3, <1>9 DEF Tick, TickEnds, Work, Archive, LoseDatabase, chainVars
  <1>10. ASSUME NEW b \in Batchers, Batching(b)
         PROVE  Grown
    BY <1>3, <1>10 DEF Batching, chainVars
  <1>11. CASE UNCHANGED vars
    BY <1>3, <1>11 DEF vars, chainVars
  <1>12. QED
    BY <1>8, <1>9, <1>10, <1>11 DEF Next

\* The blocks that are marked final stay.
Marked ==
    marked <= marked' /\ \A i \in 1..marked : i \in DOMAIN blocks /\ blocks'[i] = blocks[i]

LEMMA FinalFrame ==
    ASSUME IndexInv, FinalInv, Grown,
           marked' = marked, \A i \in 1..marked : blocks'[i] = blocks[i],
           tick'.fin <= final' \/ tick'.fin = tick.fin,
           tick'.at \in Late => tick.at \in Late /\ tick'.fin = tick.fin, IndexInv'
    PROVE  FinalInv' /\ Marked
  <1>1. /\ marked \in Nat /\ final \in Nat /\ final' \in Nat /\ marked <= Len(blocks) /\ Len(blocks) \in Nat
        /\ DOMAIN blocks = 1..Len(blocks) /\ tick.fin \in Nat /\ final <= final'
    <2>1. ChainTyped' => final' \in Nat
      BY DEF ChainTyped
    <2>2. QED
      BY <2>1, ChainTypes DEF IndexInv, IndexTyped, Grown
  <1>2. marked <= final /\ tick.fin <= final /\ \A i \in 1..marked : blocks[i] = chain[i]
    BY DEF FinalInv
  <1>3. \A i \in 1..marked : i \in 1..final
    BY <1>1, <1>2
  <1>4. marked' <= final' /\ tick'.fin <= final'
    BY <1>1, <1>2
  <1>5. \A i \in 1..marked' : blocks'[i] = chain'[i]
    BY <1>2, <1>3 DEF Grown
  <1>6. tick'.at \in Late => marked' = tick'.fin
    BY DEF FinalInv
  <1>7. FinalInv'
    BY <1>4, <1>5, <1>6 DEF FinalInv
  <1>8. Marked
    BY <1>1 DEF Marked
  <1>9. QED
    BY <1>7, <1>8

LEMMA FinishMarks ==
    ASSUME IndexInv, FinalInv, Grown, Finalized, FinishBlocks, UNCHANGED <<chain, final>>, IndexInv'
    PROVE  FinalInv' /\ Marked
  <1> DEFINE phase == IF last < tick.head THEN "transitions" ELSE "recover"
  <1>1. /\ marked' = tick.fin /\ UNCHANGED blocks /\ tick' = [tick EXCEPT !.at = phase]
        /\ tick.fin <= tick.head /\ marked <= tick.fin
        /\ tick.fin > 0 => blocks[tick.fin] = chain[tick.fin]
        /\ Len(blocks) >= tick.head
    BY DEF FinishBlocks, FinalizedThrough, HeadHeld, Goto
  <1> HIDE DEF phase
  <1>2. /\ ChainTyped /\ ForkInv /\ Len(blocks) \in Nat /\ DOMAIN blocks = 1..Len(blocks)
        /\ Len(chain) \in Nat /\ DOMAIN chain = 1..Len(chain) /\ final \in Nat /\ final <= Len(chain)
        /\ tick \in [at : Phases, head : Nat, fin : Nat, done : {tick.done}]
        /\ marked \in Nat /\ marked <= Len(blocks)
    BY ChainTypes DEF IndexInv, IndexTyped
  <1>3. tick'.fin = tick.fin
    BY <1>1, <1>2
  <1>4. \A i \in 1..tick.fin : blocks[i] = chain[i]
    <2>1. CASE tick.fin = 0
      BY <2>1
    <2>2. CASE tick.fin > 0
      <3>1. tick.fin \in DOMAIN blocks \intersect DOMAIN chain
        BY <1>1, <1>2, <2>2 DEF FinalInv
      <3>2. QED
        BY <1>1, <1>2, <2>2, <3>1 DEF ForkInv, Agree
    <2>3. QED
      BY <1>2, <2>1, <2>2
  <1>5. FinalInv'
    BY <1>1, <1>3, <1>4 DEF FinalInv
  <1>6. Marked
    BY <1>1, <1>2 DEF Marked
  <1>7. QED
    BY <1>5, <1>6
\* A rollback, and to where.
LEMMA RollBackTo ==
    ASSUME IndexInv, (CheckTip /\ TipMoved) \/ OrphanedParent
    PROVE  \E k \in 0..Len(blocks) : MayRollBack(k) /\ RollBack(k)
  <1>1. ChainTyped /\ Len(blocks) \in Nat /\ tick.head \in Nat
    BY ChainTypes DEF IndexInv, IndexTyped
  <1>2. CASE CheckTip /\ TipMoved
    <2> DEFINE k == CommonAncestor(tick.head)
    <2>1. MayRollBack(k) /\ RollBack(k) /\ tick.head <= Len(blocks)
      BY <1>1, <1>2 DEF CheckTip, TipMoved
    <2>2. k \in 0..tick.head
      BY <1>1, <2>1, AncestorBelow
    <2> HIDE DEF k
    <2>3. k \in 0..Len(blocks)
      BY <1>1, <2>1, <2>2
    <2>4. QED
      BY <2>1, <2>3
  <1>3. CASE OrphanedParent
    <2> DEFINE k == CommonAncestor(Len(blocks))
    <2>1. MayRollBack(k) /\ RollBack(k)
      BY <1>3 DEF OrphanedParent
    <2>2. k \in 0..Len(blocks)
      BY <1>1, AncestorBelow
    <2> HIDE DEF k
    <2>3. QED
      BY <2>1, <2>2
  <1>4. QED
    BY <1>2, <1>3

LEMMA FinalStep ==
    ASSUME IndexInv, FinalInv, Finalized, Grown, [Next]_vars, ~LoseDatabase, IndexInv'
    PROVE  FinalInv' /\ Marked
  <1>1. /\ marked \in Nat /\ Len(blocks) \in Nat /\ marked <= Len(blocks)
        /\ DOMAIN blocks = 1..Len(blocks) /\ blocks \in Seq(DOMAIN made)
        /\ tick \in [at : Phases, head : Nat, fin : Nat, done : {tick.done}]
        /\ final' \in Nat /\ final \in Nat /\ final <= final' /\ IndexTyped
    <2>1. ChainTyped' => final' \in Nat
      BY DEF ChainTyped
    <2>2. QED
      BY <2>1, ChainTypes DEF IndexInv, IndexTyped, ChainTyped, Grown
  <1>2. ASSUME UNCHANGED <<blocks, marked>>, tick' = Idle
        PROVE  FinalInv' /\ Marked
    <2>1. tick'.fin = 0 /\ tick'.at = "idle"
      BY <1>2 DEF Idle
    <2>2. tick'.at \notin Late /\ tick'.fin <= final'
      BY <1>1, <2>1 DEF Late, Scanning
    <2>3. QED
      BY <1>2, <2>2, FinalFrame
  <1>3. ASSUME UNCHANGED <<blocks, marked, tick>>
        PROVE  FinalInv' /\ Marked
    BY <1>3, FinalFrame
  <1>4. ASSUME UNCHANGED <<blocks, marked>>, NEW phase, GoesTo(phase), tick.at \in Late \/ phase \notin Late
        PROVE  FinalInv' /\ Marked
    <2>1. tick'.fin = tick.fin /\ tick'.at = phase
      BY <1>4 DEF GoesTo
    <2>2. QED
      BY <1>4, <2>1, FinalFrame
  <1>5. ASSUME (CheckTip /\ TipMoved) \/ OrphanedParent
        PROVE  FinalInv' /\ Marked
    <2>1. PICK k \in 0..Len(blocks) : MayRollBack(k) /\ RollBack(k)
      BY <1>5, RollBackTo
    <2>2. /\ blocks' = SubSeq(blocks, 1, k) /\ marked' = IF marked > k THEN k ELSE marked
          /\ marked <= k
      BY <2>1 DEF RollBack, IndexRolledBack, MayRollBack
    <2>3. \A i \in 1..k : blocks'[i] = blocks[i]
      BY <1>1, <2>2, Cut
    <2>4. marked' = marked /\ \A i \in 1..marked : blocks'[i] = blocks[i]
      BY <1>1, <2>2, <2>3
    <2>5. tick' = Idle \/ Goto("blocks")
      BY <1>5 DEF CheckTip, OrphanedParent
    <2>6. CASE tick' = Idle
      <3>1. tick'.fin = 0 /\ tick'.at = "idle"
        BY <2>6 DEF Idle
      <3>2. tick'.at \notin Late /\ tick'.fin <= final'
        BY <1>1, <3>1 DEF Late, Scanning
      <3>3. QED
        BY <2>4, <3>2, FinalFrame
    <2>7. CASE Goto("blocks")
      <3>1. tick'.fin = tick.fin /\ tick'.at = "blocks"
        BY <1>1, <2>7 DEF Goto
      <3>2. tick'.at \notin Late
        BY <3>1 DEF Late, Scanning
      <3>3. QED
        BY <2>4, <3>1, <3>2, FinalFrame
    <2>8. QED
      BY <2>5, <2>6, <2>7
  <1>6. CASE Tick
    <2>1. CASE CheckTip /\ ~TipMoved
      <3>1. UNCHANGED <<blocks, marked>> /\ Goto("blocks")
        BY <2>1 DEF CheckTip
      <3>2. "blocks" \notin Late
        BY DEF Late, Scanning
      <3>3. QED
        BY <1>1, <1>4, <3>1, <3>2, Goes
    <2>2. CASE IndexBlock
      <3>1. UNCHANGED <<marked, tick>> /\ blocks' = Append(blocks, chain[NextBlock])
            /\ NextBlock \in DOMAIN chain
        BY <2>2 DEF IndexBlock, BlockIndexed
      <3>2. chain[NextBlock] \in DOMAIN made
        BY <3>1, ChainTypes DEF IndexInv
      <3>3. \A i \in 1..Len(blocks) : blocks'[i] = blocks[i]
        BY <1>1, <3>1, <3>2, AppendProperties
      <3>4. \A i \in 1..marked : blocks'[i] = blocks[i]
        BY <1>1, <3>3
      <3>5. QED
        BY <3>1, <3>4, FinalFrame
    <2>3. CASE RecoverJob \/ Recover \/ Reconcile \/ Confirm
      <3>1. tick.at \in Late
        BY <2>3 DEF RecoverJob, Recover, Reconcile, Confirm, At, Late
      <3>2. ASSUME NEW tx, NEW n, NEW id, NEW phase, Apply(tx, n, id, phase)
            PROVE  FinalInv' /\ Marked
        BY <1>1, <1>4, <3>1, <3>2, ApplyGoes
      <3>3. CASE RecoverJob
        BY <1>3, <3>3 DEF RecoverJob, indexVars
      <3>4. CASE Recover
        BY <3>2, <3>4 DEF Recover
      <3>5. CASE Reconcile
        <4>1. PICK tx, n : ReconcileApplied(tx, n) \/ ReconcileReverted(tx, n) \/ ReconcileIncluded(tx, n)
          BY <3>5 DEF Reconcile
        <4>2. CASE ReconcileApplied(tx, n)
          BY <3>2, <4>2 DEF ReconcileApplied
        <4>3. CASE ReconcileReverted(tx, n) \/ ReconcileIncluded(tx, n)
          BY <1>3, <4>3 DEF ReconcileReverted, ReconcileIncluded, ReconcileStatus, indexVars
        <4>4. QED
          BY <4>1, <4>2, <4>3
      <3>6. CASE Confirm
        BY <1>1, <1>4, <3>1, <3>6, ConfirmGoes
      <3>7. QED
        BY <2>3, <3>3, <3>4, <3>5, <3>6
    <2>4. CASE Recovered
      <3>1. UNCHANGED <<blocks, marked>> /\ Goto("reconcile") /\ tick.at = "recover"
        BY <2>4 DEF Recovered, At
      <3>2. tick.at \in Late
        BY <3>1 DEF Late
      <3>3. QED
        BY <1>1, <1>4, <3>1, <3>2, Goes
    <2>5. CASE EndTick
      BY <1>2, <2>5 DEF EndTick
    <2>6. CASE BeginTick
      <3>1. /\ UNCHANGED <<blocks, marked>>
            /\ tick' = [at |-> "tip", head |-> Len(chain), fin |-> final, done |-> << >>]
        BY <2>6 DEF BeginTick, Idle
      <3>2. tick'.fin = final /\ tick'.at = "tip"
        BY <3>1
      <3>3. tick'.at \notin Late /\ tick'.fin <= final'
        BY <1>1, <3>2 DEF Late, Scanning
      <3>4. QED
        BY <3>1, <3>3, FinalFrame
    <2>7. CASE FinishBlocks /\ UNCHANGED chainVars
      BY <2>7, FinishMarks DEF chainVars
    <2>8. CASE IndexTransitions \/ IndexSettlements \/ IndexBatches \/ IndexClaims
      <3>1. PICK phase : Goto(phase)
        BY <2>8 DEF IndexTransitions, IndexSettlements, IndexBatches, IndexClaims
      <3>2. tick.at \in Late
        BY <2>8 DEF IndexTransitions, IndexSettlements, IndexBatches, IndexClaims, At, Late, Scanning
      <3>3. UNCHANGED <<blocks, marked>>
        BY <2>8 DEF IndexTransitions, IndexSettlements, IndexBatches, IndexClaims
      <3>4. QED
        BY <1>1, <1>4, <3>1, <3>2, <3>3, Goes
    <2>9. QED
      BY <1>5, <1>6, <2>1, <2>2, <2>3, <2>4, <2>5, <2>6, <2>7, <2>8 DEF Tick, TickStep, IndexStep
  <1>7. CASE TickEnds
    BY <1>2, <1>7 DEF TickEnds, TickFails
  <1>8. CASE Chain \/ Work \/ Archive
    BY <1>3, <1>8 DEF Chain, Work, Archive, indexVars
  <1>9. ASSUME NEW b \in Batchers, Batching(b)
        PROVE  FinalInv' /\ Marked
    BY <1>3, <1>9 DEF Batching, indexVars
  <1>10. CASE UNCHANGED vars
    BY <1>3, <1>10 DEF vars, indexVars
  <1>11. QED
    BY <1>6, <1>7, <1>8, <1>9, <1>10 DEF Next

LEMMA StillFinal ==
    ASSUME IndexInv, Grown, Marked, IndexInv', NEW tx, NEW n, InFinal(tx, n)
    PROVE  InFinal(tx, n)'
  <1>1. n \in 1..marked /\ EventAt(blocks, n) = tx
    BY DEF InFinal
  <1>2. marked \in Nat /\ marked' \in Nat
    <2>1. Len(blocks) \in Nat /\ (ChainTyped' => Len(blocks') \in Nat)
      BY ChainTypes, LenProperties DEF IndexInv, ChainTyped
    <2>2. QED
      BY <2>1 DEF IndexInv, IndexTyped
  <1>3. n \in 1..marked' /\ n \in DOMAIN blocks /\ blocks'[n] = blocks[n]
    BY <1>1, <1>2 DEF Marked
  <1>4. blocks[n] \in DOMAIN made
    BY <1>3, ChainTypes DEF IndexInv
  <1>5. made'[blocks'[n]] = tx
    BY <1>1, <1>3, <1>4 DEF Grown, EventAt
  <1>6. QED
    BY <1>3, <1>5 DEF InFinal, EventAt

-----------------------------------------------------------------------------
(* One open batch.                                                         *)

LEMMA JobsChange ==
    ASSUME IndexInv, IndexInv', Grown, Marked, JobsInv,
           jobs' \in [DOMAIN jobs' -> JobRows], account'.nonce \in Nat,
           \A tx \in DOMAIN history' :
              InFinal(tx, history'[tx].n) \/ (tx \in DOMAIN history /\ history'[tx].n = history[tx].n),
           \A tx \in DOMAIN jobs' : jobs'[tx].status = "confirmed" =>
              \/ InFinal(tx, jobs'[tx].block)
              \/ tx \in DOMAIN jobs /\ jobs[tx].status = "confirmed" /\ jobs'[tx].block = jobs[tx].block,
           \A t, u \in OpenBatches' : t = u
    PROVE  JobsInv'
  <1>1. \A tx \in DOMAIN history' : InFinal(tx, history'[tx].n)
    BY DEF JobsInv
  <1>2. \A tx \in DOMAIN history' : InFinal(tx, history[tx].n)'
    <2> TAKE tx \in DOMAIN history'
    <2> DEFINE n == history'[tx].n
    <2>1. InFinal(tx, n)
      BY <1>1
    <2>2. n \in 1..marked' /\ made'[blocks'[n]] = tx
      <3> HIDE DEF n
      <3>1. PICK m : m = n
        OBVIOUS
      <3>2. InFinal(tx, m)'
        BY <2>1, <3>1, StillFinal
      <3>3. QED
        BY <3>1, <3>2 DEF InFinal, EventAt
    <2>3. QED
      BY <2>2 DEF InFinal, EventAt
  <1>3. \A tx \in DOMAIN jobs' : jobs'[tx].status = "confirmed" => InFinal(tx, jobs'[tx].block)
    BY DEF JobsInv
  <1>4. \A tx \in DOMAIN jobs' : jobs'[tx].status = "confirmed" => InFinal(tx, jobs[tx].block)'
    <2> TAKE tx \in DOMAIN jobs'
    <2> HAVE jobs'[tx].status = "confirmed"
    <2> DEFINE n == jobs'[tx].block
    <2>1. InFinal(tx, n)
      BY <1>3
    <2>2. n \in 1..marked' /\ made'[blocks'[n]] = tx
      <3> HIDE DEF n
      <3>1. PICK m : m = n
        OBVIOUS
      <3>2. InFinal(tx, m)'
        BY <2>1, <3>1, StillFinal
      <3>3. QED
        BY <3>1, <3>2 DEF InFinal, EventAt
    <2>3. QED
      BY <2>2 DEF InFinal, EventAt
  <1>5. QED
    BY <1>2, <1>4 DEF JobsInv

LEMMA AppliedJobs ==
    ASSUME IndexInv, IndexInv', Grown, Marked, JobsInv, NEW tx, NEW n \in Nat, NEW id,
           AccountApplied(tx, n, id), InFinal(tx, n)
    PROVE  JobsInv'
  <1>1. account'.nonce \in Nat
    <2>1. CASE account' = account
      BY <2>1 DEF JobsInv
    <2>2. CASE account' = AccountAfter(tx)
      BY <2>2 DEF AccountAfter, JobsInv
    <2>3. QED
      BY <2>1, <2>2 DEF AccountApplied
  <1>2. \A t \in DOMAIN history' :
           InFinal(t, history'[t].n) \/ (t \in DOMAIN history /\ history'[t].n = history[t].n)
    <2>1. CASE history' = history
      BY <2>1
    <2>2. CASE history' = Snapshots(tx, n)
      <3> DEFINE snapshot == [before |-> account, n |-> n]
      <3>1. history' = [key \in DOMAIN history \union {tx} |->
                          IF key \in {tx} THEN snapshot ELSE history[key]]
        BY <2>2 DEF Snapshots, Upsert
      <3>2. snapshot.n = n
        OBVIOUS
      <3> HIDE DEF snapshot
      <3>3. \A t \in DOMAIN history' : \/ t = tx /\ history'[t] = snapshot
                                       \/ t \in DOMAIN history /\ history'[t] = history[t]
        BY <3>1
      <3> TAKE t \in DOMAIN history'
      <3>4. CASE t = tx /\ history'[t] = snapshot
        <4>1. history'[t].n = n
          BY <3>2, <3>4
        <4>2. InFinal(t, history'[t].n)
          BY <3>4, <4>1
        <4>3. QED
          BY <4>2
      <3>5. CASE t \in DOMAIN history /\ history'[t] = history[t]
        BY <3>5
      <3>6. QED
        BY <3>3, <3>4, <3>5
    <2>3. QED
      BY <2>1, <2>2 DEF AccountApplied
  <1>3. jobs' = jobs
    BY DEF AccountApplied
  <1>4. OpenBatches' = OpenBatches
    BY <1>3 DEF OpenBatches, Released
  <1>5. jobs' \in [DOMAIN jobs' -> JobRows] /\ \A t, u \in OpenBatches' : t = u
    BY <1>3, <1>4 DEF JobsInv
  <1>6. QED
    BY <1>1, <1>2, <1>3, <1>5, JobsChange

\* The row of an event whose job is not known.
LEMMA RecoveredRow ==
    ASSUME JobsInv, NEW tx, NEW n \in Nat, JobRecovered(tx, n)
    PROVE  \E row \in JobRows :
             /\ row.status = "confirmed" /\ row.block = n
             /\ jobs' = [key \in DOMAIN jobs \union {tx} |-> IF key = tx THEN row ELSE jobs[key]]
  <1> DEFINE row == RecoveredJob(account.nonce, n)
  <1>1. account.nonce \in Nat
    BY DEF JobsInv
  <1>2. row \in JobRows /\ row.status = "confirmed" /\ row.block = n
    BY <1>1 DEF RecoveredJob, Job, JobRows, Statuses
  <1>3. jobs' = [key \in DOMAIN jobs \union {tx} |-> IF key = tx THEN row ELSE jobs[key]]
    BY DEF JobRecovered, Upsert
  <1> HIDE DEF row
  <1>4. QED
    BY <1>2, <1>3

LEMMA RecoveredJobs ==
    ASSUME IndexInv, IndexInv', Grown, Marked, JobsInv, NEW tx, NEW n \in Nat,
           JobRecovered(tx, n), InFinal(tx, n)
    PROVE  JobsInv'
  <1>1. PICK row \in JobRows :
          /\ row.status = "confirmed" /\ row.block = n
          /\ jobs' = [key \in DOMAIN jobs \union {tx} |-> IF key = tx THEN row ELSE jobs[key]]
    BY RecoveredRow
  <1>2. /\ DOMAIN jobs' = DOMAIN jobs \union {tx} /\ jobs'[tx] = row
        /\ \A t \in DOMAIN jobs \ {tx} : jobs'[t] = jobs[t]
    BY <1>1
  <1>3. jobs' \in [DOMAIN jobs' -> JobRows]
    BY <1>1 DEF JobsInv
  <1>4. OpenBatches' \subseteq OpenBatches
    BY <1>1, <1>2 DEF OpenBatches, Released
  <1>5. \A t, u \in OpenBatches' : t = u
    BY <1>4 DEF JobsInv
  <1>6. \A t \in DOMAIN jobs' : jobs'[t].status = "confirmed" =>
           \/ InFinal(t, jobs'[t].block)
           \/ t \in DOMAIN jobs /\ jobs[t].status = "confirmed" /\ jobs'[t].block = jobs[t].block
    BY <1>1, <1>2
  <1>7. account'.nonce \in Nat /\ history' = history
    BY DEF JobRecovered, JobsInv
  <1>8. QED
    BY <1>3, <1>5, <1>6, <1>7, JobsChange

LEMMA JobRolls ==
    ASSUME JobsInv, NEW k \in Nat, marked <= k, marked \in Nat, NEW tx \in DOMAIN jobs
    PROVE  /\ JobRolledBack(tx, k) \in JobRows
           /\ JobRolledBack(tx, k).recovered = jobs[tx].recovered
           /\ JobRolledBack(tx, k).status = "confirmed" => JobRolledBack(tx, k) = jobs[tx]
           /\ tx.kind = "bridge" /\ ~Released(JobRolledBack(tx, k)) => ~Released(jobs[tx])
           /\ jobs[tx].status = "confirmed" /\ tx.kind = "bridge" => JobRolledBack(tx, k) = jobs[tx]
  <1>1. jobs[tx] \in JobRows
    BY DEF JobsInv
  <1>2. ASSUME jobs[tx].status = "confirmed" PROVE ~Lost(tx, k)
    <2>1. jobs[tx].block \in 1..marked
      BY <1>2 DEF JobsInv, InFinal
    <2>2. QED
      BY <2>1 DEF Lost
  <1> DEFINE old == jobs[tx]
             q == [old EXCEPT !.status = "queued", !.block = 0]
             r == [old EXCEPT !.status = "reorged"]
  <1>3. /\ q \in JobRows /\ q.status = "queued" /\ q.recovered = old.recovered
        /\ r \in JobRows /\ r.status = "reorged" /\ r.recovered = old.recovered
    <2> HIDE DEF old
    <2>1. "queued" \in Statuses /\ "reorged" \in Statuses /\ 0 \in Nat
      BY DEF Statuses
    <2>2. old \in JobRows
      BY <1>1 DEF old
    <2>3. QED
      BY <2>1, <2>2 DEF JobRows
  <1>4. \/ JobRolledBack(tx, k) = jobs[tx]
        \/ tx.kind = "settlement" /\ JobRolledBack(tx, k) = r
        \/ Lost(tx, k) /\ JobRolledBack(tx, k) = q
    BY DEF JobRolledBack
  <1>5. Lost(tx, k) => ~Released(jobs[tx])
    <2>1. Lost(tx, k) => jobs[tx].status = "submitted"
      BY <1>2 DEF Lost
    <2>2. QED
      BY <2>1 DEF Released
  <1> HIDE DEF q, r
  <1>6. CASE JobRolledBack(tx, k) = jobs[tx]
    BY <1>1, <1>6
  <1>7. CASE tx.kind = "settlement" /\ JobRolledBack(tx, k) = r
    BY <1>3, <1>7
  <1>8. CASE Lost(tx, k) /\ JobRolledBack(tx, k) = q
    BY <1>2, <1>3, <1>5, <1>8
  <1>9. QED
    BY <1>4, <1>6, <1>7, <1>8

LEMMA RolledBackJobs ==
    ASSUME IndexInv, IndexInv', Grown, Marked, JobsInv, NEW k \in Nat, marked <= k,
           AccountRolledBack(k)
    PROVE  /\ JobsInv' /\ UNCHANGED account /\ DOMAIN jobs' \subseteq DOMAIN jobs
           /\ DOMAIN history' = DOMAIN history
           /\ \A tx \in DOMAIN jobs' : jobs'[tx].recovered = jobs[tx].recovered
  <1>1. marked \in Nat
    BY ChainTypes DEF IndexInv, IndexTyped
  <1>2. Orphaned(k) = {}
    <2>1. \A tx \in DOMAIN history : history[tx].n \in 1..marked
      BY DEF JobsInv, InFinal
    <2>2. QED
      BY <1>1, <2>1 DEF Orphaned
  <1>3. account' = account
    BY <1>2 DEF AccountRolledBack, AccountBefore
  <1>4. DOMAIN history' = DOMAIN history /\ \A tx \in DOMAIN history : history'[tx] = history[tx]
    BY <1>2 DEF AccountRolledBack
  <1>5. /\ DOMAIN jobs' \subseteq DOMAIN jobs
        /\ jobs' = [tx \in DOMAIN jobs' |-> jobs'[tx]]
        /\ \A tx \in DOMAIN jobs' : jobs'[tx] = JobRolledBack(tx, k)
    BY DEF AccountRolledBack
  <1>6. \A tx \in DOMAIN jobs' :
           /\ jobs'[tx] \in JobRows
           /\ jobs'[tx].recovered = jobs[tx].recovered
           /\ jobs'[tx].status = "confirmed" => jobs'[tx] = jobs[tx]
           /\ tx.kind = "bridge" /\ ~Released(jobs'[tx]) => ~Released(jobs[tx])
    BY <1>1, <1>5, JobRolls
  <1>7. jobs' \in [DOMAIN jobs' -> JobRows]
    BY <1>5, <1>6
  <1>8. OpenBatches' \subseteq OpenBatches
    BY <1>5, <1>6 DEF OpenBatches, Released
  <1>9. \A t, u \in OpenBatches' : t = u
    BY <1>8 DEF JobsInv
  <1>10. account'.nonce \in Nat
    BY <1>3 DEF JobsInv
  <1>11. JobsInv'
    BY <1>4, <1>5, <1>6, <1>7, <1>9, <1>10, JobsChange
  <1>12. QED
    BY <1>3, <1>4, <1>5, <1>6, <1>11
\* What a job's receipt says, once the indexer has marked what is final.
LEMMA ReceiptFinal ==
    ASSUME IndexInv, FinalInv, Finalized, tick.at = "reconcile",
           NEW tx, NEW n \in Receipt(tx)
    PROVE  /\ n \in Nat /\ (TransactionFinal(n) <=> n \in 1..marked)
           /\ Succeeded(tx, n) /\ TransactionFinal(n) => InFinal(tx, n)
           /\ tx \in DOMAIN jobs => \A m : InFinal(tx, m) => m = n
  <1>1. n \in DOMAIN chain /\ blocks[n] = chain[n] /\ EventAt(chain, n) \in {tx, Reverted(tx)}
    BY DEF Receipt
  <1>2. ChainTyped /\ IndexTyped /\ SentInv /\ ForkInv
    BY DEF IndexInv
  <1>3. /\ n \in Nat /\ n >= 1 /\ DOMAIN chain = 1..Len(chain) /\ Len(chain) \in Nat
        /\ DOMAIN blocks = 1..Len(blocks) /\ Len(blocks) \in Nat /\ final <= Len(chain) /\ final \in Nat
    BY <1>1, <1>2, ChainTypes
  <1>4. marked = tick.fin /\ marked \in Nat /\ marked <= Len(blocks) /\ marked <= final
    BY <1>2, <1>3 DEF FinalInv, IndexTyped, Late
  <1>5. TransactionFinal(n) <=> n \in 1..marked
    BY <1>3, <1>4 DEF TransactionFinal
  <1>6. Succeeded(tx, n) /\ TransactionFinal(n) => InFinal(tx, n)
    BY <1>1, <1>5 DEF Succeeded, InFinal, EventAt
  <1>7. ASSUME tx \in DOMAIN jobs, NEW m, InFinal(tx, m)
        PROVE  m = n
    <2>1. m \in 1..marked /\ EventAt(blocks, m) = tx
      BY <1>7 DEF InFinal
    <2>2. m \in DOMAIN blocks /\ m \in DOMAIN chain /\ blocks[m] = chain[m]
      BY <1>3, <1>4, <2>1 DEF FinalInv
    <2>3. EventAt(chain, m) = tx
      BY <2>1, <2>2 DEF EventAt
    <2>4. tx \in sent
      BY <1>2, <1>7, <2>2, <2>3, EventMade DEF SentInv
    <2>5. QED
      BY <1>1, <1>2, <2>2, <2>3, <2>4 DEF ForkInv, Once
  <1>8. QED
    BY <1>3, <1>5, <1>6, <1>7

\* The job gets a status, which a confirmed one keeps.
Restated(tx, n, status) ==
    /\ jobs' = [jobs EXCEPT ![tx].status = status, ![tx].block = n]
    /\ UNCHANGED <<account, history, actions>>
    /\ status = "confirmed" => InFinal(tx, n)
    /\ status \in {"confirmed", "ethereum_reverted"} \/ ~Released(jobs[tx])

LEMMA StatusJobs ==
    ASSUME IndexInv, IndexInv', Grown, Marked, JobsInv, NEW tx \in DOMAIN jobs,
           NEW n \in Nat, NEW status \in Statuses, Restated(tx, n, status)
    PROVE  /\ JobsInv' /\ DOMAIN jobs' = DOMAIN jobs
           /\ \A t \in DOMAIN jobs : jobs'[t].recovered = jobs[t].recovered
  <1> DEFINE job == jobs[tx]
             row == [job EXCEPT !.status = status, !.block = n]
  <1>1. job \in JobRows
    BY DEF JobsInv
  <1>2. row \in JobRows /\ row.status = status /\ row.block = n /\ row.recovered = job.recovered
    <2> HIDE DEF job
    <2>1. QED
      BY <1>1 DEF JobRows
  <1>3. jobs' = [jobs EXCEPT ![tx] = row]
    BY DEF Restated
  <1> HIDE DEF row
  <1>4. /\ DOMAIN jobs' = DOMAIN jobs /\ jobs'[tx] = row
        /\ \A t \in DOMAIN jobs : t # tx => jobs'[t] = jobs[t]
    BY <1>3
  <1>5. jobs' \in [DOMAIN jobs' -> JobRows]
    BY <1>2, <1>3 DEF JobsInv
  <1>6. OpenBatches' \subseteq OpenBatches
    BY <1>2, <1>4 DEF OpenBatches, Released, Restated
  <1>7. \A t, u \in OpenBatches' : t = u
    BY <1>6 DEF JobsInv
  <1>8. \A t \in DOMAIN jobs' : jobs'[t].status = "confirmed" =>
           \/ InFinal(t, jobs'[t].block)
           \/ t \in DOMAIN jobs /\ jobs[t].status = "confirmed" /\ jobs'[t].block = jobs[t].block
    BY <1>2, <1>4 DEF Restated
  <1>9. account'.nonce \in Nat /\ history' = history
    BY DEF JobsInv, Restated
  <1>10. JobsInv'
    BY <1>5, <1>7, <1>8, <1>9, JobsChange
  <1>11. QED
    BY <1>2, <1>4, <1>10

\* The jobs that the workers and the batchers move: a new job, or an open one.
Moved(tx, row) ==
    /\ row \in JobRows /\ row.status # "confirmed"
    /\ DOMAIN jobs' = DOMAIN jobs \union {tx} /\ jobs' = [t \in DOMAIN jobs' |-> jobs'[t]]
    /\ jobs'[tx] = row /\ \A t \in DOMAIN jobs \ {tx} : jobs'[t] = jobs[t]
    /\ UNCHANGED <<account, history, actions>>

LEMMA WorkJobs ==
    ASSUME IndexInv, IndexInv', Grown, Marked, JobsInv, NEW tx, NEW row, Moved(tx, row),
           \/ tx.kind # "bridge"
           \/ WriterFree
           \/ tx \in DOMAIN jobs /\ ~Released(jobs[tx])
    PROVE  JobsInv'
  <1>1. jobs' \in [DOMAIN jobs' -> JobRows]
    BY DEF JobsInv, Moved
  <1>2. \A t, u \in OpenBatches' : t = u
    <2>1. OpenBatches' \subseteq OpenBatches \union {tx}
      BY DEF OpenBatches, Released, Moved
    <2>2. CASE tx.kind # "bridge"
      BY <2>1, <2>2 DEF OpenBatches, JobsInv
    <2>3. CASE WriterFree
      <3>1. OpenBatches = {}
        BY <2>3 DEF WriterFree, OpenBatches
      <3>2. QED
        BY <2>1, <3>1
    <2>4. CASE tx \in DOMAIN jobs /\ ~Released(jobs[tx]) /\ tx.kind = "bridge"
      <3>1. tx \in OpenBatches
        BY <2>4 DEF OpenBatches
      <3>2. QED
        BY <2>1, <3>1 DEF JobsInv
    <2>5. QED
      BY <2>2, <2>3, <2>4
  <1>3. \A t \in DOMAIN jobs' : jobs'[t].status = "confirmed" =>
           \/ InFinal(t, jobs'[t].block)
           \/ t \in DOMAIN jobs /\ jobs[t].status = "confirmed" /\ jobs'[t].block = jobs[t].block
    BY DEF Moved
  <1>4. account'.nonce \in Nat /\ history' = history
    BY DEF JobsInv, Moved
  <1>5. QED
    BY <1>1, <1>2, <1>3, <1>4, JobsChange

\* The transaction to recover next is in a block that is marked final.
LEMMA UnappliedFinal ==
    ASSUME IndexInv, Unapplied # {}
    PROVE  LET tx == NextUnapplied IN
           /\ tx \in Unapplied /\ Outermost(tx) /\ tx \in DOMAIN rows
           /\ rows[tx].n \in Nat /\ InFinal(tx, rows[tx].n)
           /\ \A t \in Unapplied : rows[tx].n <= rows[t].n
  <1> DEFINE tx == NextUnapplied
             D == {rows[t].n : t \in Unapplied}
  <1>1. IndexTyped /\ RowsInv
    BY DEF IndexInv
  <1>2. \A t \in Unapplied : t \in DOMAIN rows /\ Outermost(t) /\ Settled(rows[t])
    BY DEF Unapplied, Live, Outermost
  <1>3. \A t \in Unapplied : rows[t].n \in Nat
    BY <1>1, <1>2 DEF IndexTyped, EventRows
  <1>4. D \in SUBSET Nat /\ D # {}
    BY <1>3
  <1>5. PICK d \in D : \A e \in D : d <= e
    BY <1>4, SmallestNat
  <1>6. \E t \in Unapplied : \A u \in Unapplied : rows[t].n <= rows[u].n
    BY <1>5
  <1>7. tx \in Unapplied /\ \A t \in Unapplied : rows[tx].n <= rows[t].n
    BY <1>6 DEF NextUnapplied
  <1> HIDE DEF tx
  <1>8. InFinal(tx, rows[tx].n)
    <2>1. rows[tx].n \in 1..marked /\ blocks[rows[tx].n] = rows[tx].id
      BY <1>2, <1>7 DEF Settled
    <2>2. made[rows[tx].id] = tx
      BY <1>1, <1>2, <1>7 DEF RowsInv
    <2>3. QED
      BY <2>1, <2>2 DEF InFinal, EventAt
  <1>9. QED
    BY <1>2, <1>3, <1>7, <1>8 DEF tx

\* In finalized mode a step of reconcile_jobs applies a final transaction, or
\* moves a job that is not confirmed.
LEMMA Reconciled ==
    ASSUME IndexInv, FinalInv, Finalized, JobsInv, Reconcile
    PROVE  \E tx \in DOMAIN jobs :
             \E n \in Nat : \/ InFinal(tx, n) /\ Apply(tx, n, blocks[n], "reconciling")
                          \/ \E status \in Statuses : Restated(tx, n, status)
  <1>1. PICK tx \in {t \in DOMAIN jobs : Polled(t)} : \E n \in Receipt(tx) :
          ReconcileApplied(tx, n) \/ ReconcileReverted(tx, n) \/ ReconcileIncluded(tx, n)
    BY DEF Reconcile
  <1>2. PICK n \in Receipt(tx) :
          ReconcileApplied(tx, n) \/ ReconcileReverted(tx, n) \/ ReconcileIncluded(tx, n)
    BY <1>1
  <1>3. tick.at = "reconcile"
    BY DEF Reconcile, At
  <1>4. /\ n \in Nat /\ (TransactionFinal(n) <=> n \in 1..marked)
        /\ Succeeded(tx, n) /\ TransactionFinal(n) => InFinal(tx, n)
        /\ \A m : InFinal(tx, m) => m = n
    BY <1>3, ReceiptFinal
  <1>5. jobs[tx] \in JobRows
    BY DEF JobsInv
  <1>6. CASE ReconcileApplied(tx, n)
    <2>1. InFinal(tx, n) /\ Apply(tx, n, blocks[n], "reconciling") /\ n \in Nat
      BY <1>4, <1>6 DEF ReconcileApplied
    <2>2. QED
      BY <2>1
  <1>7. CASE ReconcileReverted(tx, n)
    <2>1. /\ jobs' = [jobs EXCEPT ![tx].status = "ethereum_reverted", ![tx].block = jobs[tx].block]
          /\ UNCHANGED <<account, history, actions>>
      BY <1>7 DEF ReconcileReverted, ReconcileStatus
    <2>2. jobs[tx].block \in Nat /\ "ethereum_reverted" \in Statuses
      BY <1>5 DEF JobRows, Statuses
    <2>3. Restated(tx, jobs[tx].block, "ethereum_reverted")
      BY <2>1 DEF Restated
    <2>4. QED
      BY <2>2, <2>3
  <1>8. CASE ReconcileIncluded(tx, n) /\ TransactionFinal(n)
    <2>1. /\ jobs' = [jobs EXCEPT ![tx].status = "confirmed", ![tx].block = n]
          /\ UNCHANGED <<account, history, actions>> /\ InFinal(tx, n)
      BY <1>4, <1>8 DEF ReconcileIncluded, ReconcileStatus
    <2>2. "confirmed" \in Statuses /\ n \in Nat
      BY <1>4 DEF Statuses
    <2>3. Restated(tx, n, "confirmed")
      BY <2>1 DEF Restated
    <2>4. QED
      BY <2>2, <2>3
  <1>9. CASE ReconcileIncluded(tx, n) /\ ~TransactionFinal(n)
    <2>1. /\ jobs' = [jobs EXCEPT ![tx].status = "submitted", ![tx].block = n]
          /\ UNCHANGED <<account, history, actions>> /\ jobs[tx].status # "reorged"
      BY <1>9 DEF ReconcileIncluded, ReconcileStatus
    <2>2. jobs[tx].status # "confirmed"
      <3>1. SUFFICES ASSUME jobs[tx].status = "confirmed" PROVE FALSE
        OBVIOUS
      <3>2. InFinal(tx, jobs[tx].block)
        BY <3>1 DEF JobsInv
      <3>3. jobs[tx].block = n
        BY <1>4, <3>2
      <3>4. n \in 1..marked
        BY <3>2, <3>3 DEF InFinal
      <3>5. QED
        BY <1>4, <1>9, <3>4
    <2>3. jobs[tx].status = "submitted"
      BY <2>1, <2>2 DEF Polled
    <2>4. ~Released(jobs[tx]) /\ "submitted" \in Statuses
      BY <2>3 DEF Released, Statuses
    <2>5. Restated(tx, n, "submitted") /\ n \in Nat
      BY <1>4, <2>1, <2>4 DEF Restated
    <2>6. QED
      BY <2>4, <2>5
  <1>10. QED
    BY <1>2, <1>6, <1>7, <1>8, <1>9

\* A job's row in another status.
LEMMA MovedJob ==
    ASSUME JobsInv, NEW tx \in DOMAIN jobs, jobs[tx].status = "queued",
           JobSubmitted \/ JobFailed,
           \/ jobs' = [jobs EXCEPT ![tx].status = "submitted", ![tx].signed = TRUE]
           \/ jobs' = [jobs EXCEPT ![tx].status = "failed"]
    PROVE  /\ \E row : Moved(tx, row) /\ row.recovered = jobs[tx].recovered
           /\ ~Released(jobs[tx])
  <1> DEFINE job == jobs[tx]
             sub == [job EXCEPT !.status = "submitted", !.signed = TRUE]
             fail == [job EXCEPT !.status = "failed"]
  <1>1. job \in JobRows /\ jobs = [t \in DOMAIN jobs |-> jobs[t]]
    BY DEF JobsInv
  <1>2. /\ sub \in JobRows /\ sub.status = "submitted" /\ sub.recovered = job.recovered
        /\ fail \in JobRows /\ fail.status = "failed" /\ fail.recovered = job.recovered
    <2> HIDE DEF job
    <2>1. "submitted" \in Statuses /\ "failed" \in Statuses
      BY DEF Statuses
    <2>2. QED
      BY <1>1, <2>1 DEF JobRows
  <1>3. jobs' = [jobs EXCEPT ![tx] = sub] \/ jobs' = [jobs EXCEPT ![tx] = fail]
    OBVIOUS
  <1> HIDE DEF sub, fail
  <1>4. PICK row \in {sub, fail} : jobs' = [jobs EXCEPT ![tx] = row]
    BY <1>3
  <1>5. /\ DOMAIN jobs' = DOMAIN jobs /\ jobs' = [t \in DOMAIN jobs' |-> jobs'[t]]
        /\ jobs'[tx] = row /\ \A t \in DOMAIN jobs \ {tx} : jobs'[t] = jobs[t]
    BY <1>1, <1>4
  <1>6. row \in JobRows /\ row.status # "confirmed" /\ row.recovered = job.recovered
    BY <1>2, <1>4
  <1>7. UNCHANGED <<account, history, actions>>
    BY DEF JobSubmitted, JobFailed
  <1>8. Moved(tx, row)
    BY <1>5, <1>6, <1>7 DEF Moved
  <1>9. ~Released(jobs[tx])
    BY DEF Released
  <1>10. QED
    BY <1>6, <1>8, <1>9

\* A new job.
LEMMA NewJob ==
    ASSUME NEW tx, NEW nonce \in Nat, jobs' = Upsert(jobs, {tx}, LAMBDA t : Job("queued", nonce, 0)),
           UNCHANGED <<account, history, actions>>
    PROVE  \E row : Moved(tx, row) /\ ~row.recovered
  <1> DEFINE row == Job("queued", nonce, 0)
  <1>1. row \in JobRows /\ row.status = "queued" /\ ~row.recovered
    BY DEF Job, JobRows, Statuses
  <1>2. jobs' = [key \in DOMAIN jobs \union {tx} |-> IF key \in {tx} THEN row ELSE jobs[key]]
    BY DEF Upsert
  <1> HIDE DEF row
  <1>3. /\ DOMAIN jobs' = DOMAIN jobs \union {tx} /\ jobs' = [t \in DOMAIN jobs' |-> jobs'[t]]
        /\ jobs'[tx] = row /\ \A t \in DOMAIN jobs \ {tx} : jobs'[t] = jobs[t]
    BY <1>2
  <1>4. QED
    BY <1>1, <1>3 DEF Moved

\* A known job's transaction is applied, or its row gets a status.
Handled(tx, n) ==
    \/ InFinal(tx, n) /\ \E phase : Apply(tx, n, blocks[n], phase)
    \/ \E status \in Statuses : Restated(tx, n, status)

\* A step that leaves the account and the jobs where they are, or is one of
\* the steps that move them.
LEMMA JobKinds ==
    ASSUME IndexInv, FinalInv, Finalized, JobsInv, DoneInv, [Next]_vars, ~LoseDatabase
    PROVE  \/ UNCHANGED <<jobs, account, history, actions>>
           \/ \E k \in Nat : marked <= k /\ AccountRolledBack(k)
           \/ RecoverJob
           \/ /\ UNCHANGED chainVars
              /\ \E tx \in DOMAIN jobs : \E n \in Nat : Handled(tx, n)
           \/ QueueSettlement
           \/ JobSubmitted
           \/ JobFailed
           \/ \E b \in Batchers : QueueBatch(b) /\ BatchQueues(b)
  <1>1. Len(blocks) \in Nat
    BY ChainTypes DEF IndexInv
  <1>2. CASE Tick
    <2>1. CASE (CheckTip /\ TipMoved) \/ OrphanedParent
      <3>1. PICK k \in 0..Len(blocks) : MayRollBack(k) /\ RollBack(k)
        BY <2>1, RollBackTo
      <3>2. k \in Nat /\ marked <= k /\ AccountRolledBack(k)
        BY <1>1, <3>1 DEF RollBack, MayRollBack
      <3>3. QED
        BY <3>2
    <2>2. CASE CheckTip /\ ~TipMoved
      BY <2>2 DEF CheckTip, accountVars
    <2>3. CASE IndexBlock \/ Recovered \/ EndTick
      BY <2>3 DEF IndexBlock, Recovered, EndTick, accountVars
    <2>4. CASE Recover /\ UNCHANGED <<chainVars, losses>>
      <3> DEFINE tx == NextUnapplied
      <3>1. /\ rows[tx].n \in Nat /\ InFinal(tx, rows[tx].n) /\ tx \in Unapplied
            /\ tx \in DOMAIN jobs /\ Apply(tx, rows[tx].n, rows[tx].id, "recovering")
        BY <2>4, UnappliedFinal DEF Recover
      <3> HIDE DEF tx
      <3>2. blocks[rows[tx].n] = rows[tx].id
        BY <3>1 DEF Unapplied, Settled
      <3>3. PICK n \in Nat : n = rows[tx].n
        BY <3>1
      <3>4. Handled(tx, n)
        BY <3>1, <3>2, <3>3 DEF Handled
      <3>5. QED
        BY <2>4, <3>1, <3>4
    <2>5. CASE Reconcile /\ UNCHANGED <<chainVars, losses>>
      <3>1. PICK tx \in DOMAIN jobs :
              \E n \in Nat : \/ InFinal(tx, n) /\ Apply(tx, n, blocks[n], "reconciling")
                             \/ \E status \in Statuses : Restated(tx, n, status)
        BY <2>5, Reconciled
      <3>2. PICK n \in Nat : Handled(tx, n)
        BY <3>1 DEF Handled
      <3>3. QED
        BY <2>5, <3>2
    <2>6. CASE Confirm /\ UNCHANGED <<chainVars, losses>>
      <3>1. PICK tx, n : tx = tick.done[1] /\ n = tick.done[2]
        OBVIOUS
      <3>2. tx \in DOMAIN jobs /\ InFinal(tx, n)
        BY <2>6, <3>1 DEF DoneInv, Confirm
      <3>3. n \in Nat
        BY <3>2 DEF InFinal
      <3>4. JobConfirmed(tx, n)
        BY <2>6, <3>1 DEF Confirm
      <3>5. Restated(tx, n, "confirmed") /\ "confirmed" \in Statuses
        BY <3>2, <3>4 DEF Restated, JobConfirmed, Statuses
      <3>6. Handled(tx, n)
        BY <3>5 DEF Handled
      <3>7. QED
        BY <2>6, <3>2, <3>3, <3>6
    <2>7. CASE IndexStep /\ UNCHANGED accountVars
      BY <2>7 DEF accountVars
    <2>8. QED
      BY <1>2, <2>1, <2>2, <2>3, <2>4, <2>5, <2>6, <2>7 DEF Tick, TickStep
  <1>3. CASE TickEnds \/ Chain \/ Archive
    BY <1>3 DEF TickEnds, Chain, Archive, accountVars
  <1>4. CASE Work
    BY <1>4 DEF Work
  <1>5. ASSUME NEW b \in Batchers, Batching(b)
        PROVE  \/ UNCHANGED <<jobs, account, history, actions>>
               \/ QueueBatch(b) /\ BatchQueues(b)
    BY <1>5 DEF Batching, accountVars, QueueBatch
  <1>6. CASE UNCHANGED vars
    BY <1>6 DEF vars, accountVars
  <1>7. QED
    BY <1>2, <1>3, <1>4, <1>5, <1>6 DEF Next

LEMMA JobsStep ==
    ASSUME IndexInv, FinalInv, Finalized, JobsInv, DoneInv, [Next]_vars, ~LoseDatabase,
           IndexInv', Grown, Marked
    PROVE  JobsInv'
  <1>1. CASE UNCHANGED <<jobs, account, history, actions>>
    <2>1. OpenBatches' = OpenBatches
      BY <1>1 DEF OpenBatches, Released
    <2>2. /\ jobs' \in [DOMAIN jobs' -> JobRows] /\ account'.nonce \in Nat
          /\ \A t, u \in OpenBatches' : t = u
      BY <1>1, <2>1 DEF JobsInv
    <2>3. QED
      BY <1>1, <2>2, JobsChange
  <1>2. CASE \E k \in Nat : marked <= k /\ AccountRolledBack(k)
    BY <1>2, RolledBackJobs
  <1>3. CASE RecoverJob
    <2> DEFINE tx == NextUnapplied
    <2>1. /\ rows[tx].n \in Nat /\ InFinal(tx, rows[tx].n)
          /\ JobRecovered(tx, rows[tx].n)
      BY <1>3, UnappliedFinal DEF RecoverJob
    <2> HIDE DEF tx
    <2>2. PICK n \in Nat : n = rows[tx].n
      BY <2>1
    <2>3. QED
      BY <2>1, <2>2, RecoveredJobs
  <1>4. CASE \E tx \in DOMAIN jobs : \E n \in Nat : Handled(tx, n)
    <2>1. PICK tx \in DOMAIN jobs : \E n \in Nat : Handled(tx, n)
      BY <1>4
    <2>2. PICK n \in Nat : Handled(tx, n)
      BY <2>1
    <2>3. CASE InFinal(tx, n) /\ \E phase : Apply(tx, n, blocks[n], phase)
      BY <2>3, AppliedJobs DEF Apply
    <2>4. CASE \E status \in Statuses : Restated(tx, n, status)
      BY <2>4, StatusJobs
    <2>5. QED
      BY <2>2, <2>3, <2>4 DEF Handled
  <1>5. CASE QueueSettlement
    <2>1. PICK sync, count : jobs' = Upsert(jobs,
            {Proved("settlement", nextJob, account.state,
                    <<Commit(sync, InnerLength(account.state), count)>>)},
            LAMBDA tx : Job("queued", account.nonce, 0))
      BY <1>5 DEF QueueSettlement
    <2>2. PICK tx : tx = Proved("settlement", nextJob, account.state,
                                <<Commit(sync, InnerLength(account.state), count)>>)
      OBVIOUS
    <2>3. tx.kind # "bridge"
      BY <2>2 DEF Proved
    <2>4. PICK nonce \in Nat : nonce = account.nonce
      BY DEF JobsInv
    <2>5. jobs' = Upsert(jobs, {tx}, LAMBDA t : Job("queued", nonce, 0))
      BY <2>1, <2>2, <2>4
    <2>6. UNCHANGED <<account, history, actions>>
      BY <1>5 DEF QueueSettlement
    <2>7. PICK row : Moved(tx, row)
      BY <2>5, <2>6, NewJob
    <2>8. QED
      BY <2>3, <2>7, WorkJobs
  <1>6. CASE JobSubmitted \/ JobFailed
    <2>1. PICK tx \in DOMAIN jobs :
            /\ jobs[tx].status = "queued"
            /\ \/ jobs' = [jobs EXCEPT ![tx].status = "submitted", ![tx].signed = TRUE]
               \/ jobs' = [jobs EXCEPT ![tx].status = "failed"]
      BY <1>6 DEF JobSubmitted, JobFailed
    <2>2. PICK row : Moved(tx, row) /\ ~Released(jobs[tx])
      BY <1>6, <2>1, MovedJob
    <2>3. QED
      BY <2>2, WorkJobs
  <1>7. CASE \E b \in Batchers : QueueBatch(b) /\ BatchQueues(b)
    <2>1. PICK b \in Batchers : QueueBatch(b) /\ BatchQueues(b)
      BY <1>7
    <2>2. PICK tx : tx = Proved("bridge", nextJob, batch[b].base, batch[b].pending)
      OBVIOUS
    <2>3. /\ jobs' = Upsert(jobs, {tx}, LAMBDA t : Job("queued", 0, 0)) /\ WriterFree
          /\ UNCHANGED <<account, history, actions>>
      BY <2>1, <2>2 DEF QueueBatch, BatchQueues
    <2>4. PICK nonce \in Nat : nonce = 0
      OBVIOUS
    <2>5. jobs' = Upsert(jobs, {tx}, LAMBDA t : Job("queued", nonce, 0))
      BY <2>3, <2>4
    <2>6. PICK row : Moved(tx, row)
      BY <2>3, <2>5, NewJob
    <2>7. QED
      BY <2>3, <2>6, WorkJobs
  <1>8. QED
    BY <1>1, <1>2, <1>3, <1>4, <1>5, <1>6, <1>7, JobKinds

\* The tick confirms what it has just applied.
LEMMA DoneStep ==
    ASSUME IndexInv, FinalInv, Finalized, JobsInv, DoneInv, [Next]_vars, ~LoseDatabase,
           IndexInv', Grown, Marked
    PROVE  DoneInv'
  <1> DEFINE Applying == {"recovering", "reconciling"}
  <1>1. IndexTyped
    BY DEF IndexInv
  <1>2. ASSUME tick'.at \notin Applying
        PROVE  DoneInv'
    BY <1>2 DEF DoneInv
  <1>3. ASSUME UNCHANGED tick, tick.at \notin Applying \/ DOMAIN jobs \subseteq DOMAIN jobs'
        PROVE  DoneInv'
    <2>1. PICK tx, n : tx = tick.done[1] /\ n = tick.done[2]
      OBVIOUS
    <2>2. CASE tick.at \in Applying
      <3>1. tx \in DOMAIN jobs /\ InFinal(tx, n)
        BY <2>1, <2>2 DEF DoneInv
      <3>2. InFinal(tx, n)'
        BY <3>1, StillFinal
      <3>3. QED
        BY <1>3, <2>1, <2>2, <3>1, <3>2 DEF DoneInv, InFinal, EventAt
    <2>3. CASE tick.at \notin Applying
      BY <1>2, <1>3, <2>3
    <2>4. QED
      BY <2>2, <2>3
  <1>4. ASSUME NEW tx \in DOMAIN jobs, NEW n, NEW id, NEW phase, InFinal(tx, n),
               Apply(tx, n, id, phase)
        PROVE  DoneInv'
    <2>1. jobs' = jobs /\ tick'.done = <<tx, n>>
      BY <1>1, <1>4, ApplyGoes
    <2>2. tick'.done[1] = tx /\ tick'.done[2] = n
      BY <2>1
    <2>3. InFinal(tx, n)'
      BY <1>4, StillFinal
    <2>4. QED
      BY <2>1, <2>2, <2>3 DEF DoneInv, InFinal, EventAt
  <1>5. ASSUME NEW phase, phase \notin Applying, GoesTo(phase)
        PROVE  DoneInv'
    BY <1>2, <1>5 DEF GoesTo
  <1>6. Idle.at \notin Applying
    BY DEF Idle
  <1>7. CASE TickStep
    <2>1. CASE CheckTip \/ Recovered
      BY <1>1, <1>5, <2>1, Goes DEF CheckTip, Recovered
    <2>2. CASE IndexBlock \/ RecoverJob
      BY <1>3, <2>2 DEF IndexBlock, BlockIndexed, RecoverJob, indexVars, At
    <2>3. CASE OrphanedParent \/ EndTick
      BY <1>2, <1>6, <2>3 DEF OrphanedParent, EndTick
    <2>4. CASE Recover
      BY <1>4, <2>4, UnappliedFinal DEF Recover
    <2>5. CASE Reconcile
      <3>1. PICK tx \in DOMAIN jobs : \E n \in Receipt(tx) :
              ReconcileApplied(tx, n) \/ ReconcileReverted(tx, n) \/ ReconcileIncluded(tx, n)
        BY <2>5 DEF Reconcile
      <3>2. PICK n \in Receipt(tx) :
              ReconcileApplied(tx, n) \/ ReconcileReverted(tx, n) \/ ReconcileIncluded(tx, n)
        BY <3>1
      <3>3. tick.at = "reconcile"
        BY <2>5 DEF Reconcile, At
      <3>4. CASE ReconcileApplied(tx, n)
        <4>1. InFinal(tx, n) /\ Apply(tx, n, blocks[n], "reconciling")
          BY <3>3, <3>4, ReceiptFinal DEF ReconcileApplied
        <4>2. QED
          BY <1>4, <4>1
      <3>5. CASE ReconcileReverted(tx, n) \/ ReconcileIncluded(tx, n)
        BY <1>3, <3>3, <3>5 DEF ReconcileReverted, ReconcileIncluded, ReconcileStatus, indexVars
      <3>6. QED
        BY <3>2, <3>4, <3>5
    <2>6. CASE Confirm
      BY <1>1, <1>5, <2>6, ConfirmGoes
    <2>7. QED
      BY <1>7, <2>1, <2>2, <2>3, <2>4, <2>5, <2>6 DEF TickStep
  <1>8. CASE IndexStep
    <2>1. CASE BeginTick
      <3>1. tick' = [at |-> "tip", head |-> Len(chain), fin |-> final, done |-> << >>]
        BY <2>1 DEF BeginTick, Idle
      <3>2. QED
        BY <1>2, <3>1
    <2>2. CASE FinishBlocks
      <3>1. PICK phase \in {"transitions", "recover"} : Goto(phase)
        BY <2>2 DEF FinishBlocks
      <3>2. QED
        BY <1>1, <1>5, <3>1, Goes
    <2>3. CASE IndexTransitions \/ IndexSettlements \/ IndexBatches \/ IndexClaims
      <3>1. PICK phase \in {"settlements", "batches", "claims", "recover"} : Goto(phase)
        BY <2>3 DEF IndexTransitions, IndexSettlements, IndexBatches, IndexClaims
      <3>2. QED
        BY <1>1, <1>5, <3>1, Goes
    <2>4. QED
      BY <1>8, <2>1, <2>2, <2>3 DEF IndexStep
  <1>9. CASE TickEnds
    BY <1>2, <1>6, <1>9 DEF TickEnds, TickFails
  <1>10. CASE Chain \/ Archive
    BY <1>3, <1>10 DEF Chain, Archive, indexVars, accountVars
  <1>11. CASE Work
    <2>1. DOMAIN jobs \subseteq DOMAIN jobs'
      BY <1>11 DEF Work, QueueSettlement, JobSubmitted, JobFailed, Upsert
    <2>2. QED
      BY <1>3, <1>11, <2>1 DEF Work, indexVars
  <1>12. ASSUME NEW b \in Batchers, Batching(b)
         PROVE  DoneInv'
    <2>1. DOMAIN jobs \subseteq DOMAIN jobs'
      BY <1>12 DEF Batching, QueueBatch, Upsert, accountVars
    <2>2. QED
      BY <1>3, <1>12, <2>1 DEF Batching, indexVars
  <1>13. CASE UNCHANGED vars
    BY <1>3, <1>13 DEF vars, indexVars, accountVars
  <1>14. QED
    BY <1>7, <1>8, <1>9, <1>10, <1>11, <1>12, <1>13 DEF Next, Tick

LEMMA JobsEmpty ==
    ASSUME IndexInv', jobs' = << >>, history' = << >>, account'.nonce = 0,
           marked' = 0, tick' = Idle
    PROVE  FinalInv' /\ JobsInv' /\ DoneInv'
  <1>1. tick'.fin = 0 /\ tick'.at \notin Late
    BY DEF Idle, Late, Scanning
  <1>2. final' \in Nat
    BY DEF IndexInv, ChainTyped
  <1>3. FinalInv'
    BY <1>1, <1>2 DEF FinalInv
  <1>4. JobsInv'
    BY DEF JobsInv, OpenBatches
  <1>5. DoneInv'
    BY DEF DoneInv, Idle
  <1>6. QED
    BY <1>3, <1>4, <1>5

BatchInv == IndexInv /\ (Finalized => FinalInv /\ JobsInv /\ DoneInv)

LEMMA BatchInitial ==
    ASSUME Init
    PROVE  BatchInv
  <1>1. IndexInv
    BY IndexInitial
  <1>2. /\ jobs = << >> /\ history = << >> /\ account = [state |-> << >>, nonce |-> 0]
        /\ marked = 0 /\ tick = Idle
    BY DEF Init, AccountInit, IndexInit
  <1>3. tick.fin = 0 /\ tick.at \notin Late
    BY <1>2 DEF Idle, Late, Scanning
  <1>4. final \in Nat
    BY <1>1 DEF IndexInv, ChainTyped
  <1>5. FinalInv
    BY <1>2, <1>3, <1>4 DEF FinalInv
  <1>6. JobsInv
    BY <1>2 DEF JobsInv, OpenBatches
  <1>7. DoneInv
    BY <1>2 DEF DoneInv, Idle
  <1>8. QED
    BY <1>1, <1>5, <1>6, <1>7 DEF BatchInv

LEMMA BatchNext ==
    ASSUME BatchInv, [Next]_vars
    PROVE  BatchInv'
  <1>1. IndexInv /\ IndexInv' /\ Grown
    BY IndexNext, ChainGrown DEF BatchInv
  <1>2. Finalized' = Finalized
    BY <1>1 DEF Finalized, Confirmations, Grown
  <1>3. ASSUME Finalized PROVE FinalInv' /\ JobsInv' /\ DoneInv'
    <2>1. FinalInv /\ JobsInv /\ DoneInv
      BY <1>3 DEF BatchInv
    <2>2. CASE LoseDatabase
      <3>1. /\ jobs' = << >> /\ history' = << >> /\ account' = [state |-> << >>, nonce |-> 0]
            /\ marked' = 0 /\ tick' = Idle
        BY <2>2 DEF LoseDatabase
      <3>2. QED
        BY <1>1, <3>1, JobsEmpty
    <2>3. CASE ~LoseDatabase
      <3>1. FinalInv' /\ Marked
        BY <1>1, <1>3, <2>1, <2>3, FinalStep
      <3>2. QED
        BY <1>1, <1>3, <2>1, <2>3, <3>1, JobsStep, DoneStep
    <2>4. QED
      BY <2>2, <2>3
  <1>4. QED
    BY <1>1, <1>2, <1>3 DEF BatchInv

\* One batch at a time: no deposit is proved, or paid for, in two
\* (queue_canonical_deposit_batch under the writer's lock, reconcile_jobs and
\* rollback_after, which never open a confirmed batch again).
THEOREM BatchesApart == Spec => [](Finalized => OneBatchPerDeposit)
  <1>1. Init => BatchInv
    BY BatchInitial
  <1>2. BatchInv /\ [Next]_vars => BatchInv'
    BY BatchNext
  <1>3. BatchInv => (Finalized => OneBatchPerDeposit)
    BY DEF BatchInv, JobsInv, OneBatchPerDeposit
  <1>4. QED
    BY <1>1, <1>2, <1>3, PTL DEF Spec

-----------------------------------------------------------------------------
(* The outer log: what the transactions append, one after another.         *)

\* f gives the concatenation of the first parts, for each number of them.
Flats(parts, m, f) ==
    f = [i \in 1..m |-> IF i = 1 THEN parts[i] ELSE f[i - 1] \o parts[i]]

LEMMA FlatsSteps ==
    ASSUME NEW parts, NEW m \in Nat, NEW f, Flats(parts, m, f)
    PROVE  \A i \in 1..m : f[i] = IF i = 1 THEN parts[i] ELSE f[i - 1] \o parts[i]
  BY Zenon DEF Flats

LEMMA FlatsMore ==
    ASSUME NEW parts, NEW m \in Nat, NEW f, Flats(parts, m, f)
    PROVE  \E g : Flats(parts, m + 1, g)
  <1> DEFINE end == IF m + 1 = 1 THEN parts[m + 1] ELSE f[m] \o parts[m + 1]
             g == [i \in 1..(m + 1) |-> IF i = m + 1 THEN end ELSE f[i]]
  <1>1. \A i \in 1..m : f[i] = IF i = 1 THEN parts[i] ELSE f[i - 1] \o parts[i]
    BY FlatsSteps
  <1>2. ASSUME NEW i \in 1..(m + 1)
        PROVE  g[i] = IF i = 1 THEN parts[i] ELSE g[i - 1] \o parts[i]
    <2>1. CASE i = m + 1
      <3>1. i - 1 = m /\ (i # 1 => m \in 1..(m + 1) /\ m # m + 1)
        BY <2>1
      <3>2. g[i] = end /\ (i # 1 => g[i - 1] = f[m])
        BY <2>1, <3>1
      <3> HIDE DEF g
      <3>3. QED
        BY <2>1, <3>2
    <2>2. CASE i \in 1..m
      <3>1. i # m + 1 /\ (i # 1 => i - 1 \in 1..(m + 1) /\ i - 1 # m + 1)
        BY <2>2
      <3>2. g[i] = f[i] /\ (i # 1 => g[i - 1] = f[i - 1])
        BY <3>1
      <3> HIDE DEF g
      <3>3. QED
        BY <1>1, <2>2, <3>2
    <2>3. QED
      BY <2>1, <2>2
  <1>3. Flats(parts, m + 1, g)
    <2>1. g = [i \in 1..(m + 1) |-> g[i]]
      OBVIOUS
    <2> HIDE DEF g
    <2>2. QED
      BY <1>2, <2>1 DEF Flats
  <1>4. QED
    BY <1>3

LEMMA FlatsExists ==
    ASSUME NEW parts, NEW m \in Nat
    PROVE  \E f : Flats(parts, m, f)
  <1> DEFINE D == {n \in Nat : ~\E f : Flats(parts, n, f)}
  <1>1. SUFFICES ASSUME D # {} PROVE FALSE
    BY <1>1
  <1>2. PICK n \in D : \A k \in D : n <= k
    BY <1>1, SmallestNat
  <1>3. n # 0
    <2> DEFINE f == [k \in 1..0 |-> << >>]
    <2>1. Flats(parts, 0, f)
      BY DEF Flats
    <2>2. QED
      BY <2>1
  <1>4. n - 1 \in Nat /\ n - 1 \notin D /\ n - 1 + 1 = n
    BY <1>2, <1>3
  <1>5. PICK f : Flats(parts, n - 1, f)
    BY <1>4
  <1>6. \E g : Flats(parts, n, g)
    BY <1>4, <1>5, FlatsMore
  <1>7. QED
    BY <1>6

\* The first k parts.
Flat(p, k) == FlattenSeq([i \in 1..k |-> p[i]])

LEMMA FlatZero ==
    ASSUME NEW p
    PROVE  Flat(p, 0) = << >>
  <1> DEFINE none == [i \in 1..0 |-> p[i]]
  <1>1. none = << >> /\ Len(none) = 0
    OBVIOUS
  <1>2. QED
    BY <1>1 DEF Flat, FlattenSeq

LEMMA FlatIs ==
    ASSUME NEW p, NEW k \in Nat, k # 0, NEW f, Flats(p, k, f)
    PROVE  Flat(p, k) = f[k]
  <1> DEFINE s == [i \in 1..k |-> p[i]]
             g == CHOOSE g : Flats(s, k, g)
  <1>1. Len(s) = k
    OBVIOUS
  <1>2. FlattenSeq(s) = g[k]
    <2> HIDE DEF s
    <2>1. QED
      BY <1>1 DEF FlattenSeq, Flats
  <1>3. Flats(s, k, g)
    BY FlatsExists, Zenon
  <1> HIDE DEF g
  <1>4. \A i \in 1..k : g[i] = IF i = 1 THEN p[i] ELSE g[i - 1] \o p[i]
    <2>1. \A i \in 1..k : s[i] = p[i]
      OBVIOUS
    <2> HIDE DEF s
    <2>2. \A i \in 1..k : g[i] = IF i = 1 THEN s[i] ELSE g[i - 1] \o s[i]
      BY <1>3, FlatsSteps
    <2>3. QED
      BY <2>1, <2>2
  <1>5. \A i \in 1..k : f[i] = IF i = 1 THEN p[i] ELSE f[i - 1] \o p[i]
    BY FlatsSteps
  <1> DEFINE D == {i \in 1..k : f[i] # g[i]}
  <1>6. D = {}
    <2>1. SUFFICES ASSUME D # {} PROVE FALSE
      OBVIOUS
    <2>2. D \in SUBSET Nat
      OBVIOUS
    <2>3. PICK i \in D : \A j \in D : i <= j
      BY <2>1, <2>2, SmallestNat
    <2>4. i \in 1..k /\ f[i] # g[i] /\ (i # 1 => i - 1 \in 1..k /\ ~(i <= i - 1))
      OBVIOUS
    <2>5. i # 1 => f[i - 1] = g[i - 1]
      BY <2>3, <2>4
    <2>6. QED
      BY <1>4, <1>5, <2>4, <2>5
  <1>7. QED
    BY <1>2, <1>6 DEF Flat

LEMMA FlatStep ==
    ASSUME NEW S, NEW k \in Nat, NEW p, \A i \in 1..(k + 1) : p[i] \in Seq(S)
    PROVE  Flat(p, k + 1) = Flat(p, k) \o p[k + 1]
  <1>0. k + 1 \in Nat
    OBVIOUS
  <1>1. PICK f : Flats(p, k + 1, f)
    BY <1>0, FlatsExists
  <1>2. \A i \in 1..(k + 1) : f[i] = IF i = 1 THEN p[i] ELSE f[i - 1] \o p[i]
    BY <1>1, FlatsSteps
  <1>3. Flat(p, k + 1) = f[k + 1]
    <2>1. k + 1 \in Nat /\ k + 1 # 0
      OBVIOUS
    <2>2. QED
      BY <1>1, <2>1, FlatIs
  <1>4. CASE k = 0
    <2>1. Flat(p, k) = << >>
      BY <1>4, FlatZero
    <2>2. f[k + 1] = p[k + 1] /\ p[k + 1] \in Seq(S)
      BY <1>2, <1>4
    <2>3. QED
      BY <1>3, <2>1, <2>2
  <1>5. CASE k # 0
    <2> DEFINE g == [i \in 1..k |-> f[i]]
    <2>1. \A i \in 1..k : i \in 1..(k + 1) /\ (i # 1 => i - 1 \in 1..k)
      OBVIOUS
    <2>2. Flats(p, k, g)
      <3>1. \A i \in 1..k : g[i] = IF i = 1 THEN p[i] ELSE g[i - 1] \o p[i]
        BY <1>2, <2>1
      <3>2. g = [i \in 1..k |-> g[i]]
        OBVIOUS
      <3> HIDE DEF g
      <3>3. QED
        BY <3>1, <3>2 DEF Flats
    <2>3. g[k] = f[k]
      BY <1>5
    <2> HIDE DEF g
    <2>4. Flat(p, k) = f[k]
      BY <1>5, <2>2, <2>3, FlatIs
    <2>5. f[k + 1] = f[k] \o p[k + 1]
      <3> DEFINE j == k + 1
      <3>1. j \in 1..(k + 1) /\ j # 1 /\ j - 1 = k
        BY <1>5
      <3>2. f[j] = IF j = 1 THEN p[j] ELSE f[j - 1] \o p[j]
        BY <1>2, <3>1
      <3> HIDE DEF j
      <3>3. f[j] = f[k] \o p[j]
        BY <3>1, <3>2
      <3>4. QED
        BY <3>3 DEF j
    <2>6. QED
      BY <1>3, <2>4, <2>5
  <1>6. QED
    BY <1>4, <1>5

LEMMA FlatTyped ==
    ASSUME NEW S, NEW k \in Nat, NEW p, \A i \in 1..k : p[i] \in Seq(S)
    PROVE  Flat(p, k) \in Seq(S)
  <1> DEFINE D == {j \in 0..k : Flat(p, j) \notin Seq(S)}
  <1>1. SUFFICES ASSUME D # {} PROVE FALSE
    BY <1>1
  <1>2. D \in SUBSET Nat
    OBVIOUS
  <1>3. PICK j \in D : \A i \in D : j <= i
    BY <1>1, <1>2, SmallestNat
  <1>4. j # 0
    BY FlatZero, EmptySeq
  <1> DEFINE i == j - 1
  <1>5. i \in Nat /\ i \notin D /\ i \in 0..k /\ i + 1 = j /\ j \in 1..k
    BY <1>3, <1>4
  <1> HIDE DEF i
  <1>6. Flat(p, i) \in Seq(S)
    BY <1>5
  <1>7. \A l \in 1..(i + 1) : p[l] \in Seq(S)
    BY <1>5
  <1>8. Flat(p, i + 1) = Flat(p, i) \o p[i + 1] /\ p[i + 1] \in Seq(S)
    BY <1>5, <1>7, FlatStep
  <1>9. Flat(p, i + 1) \in Seq(S)
    BY <1>6, <1>8, ConcatProperties
  <1>10. QED
    BY <1>5, <1>9

\* What the parts from j + 1 to l append.
Adding(S, p, j, l, rest) ==
    /\ rest \in Seq(S) /\ Flat(p, l) = Flat(p, j) \o rest
    /\ \A i \in (j + 1)..l : Len(p[i]) <= Len(rest)
    /\ (\A i \in (j + 1)..l : p[i] = << >>) => rest = << >>

LEMMA FlatGrows ==
    ASSUME NEW S, NEW k \in Nat, NEW j \in 0..k, NEW p, \A i \in 1..k : p[i] \in Seq(S)
    PROVE  \E rest : Adding(S, p, j, k, rest)
  <1> DEFINE D == {l \in j..k : ~\E rest : Adding(S, p, j, l, rest)}
  <1>0. k \in j..k
    OBVIOUS
  <1>1. SUFFICES ASSUME D # {} PROVE FALSE
    BY <1>0
  <1>2. D \in SUBSET Nat
    OBVIOUS
  <1>3. PICK l \in D : \A i \in D : l <= i
    BY <1>1, <1>2, SmallestNat
  <1>4. Flat(p, j) \in Seq(S)
    BY FlatTyped
  <1>5. l # j
    <2>1. Flat(p, j) = Flat(p, j) \o << >>
      BY <1>4
    <2>2. Adding(S, p, j, j, << >>)
      BY <2>1, EmptySeq DEF Adding
    <2>3. QED
      BY <2>2
  <1> DEFINE i == l - 1
  <1>6. /\ i \in Nat /\ i \notin D /\ i \in j..k /\ i + 1 = l
        /\ l \in 1..k /\ l \in j..k /\ l \notin (j + 1)..i
    <2>1. l \in j..k
      BY <1>3
    <2>2. ~(l <= i) /\ i \in j..k /\ i \in Nat /\ i + 1 = l /\ l \in 1..k /\ l \notin (j + 1)..i
      BY <2>1, <1>5
    <2> HIDE DEF D, i
    <2>3. QED
      BY <1>3, <2>1, <2>2
  <1> HIDE DEF i
  <1>7. PICK rest : Adding(S, p, j, i, rest)
    BY <1>6
  <1>8. Flat(p, l) = Flat(p, i) \o p[l] /\ p[l] \in Seq(S)
    <2>1. \A h \in 1..(i + 1) : p[h] \in Seq(S)
      BY <1>6
    <2>2. Flat(p, i + 1) = Flat(p, i) \o p[i + 1]
      BY <1>6, <2>1, FlatStep
    <2>3. QED
      BY <1>6, <2>2
  <1> DEFINE more == rest \o p[l]
  <1>9. rest \in Seq(S) /\ Flat(p, i) = Flat(p, j) \o rest
    BY <1>7 DEF Adding
  <1>10. /\ more \in Seq(S) /\ Len(more) = Len(rest) + Len(p[l]) /\ Len(rest) \in Nat /\ Len(p[l]) \in Nat
         /\ (rest = << >> /\ p[l] = << >> => more = << >>)
    BY <1>8, <1>9, ConcatProperties, LenProperties
  <1>11. Flat(p, l) = Flat(p, j) \o more
    <2>1. PICK x \in Seq(S) : x = Flat(p, j)
      BY <1>4
    <2>2. PICK y \in Seq(S) : y = p[l]
      BY <1>8
    <2>3. (x \o rest) \o y = x \o (rest \o y)
      BY <1>9, ConcatAssociative
    <2>4. QED
      BY <1>8, <1>9, <2>1, <2>2, <2>3, Zenon
  <1> HIDE DEF more
  <1>12. \A h \in (j + 1)..l : Len(p[h]) <= Len(more)
    <2> TAKE h \in (j + 1)..l
    <2>1. CASE h = l
      BY <1>10, <2>1
    <2>2. CASE h # l
      <3>1. h \in (j + 1)..i /\ h \in 1..k
        BY <1>6, <2>2
      <3>2. Len(p[h]) <= Len(rest) /\ Len(p[h]) \in Nat
        BY <1>7, <3>1, LenProperties DEF Adding
      <3>3. QED
        BY <1>10, <3>2
    <2>3. QED
      BY <2>1, <2>2
  <1>13. (\A h \in (j + 1)..l : p[h] = << >>) => more = << >>
    <2>1. \A h \in (j + 1)..i : h \in (j + 1)..l
      BY <1>6
    <2>2. l \in (j + 1)..l
      BY <1>5, <1>6
    <2>3. QED
      BY <1>7, <1>10, <2>1, <2>2 DEF Adding
  <1>14. Adding(S, p, j, l, more)
    BY <1>10, <1>11, <1>12, <1>13 DEF Adding
  <1>15. QED
    BY <1>14

\* A transaction takes a log to a longer one.
Extends(tx) == IsLog(tx.base) /\ IsLog(tx.actions) /\ tx.actions # << >>

\* What the blocks c of the chain append, m being their events.
Parts(m, c) == [i \in DOMAIN c |-> IF Outermost(m[c[i]]) THEN m[c[i]].actions ELSE << >>]

LogOf(m, c, k) == Flat(Parts(m, c), k)

Logged(m, c) ==
    /\ Len(c) \in Nat /\ DOMAIN c = 1..Len(c)
    /\ \A i \in DOMAIN c : Outermost(m[c[i]]) => Extends(m[c[i]])

LEMMA SeqIsLog ==
    ASSUME NEW S, NEW s \in Seq(S)
    PROVE  IsLog(s)
  <1>1. Len(s) \in Nat /\ s \in [1..Len(s) -> S]
    BY LenProperties
  <1>2. s \in [1..Len(s) -> Range(s)]
    BY <1>1 DEF Range
  <1>3. QED
    BY <1>1, <1>2, SeqDef DEF IsLog

LEMMA PartsTyped ==
    ASSUME NEW m, NEW c, Logged(m, c)
    PROVE  \E S : \A i \in 1..Len(c) :
             /\ Parts(m, c)[i] \in Seq(S)
             /\ Outermost(m[c[i]]) => Parts(m, c)[i] = m[c[i]].actions /\ Len(Parts(m, c)[i]) > 0
             /\ ~Outermost(m[c[i]]) => Parts(m, c)[i] = << >>
  <1> DEFINE p == Parts(m, c)
             S == UNION {Range(p[i]) : i \in 1..Len(c)}
  <1>1. \A i \in 1..Len(c) :
          /\ Outermost(m[c[i]]) => p[i] = m[c[i]].actions
          /\ ~Outermost(m[c[i]]) => p[i] = << >>
    BY DEF Parts, Logged
  <1> HIDE DEF p
  <1>2. ASSUME NEW i \in 1..Len(c)
        PROVE  IsLog(p[i]) /\ (Outermost(m[c[i]]) => p[i] # << >>)
    <2>1. CASE Outermost(m[c[i]])
      BY <1>1, <2>1 DEF Logged, Extends
    <2>2. CASE ~Outermost(m[c[i]])
      BY <1>1, <2>2, EmptySeq DEF IsLog
    <2>3. QED
      BY <2>1, <2>2
  <1>3. ASSUME NEW i \in 1..Len(c)
        PROVE  p[i] \in Seq(S) /\ (Outermost(m[c[i]]) => Len(p[i]) > 0)
    <2>1. Range(p[i]) \subseteq S
      OBVIOUS
    <2> HIDE DEF S
    <2>2. p[i] \in Seq(S)
      BY <1>2, <2>1, SeqMonotonic DEF IsLog
    <2>3. p[i] # << >> => Len(p[i]) > 0
      BY <2>2, EmptySeq, LenProperties
    <2>4. QED
      BY <1>2, <2>2, <2>3
  <1> HIDE DEF S
  <1>4. QED
    BY <1>1, <1>3 DEF p

LEMMA LogZero ==
    ASSUME NEW m, NEW c
    PROVE  LogOf(m, c, 0) = << >>
  BY FlatZero DEF LogOf

\* The log of some blocks and of more of them.
LEMMA LogGrows ==
    ASSUME NEW m, NEW c, Logged(m, c), NEW k \in 0..Len(c), NEW j \in 0..k
    PROVE  /\ IsLog(LogOf(m, c, j)) /\ IsLog(LogOf(m, c, k))
           /\ IsPrefix(LogOf(m, c, j), LogOf(m, c, k))
           /\ Len(LogOf(m, c, k)) <= Len(LogOf(m, c, j)) =>
                \A i \in (j + 1)..k : ~Outermost(m[c[i]])
           /\ (\A i \in (j + 1)..k : ~Outermost(m[c[i]])) => LogOf(m, c, k) = LogOf(m, c, j)
  <1> DEFINE p == Parts(m, c)
  <1>1. PICK S : \A i \in 1..Len(c) :
             /\ p[i] \in Seq(S)
             /\ Outermost(m[c[i]]) => p[i] = m[c[i]].actions /\ Len(p[i]) > 0
             /\ ~Outermost(m[c[i]]) => p[i] = << >>
    BY PartsTyped
  <1> HIDE DEF p
  <1>2. Len(c) \in Nat /\ k \in Nat /\ j \in Nat /\ j <= k /\ k <= Len(c)
    BY DEF Logged
  <1>3. (\A i \in 1..k : p[i] \in Seq(S)) /\ (\A i \in 1..j : p[i] \in Seq(S))
    BY <1>1, <1>2
  <1>4. Flat(p, j) \in Seq(S) /\ Flat(p, k) \in Seq(S)
    BY <1>2, <1>3, FlatTyped
  <1>5. PICK rest : Adding(S, p, j, k, rest)
    BY <1>2, <1>3, FlatGrows
  <1>6. rest \in Seq(S) /\ Flat(p, k) = Flat(p, j) \o rest
    BY <1>5 DEF Adding
  <1>7. IsPrefix(Flat(p, j), Flat(p, k))
    BY <1>4, <1>6, ExtensionHasPrefix
  <1>8. Len(Flat(p, k)) = Len(Flat(p, j)) + Len(rest) /\ Len(rest) \in Nat /\ Len(Flat(p, j)) \in Nat
    BY <1>4, <1>6, ConcatProperties, LenProperties
  <1>9. ASSUME Len(Flat(p, k)) <= Len(Flat(p, j)), NEW i \in (j + 1)..k
        PROVE  ~Outermost(m[c[i]])
    <2>1. i \in 1..Len(c)
      BY <1>2
    <2>2. Len(rest) = 0
      BY <1>8, <1>9
    <2>3. Len(p[i]) <= 0
      BY <1>5, <2>2 DEF Adding
    <2>4. p[i] \in Seq(S) /\ Len(p[i]) \in Nat
      BY <1>1, <2>1, LenProperties
    <2>5. QED
      BY <1>1, <2>1, <2>3, <2>4
  <1>10. ASSUME \A i \in (j + 1)..k : ~Outermost(m[c[i]])
         PROVE  Flat(p, k) = Flat(p, j)
    <2>1. \A i \in (j + 1)..k : i \in 1..Len(c)
      BY <1>2
    <2>2. \A i \in (j + 1)..k : p[i] = << >>
      BY <1>1, <1>10, <2>1
    <2>3. rest = << >>
      BY <1>5, <2>2 DEF Adding
    <2>4. QED
      BY <1>4, <1>6, <2>3
  <1>11. IsLog(Flat(p, j)) /\ IsLog(Flat(p, k))
    BY <1>4, SeqIsLog
  <1>12. QED
    BY <1>7, <1>9, <1>10, <1>11 DEF LogOf, p

\* A block appends its transaction's actions.
LEMMA LogNext ==
    ASSUME NEW m, NEW c, Logged(m, c), NEW k \in 1..Len(c), Outermost(m[c[k]])
    PROVE  LogOf(m, c, k) = LogOf(m, c, k - 1) \o m[c[k]].actions
  <1> DEFINE p == Parts(m, c)
             i == k - 1
  <1>1. PICK S : \A h \in 1..Len(c) :
             /\ p[h] \in Seq(S)
             /\ Outermost(m[c[h]]) => p[h] = m[c[h]].actions /\ Len(p[h]) > 0
             /\ ~Outermost(m[c[h]]) => p[h] = << >>
    BY PartsTyped
  <1> HIDE DEF p
  <1>2. i \in Nat /\ i + 1 = k /\ \A h \in 1..(i + 1) : h \in 1..Len(c)
    BY DEF Logged
  <1>3. p[k] = m[c[k]].actions
    BY <1>1
  <1> HIDE DEF i
  <1>4. Flat(p, i + 1) = Flat(p, i) \o p[i + 1]
    BY <1>1, <1>2, FlatStep
  <1>5. Flat(p, k) = Flat(p, i) \o m[c[k]].actions
    BY <1>2, <1>3, <1>4
  <1>6. QED
    BY <1>5 DEF LogOf, p, i

\* The log depends on the blocks alone.
LEMMA LogSame ==
    ASSUME NEW m, NEW c, NEW l, NEW d, NEW k \in Nat,
           1..k \subseteq DOMAIN c, 1..k \subseteq DOMAIN d,
           \A i \in 1..k : m[c[i]] = l[d[i]]
    PROVE  LogOf(m, c, k) = LogOf(l, d, k)
  <1> DEFINE p == Parts(m, c)
             q == Parts(l, d)
  <1>1. \A i \in 1..k : p[i] = q[i]
    BY DEF Parts
  <1> HIDE DEF p, q
  <1>2. [i \in 1..k |-> p[i]] = [i \in 1..k |-> q[i]]
    BY <1>1
  <1>3. QED
    BY <1>2 DEF LogOf, Flat, p, q

LEMMA OuterIs ==
    ASSUME NEW c, Len(c) \in Nat, DOMAIN c = 1..Len(c)
    PROVE  Outer(c) = LogOf(made, c, Len(c))
  <1> DEFINE e == Events(c)
             p == Parts(made, c)
             k == Len(c)
  <1>1. DOMAIN e = 1..k /\ \A i \in 1..k : e[i] = made[c[i]]
    BY DEF Events, EventAt
  <1>2. \A i \in 1..k : p[i] = IF Outermost(made[c[i]]) THEN made[c[i]].actions ELSE << >>
    BY DEF Parts
  <1> HIDE DEF e, p
  <1>3. [n \in DOMAIN e |-> IF Outermost(e[n]) THEN e[n].actions ELSE << >>]
          = [i \in 1..k |-> p[i]]
    BY <1>1, <1>2
  <1>4. QED
    BY <1>3 DEF Outer, OuterLog, LogOf, Flat, e, p

-----------------------------------------------------------------------------
(* The inductive invariant in finalized mode: the account.                 *)

\* The contracts accepted each on the log that the blocks before it left.
Based(m, c) ==
    \A n \in DOMAIN c : Outermost(m[c[n]]) => m[c[n]].base = LogOf(m, c, n - 1)

BasedInv == Based(made, chain) /\ Based(made, fork)

TransactionsInv == \A tx \in sent \union DOMAIN jobs : Extends(tx)

\* A batch that is being put together will be such a transaction.
PinnedInv ==
    /\ DOMAIN batch = Batchers
    /\ \A b \in DOMAIN batch : batch[b].at # "idle" =>
        /\ batch[b] = [at |-> batch[b].at, base |-> batch[b].base, pending |-> batch[b].pending]
        /\ IsLog(batch[b].base) /\ IsLog(batch[b].pending) /\ batch[b].pending # << >>

\* What is marked final has been read when it is applied.
ReadInv ==
    /\ tick.at \in Late => tick.fin <= tick.head
    /\ tick.at \in {"recover", "recovering"} => tick.head <= last

\* Without a lost database every transaction has its own job.
KnownInv ==
    /\ losses \in Nat
    /\ MaxLosses = 0 => sent \subseteq DOMAIN jobs /\ \A tx \in DOMAIN jobs : ~jobs[tx].recovered

\* The transactions that the contracts accepted in the first blocks.
Accepted(m, c, a) == {m[c[i]] : i \in {k \in 1..a : Outermost(m[c[k]])}}

\* The account has the transactions of the first blocks, without a gap.
AppliedThrough(a) ==
    account.state = LogOf(made, chain, a) /\ DOMAIN history = Accepted(made, chain, a)

\* The states on the way to this one.
StatesTo(state) == {SubSeq(state, 1, k) : k \in 1..Len(state)}

\* The transactions made these states, and the jobs build on them.
AccountInv ==
    /\ \E a \in 0..marked : AppliedThrough(a)
    /\ UNION {ActionStates(tx) : tx \in DOMAIN history} = StatesTo(account.state)
    /\ \A tx \in DOMAIN jobs : IsPrefix(tx.base, account.state)

\* The actions of every applied transaction are visible.
ActionsInv ==
    /\ DOMAIN actions = DOMAIN history
    /\ \A tx \in DOMAIN actions : Settled(actions[tx])
    /\ actions \in [DOMAIN actions -> [n : Nat, id : Nat, removed : {FALSE}]]

\* The endpoint keeps to the chain, or no database is lost.
Reliable == ~StaleProvider \/ MaxLosses = 0

LogsInv ==
    /\ BasedInv /\ TransactionsInv /\ PinnedInv /\ ReadInv /\ KnownInv
    /\ AccountInv /\ ActionsInv

TrueInv == BatchInv /\ (Finalized /\ Reliable => LogsInv)

-----------------------------------------------------------------------------
(* What the account's invariant says of the chain.                         *)

LEMMA BasedSame ==
    ASSUME NEW m, NEW c, NEW l, NEW d, NEW k \in Nat, 1..k \subseteq DOMAIN c, DOMAIN d = 1..k,
           \A i \in 1..k : l[d[i]] = m[c[i]], Based(m, c)
    PROVE  Based(l, d)
  <1>1. SUFFICES ASSUME NEW n \in 1..k, Outermost(l[d[n]])
                 PROVE  l[d[n]].base = LogOf(l, d, n - 1)
    BY DEF Based
  <1> DEFINE j == n - 1
  <1>2. j \in Nat /\ \A i \in 1..j : i \in 1..k
    OBVIOUS
  <1> HIDE DEF j
  <1>3. LogOf(m, c, j) = LogOf(l, d, j)
    <2>1. 1..j \subseteq DOMAIN c /\ 1..j \subseteq DOMAIN d /\ \A i \in 1..j : m[c[i]] = l[d[i]]
      BY <1>2
    <2>2. QED
      BY <1>2, <2>1, LogSame
  <1>4. m[c[n]].base = LogOf(m, c, n - 1) /\ l[d[n]] = m[c[n]]
    BY <1>1 DEF Based
  <1>5. QED
    BY <1>3, <1>4 DEF j

\* The blocks d are the blocks c and one more, which was accepted on them.
Longer(m, c, l, d, k) ==
    /\ DOMAIN c = 1..k /\ DOMAIN d = 1..(k + 1)
    /\ \A i \in 1..k : l[d[i]] = m[c[i]]
    /\ Outermost(l[d[k + 1]]) => l[d[k + 1]].base = LogOf(m, c, k)

LEMMA BasedMore ==
    ASSUME NEW m, NEW c, NEW l, NEW d, NEW k \in Nat, Longer(m, c, l, d, k), Based(m, c)
    PROVE  Based(l, d)
  <1>0. /\ DOMAIN c = 1..k /\ DOMAIN d = 1..(k + 1)
        /\ \A i \in 1..k : l[d[i]] = m[c[i]]
        /\ Outermost(l[d[k + 1]]) => l[d[k + 1]].base = LogOf(m, c, k)
    BY DEF Longer
  <1>1. SUFFICES ASSUME NEW n \in 1..(k + 1), Outermost(l[d[n]])
                 PROVE  l[d[n]].base = LogOf(l, d, n - 1)
    BY <1>0 DEF Based
  <1> DEFINE j == n - 1
  <1>2. j \in Nat /\ (\A i \in 1..j : i \in 1..k /\ i \in 1..(k + 1)) /\ (n = k + 1 => j = k)
        /\ (n # k + 1 => n \in 1..k)
    OBVIOUS
  <1> HIDE DEF j
  <1>3. LogOf(m, c, j) = LogOf(l, d, j)
    <2>1. 1..j \subseteq DOMAIN c /\ 1..j \subseteq DOMAIN d /\ \A i \in 1..j : m[c[i]] = l[d[i]]
      BY <1>0, <1>2
    <2>2. QED
      BY <1>2, <2>1, LogSame
  <1>4. CASE n = k + 1
    BY <1>0, <1>1, <1>2, <1>3, <1>4 DEF j
  <1>5. CASE n # k + 1
    <2>1. m[c[n]].base = LogOf(m, c, n - 1) /\ l[d[n]] = m[c[n]]
      BY <1>0, <1>1, <1>2, <1>5 DEF Based
    <2>2. QED
      BY <1>3, <2>1 DEF j
  <1>6. QED
    BY <1>4, <1>5

\* A transaction is mined on the log that it was accepted on.
LEMMA BasedStep ==
    ASSUME IndexInv, [Next]_vars, BasedInv
    PROVE  BasedInv'
  <1>1. /\ ChainTyped /\ Len(chain) \in Nat /\ DOMAIN chain = 1..Len(chain)
        /\ Len(fork) \in Nat /\ DOMAIN fork = 1..Len(fork)
        /\ final \in Nat /\ final <= Len(chain)
        /\ \A n \in DOMAIN chain : chain[n] \in DOMAIN made
        /\ \A n \in DOMAIN fork : fork[n] \in DOMAIN made
        /\ chain \in Seq(DOMAIN made) /\ Based(made, chain) /\ Based(made, fork)
    BY ChainTypes DEF IndexInv, ChainTyped, BasedInv
  <1>2. ASSUME UNCHANGED <<chain, made, fork>>
        PROVE  BasedInv'
    BY <1>1, <1>2 DEF BasedInv
  <1>3. ASSUME NEW ev, Mine(ev), Outermost(ev) => Accepts(chain, ev)
        PROVE  BasedInv'
    <2>1. /\ \A h \in DOMAIN made : made'[h] = made[h]
          /\ made'[Len(made) + 1] = ev
          /\ DOMAIN chain' = 1..(Len(chain) + 1)
          /\ \A n \in DOMAIN chain : chain'[n] = chain[n]
          /\ chain'[Len(chain) + 1] = Len(made) + 1
          /\ fork' = fork
      BY <1>1, <1>3, Mined
    <2>2. Outermost(ev) => ev.base = LogOf(made, chain, Len(chain))
      BY <1>1, <1>3, OuterIs DEF Accepts
    <2>3. \A i \in 1..Len(chain) : made'[chain'[i]] = made[chain[i]]
      BY <1>1, <2>1
    <2>4. made'[chain'[Len(chain) + 1]] = ev
      BY <2>1
    <2>5. PICK k \in Nat : k = Len(chain)
      BY <1>1
    <2>6. Based(made', chain')
      <3> DEFINE l == made'
                 d == chain'
      <3>1. Outermost(ev) => ev.base = LogOf(made, chain, k)
        BY <2>2, <2>5
      <3>2. l[d[k + 1]] = ev
        BY <2>4, <2>5
      <3>3. DOMAIN chain = 1..k
        BY <1>1, <2>5
      <3>4. DOMAIN d = 1..(k + 1)
        BY <2>1, <2>5
      <3>5. \A i \in 1..k : l[d[i]] = made[chain[i]]
        BY <2>3, <2>5
      <3> HIDE DEF l, d
      <3>6. Outermost(l[d[k + 1]]) => l[d[k + 1]].base = LogOf(made, chain, k)
        BY <3>1, <3>2
      <3>7. Longer(made, chain, l, d, k)
        BY <3>3, <3>4, <3>5, <3>6 DEF Longer
      <3>8. Based(l, d)
        BY <1>1, <3>7, BasedMore
      <3>9. QED
        BY <3>8 DEF l, d
    <2>7. Based(made', fork)
      <3> DEFINE l == made'
      <3>1. \A i \in 1..Len(fork) : l[fork[i]] = made[fork[i]]
        BY <1>1, <2>1
      <3> HIDE DEF l
      <3>2. Based(l, fork)
        BY <1>1, <3>1, BasedSame
      <3>3. QED
        BY <3>2 DEF l
    <2>8. QED
      BY <2>1, <2>6, <2>7 DEF BasedInv
  <1>4. CASE Finalize
    BY <1>2, <1>4 DEF Finalize
  <1>5. CASE Reorg
    <2>1. PICK n \in final..(Len(chain) - 1) : chain' = SubSeq(chain, 1, n)
      BY <1>5 DEF Reorg
    <2>2. made' = made /\ fork' \in {chain, << >>}
      BY <1>5 DEF Reorg
    <2>3. n \in Nat /\ n \in 0..Len(chain)
      BY <1>1
    <2>4. PICK d : d = SubSeq(chain, 1, n)
      OBVIOUS
    <2>5. DOMAIN d = 1..n /\ 1..n \subseteq DOMAIN chain /\ \A i \in 1..n : d[i] = chain[i]
      BY <1>1, <2>3, <2>4, Cut
    <2>6. Based(made, d)
      BY <1>1, <2>3, <2>5, BasedSame
    <2>7. Based(made, << >>)
      BY DEF Based
    <2>8. QED
      BY <1>1, <2>1, <2>2, <2>4, <2>6, <2>7 DEF BasedInv
  <1>6. CASE FlipBack
    <2>1. made' = made /\ chain' = fork /\ fork' = << >>
      BY <1>6 DEF FlipBack
    <2>2. Based(made, << >>)
      BY DEF Based
    <2>3. QED
      BY <1>1, <2>1, <2>2 DEF BasedInv
  <1>7. CASE Chain
    <2>1. CASE MineDeposit \/ MineClaim \/ MineSent
      <3>1. UNCHANGED <<indexVars, jobs>>
        BY <1>7 DEF Chain, accountVars
      <3>2. \E ev : Mine(ev) /\ Fresh(ev) /\ (Outermost(ev) => Accepts(chain, ev))
        BY <2>1, <3>1, MineSteps
      <3>3. QED
        BY <1>3, <3>2
    <2>2. QED
      BY <1>4, <1>5, <1>6, <1>7, <2>1 DEF Chain, ChainStep
  <1>8. CASE Tick \/ TickEnds \/ Work \/ Archive \/ LoseDatabase
    BY <1>2, <1>8 DEF Tick, TickEnds, Work, Archive, LoseDatabase, chainVars
  <1>9. ASSUME NEW b \in Batchers, Batching(b)
        PROVE  BasedInv'
    BY <1>2, <1>9 DEF Batching, chainVars
  <1>10. CASE UNCHANGED vars
    BY <1>2, <1>10 DEF vars, chainVars
  <1>11. QED
    BY <1>7, <1>8, <1>9, <1>10 DEF Next

\* A tick has read what it applies.
LEMMA ReadStep ==
    ASSUME IndexInv, [Next]_vars, Finalized, ReadInv
    PROVE  ReadInv'
  <1>1. IndexTyped
    BY DEF IndexInv
  <1>2. ASSUME tick'.at \notin Late
        PROVE  ReadInv'
    BY <1>2 DEF ReadInv, At, Late
  <1>3. ASSUME UNCHANGED <<tick, last>>
        PROVE  ReadInv'
    BY <1>3 DEF ReadInv, At
  <1>4. ASSUME NEW phase, Goto(phase)
        PROVE  tick'.at = phase /\ tick'.head = tick.head /\ tick'.fin = tick.fin
    BY <1>1, <1>4, Goes DEF GoesTo
  <1>5. Idle.at \notin Late
    BY DEF Idle, Late, Scanning
  <1>6. "blocks" \notin Late /\ "tip" \notin Late /\ "recover" \in Late
    BY DEF Late, Scanning
  <1>7. CASE TickStep
    <2>1. CASE CheckTip
      BY <1>2, <1>4, <1>6, <2>1 DEF CheckTip
    <2>2. CASE IndexBlock
      BY <1>3, <2>2 DEF IndexBlock, BlockIndexed
    <2>3. CASE OrphanedParent
      BY <1>2, <1>5, <2>3 DEF OrphanedParent
    <2>4. CASE RecoverJob \/ Recover
      <3>1. At("recover")
        BY <2>4 DEF RecoverJob, Recover
      <3>2. CASE RecoverJob
        BY <1>3, <3>2 DEF RecoverJob, indexVars
      <3>3. CASE Recover
        <4>1. UNCHANGED last /\ GoesTo("recovering")
          BY <1>1, <3>3, ApplyGoes DEF Recover
        <4>2. tick'.at = "recovering" /\ tick'.head = tick.head /\ tick'.fin = tick.fin
          BY <4>1 DEF GoesTo
        <4>3. QED
          BY <1>6, <3>1, <4>1, <4>2 DEF ReadInv, At
      <3>4. QED
        BY <2>4, <3>2, <3>3
    <2>5. CASE Recovered
      <3>1. At("recover") /\ tick'.at = "reconcile" /\ tick'.head = tick.head /\ tick'.fin = tick.fin
        BY <1>4, <2>5 DEF Recovered
      <3>2. QED
        BY <1>6, <3>1 DEF ReadInv, At
    <2>6. CASE Reconcile
      <3>1. PICK tx, n : ReconcileApplied(tx, n) \/ ReconcileReverted(tx, n) \/ ReconcileIncluded(tx, n)
        BY <2>6 DEF Reconcile
      <3>2. CASE ReconcileApplied(tx, n)
        <4>1. UNCHANGED last /\ GoesTo("reconciling")
          BY <1>1, <3>2, ApplyGoes DEF ReconcileApplied
        <4>2. tick'.at = "reconciling" /\ tick'.head = tick.head /\ tick'.fin = tick.fin
          BY <4>1 DEF GoesTo
        <4>3. tick.at = "reconcile" /\ tick.at \in Late
          BY <2>6 DEF Reconcile, At, Late
        <4>4. QED
          BY <4>2, <4>3 DEF ReadInv
      <3>3. CASE ReconcileReverted(tx, n) \/ ReconcileIncluded(tx, n)
        BY <1>3, <3>3 DEF ReconcileReverted, ReconcileIncluded, ReconcileStatus, indexVars
      <3>4. QED
        BY <3>1, <3>2, <3>3
    <2>7. CASE Confirm
      <3>1. /\ UNCHANGED last
            /\ \/ At("recovering") /\ GoesTo("recover")
               \/ At("reconciling") /\ GoesTo("reconcile")
        BY <1>1, <2>7, ConfirmGoes
      <3>2. tick.at \in Late /\ tick'.head = tick.head /\ tick'.fin = tick.fin
        BY <3>1 DEF GoesTo, At, Late
      <3>3. \/ tick.at = "recovering" /\ tick'.at = "recover"
            \/ tick'.at = "reconcile"
        BY <3>1 DEF GoesTo, At
      <3>4. QED
        BY <3>1, <3>2, <3>3 DEF ReadInv
    <2>8. CASE EndTick
      BY <1>2, <1>5, <2>8 DEF EndTick
    <2>9. QED
      BY <1>7, <2>1, <2>2, <2>3, <2>4, <2>5, <2>6, <2>7, <2>8 DEF TickStep
  <1>8. CASE IndexStep
    <2>1. CASE BeginTick
      BY <1>2, <1>6, <2>1 DEF BeginTick, Idle
    <2>2. CASE FinishBlocks
      <3>1. /\ tick'.at = (IF last < tick.head THEN "transitions" ELSE "recover")
            /\ tick'.head = tick.head /\ tick'.fin = tick.fin /\ last' = last /\ HeadHeld
        BY <1>4, <2>2 DEF FinishBlocks
      <3>2. tick.fin <= tick.head
        BY <3>1 DEF HeadHeld
      <3>3. last \in Nat /\ tick.head \in Nat
        BY ChainTypes DEF IndexInv, IndexTyped
      <3>4. tick'.at = "recover" => tick.head <= last
        BY <3>1, <3>3
      <3>5. QED
        BY <3>1, <3>2, <3>4 DEF ReadInv, At
    <2>3. CASE IndexTransitions \/ IndexSettlements \/ IndexBatches
      <3>1. /\ tick.at \in Late /\ tick'.head = tick.head /\ tick'.fin = tick.fin
            /\ tick'.at \in {"settlements", "batches", "claims"}
        BY <1>4, <2>3 DEF IndexTransitions, IndexSettlements, IndexBatches, At, Late, Scanning
      <3>2. QED
        BY <3>1 DEF ReadInv, At
    <2>4. CASE IndexClaims
      <3>1. /\ tick.at \in Late /\ tick'.head = tick.head /\ tick'.fin = tick.fin
            /\ tick'.at = "recover" /\ last' = tick.head
        BY <1>4, <2>4 DEF IndexClaims, At, Late, Scanning
      <3>2. tick.head \in Nat
        BY DEF IndexInv, IndexTyped
      <3>3. QED
        BY <3>1, <3>2 DEF ReadInv, At
    <2>5. QED
      BY <1>8, <2>1, <2>2, <2>3, <2>4 DEF IndexStep
  <1>9. CASE TickEnds
    BY <1>2, <1>5, <1>9 DEF TickEnds, TickFails
  <1>10. CASE LoseDatabase
    BY <1>2, <1>5, <1>10 DEF LoseDatabase
  <1>11. CASE Chain \/ Work \/ Archive
    BY <1>3, <1>11 DEF Chain, Work, Archive, indexVars
  <1>12. ASSUME NEW b \in Batchers, Batching(b)
         PROVE  ReadInv'
    BY <1>3, <1>12 DEF Batching, indexVars
  <1>13. CASE UNCHANGED vars
    BY <1>3, <1>13 DEF vars, indexVars
  <1>14. QED
    BY <1>7, <1>8, <1>9, <1>10, <1>11, <1>12, <1>13 DEF Next, Tick

LEMMA SeqOfLog ==
    ASSUME NEW s, IsLog(s)
    PROVE  Len(s) \in Nat /\ DOMAIN s = 1..Len(s)
  BY LenProperties DEF IsLog

\* The end of a sequence is one.
LEMMA TailTyped ==
    ASSUME NEW S, NEW s \in Seq(S), NEW n \in Nat
    PROVE  SubSeq(s, n + 1, Len(s)) \in Seq(S)
  <1>1. Len(s) \in Nat
    BY LenProperties
  <1>2. CASE n <= Len(s)
    <2>1. n + 1 \in 1..(Len(s) + 1) /\ Len(s) \in ((n + 1) - 1)..Len(s)
      BY <1>1, <1>2
    <2>2. QED
      BY <2>1, SubSeqProperties
  <1>3. CASE n > Len(s)
    <2>1. SubSeq(s, n + 1, Len(s)) = << >>
      BY <1>1, <1>3, SubSeqEmpty
    <2>2. QED
      BY <2>1, EmptySeq
  <1>4. QED
    BY <1>1, <1>2, <1>3

LEMMA KeptTyped ==
    ASSUME NEW seq, NEW k \in Nat, DOMAIN seq = 1..k, NEW set
    PROVE  Kept(seq, set) \in Seq(set)
  <1> DEFINE p == [n \in DOMAIN seq |-> IF seq[n] \in set THEN <<seq[n]>> ELSE << >>]
  <1>1. \A i \in 1..k : p[i] \in Seq(set)
    OBVIOUS
  <1>2. p = [i \in 1..k |-> p[i]]
    OBVIOUS
  <1> HIDE DEF p
  <1>3. Flat(p, k) \in Seq(set)
    BY <1>1, FlatTyped
  <1>4. FlattenSeq(p) = Flat(p, k)
    BY <1>2 DEF Flat
  <1>5. Kept(seq, set) = FlattenSeq(p)
    BY DEF Kept, p
  <1>6. QED
    BY <1>3, <1>4, <1>5

LEMMA DepositsLog ==
    ASSUME NEW c, Len(c) \in Nat, DOMAIN c = 1..Len(c)
    PROVE  IsLog(Deposits(c))
  <1> DEFINE set == {ev \in Range(made) : ev.kind = "deposit"}
             events == Kept(Events(c), set)
             row(i) == Witness(events[i].nonce, events[i].who)
             found == [i \in DOMAIN events |-> row(i)]
  <1>1. DOMAIN Events(c) = 1..Len(c)
    BY DEF Events
  <1>2. events \in Seq(set)
    <2> HIDE DEF set
    <2>1. QED
      BY <1>1, KeptTyped
  <1>3. Deposits(c) = found
    BY DEF Deposits
  <1> HIDE DEF events
  <1>4. Len(events) \in Nat /\ DOMAIN events = 1..Len(events)
    BY <1>2, LenProperties
  <1> HIDE DEF row
  <1>5. found \in [1..Len(events) -> {row(i) : i \in DOMAIN events}]
    BY <1>4
  <1> HIDE DEF found
  <1>6. found \in Seq({row(i) : i \in DOMAIN events})
    BY <1>4, <1>5, SeqDef
  <1>7. QED
    BY <1>3, <1>6, SeqIsLog

\* The chain's transactions extend logs.
LEMMA LoggedChain ==
    ASSUME IndexInv, TransactionsInv
    PROVE  Logged(made, chain)
  <1>1. /\ Len(chain) \in Nat /\ DOMAIN chain = 1..Len(chain)
        /\ \A n \in DOMAIN chain : EventAt(chain, n) \in Range(made)
    BY ChainTypes, EventMade DEF IndexInv
  <1>2. \A ev \in Range(made) : Outermost(ev) => ev \in sent
    BY DEF IndexInv, SentInv
  <1>3. \A i \in DOMAIN chain : Outermost(made[chain[i]]) => Extends(made[chain[i]])
    BY <1>1, <1>2 DEF TransactionsInv, EventAt
  <1>4. QED
    BY <1>1, <1>3 DEF Logged

LEMMA PinnedLog ==
    ASSUME IndexInv, TransactionsInv
    PROVE  /\ Pinned(chain) = [at |-> Pinned(chain).at, base |-> Pinned(chain).base,
                               pending |-> Pinned(chain).pending]
           /\ IsLog(Pinned(chain).base) /\ IsLog(Pinned(chain).pending)
  <1> DEFINE base == Outer(chain)
             found == Deposits(chain)
             pending == SubSeq(found, Len(Witnesses(base)) + 1, Len(found))
  <1>1. Len(chain) \in Nat /\ DOMAIN chain = 1..Len(chain)
    BY ChainTypes DEF IndexInv
  <1>2. IsLog(base)
    <2>1. Logged(made, chain)
      BY LoggedChain
    <2>2. Len(chain) \in 0..Len(chain)
      BY <1>1
    <2>3. IsLog(LogOf(made, chain, Len(chain)))
      BY <2>1, <2>2, LogGrows
    <2>4. QED
      BY <1>1, <2>3, OuterIs
  <1>3. IsLog(found)
    BY <1>1, DepositsLog
  <1>4. Len(Witnesses(base)) \in Nat
    <2> HIDE DEF base
    <2>1. Len(base) \in Nat /\ DOMAIN base = 1..Len(base)
      BY <1>2, SeqOfLog
    <2>2. PICK set : Witnesses(base) = Kept(base, set)
      BY DEF Witnesses
    <2>3. Kept(base, set) \in Seq(set)
      BY <2>1, KeptTyped
    <2>4. QED
      BY <2>2, <2>3, LenProperties
  <1>5. IsLog(pending)
    <2> DEFINE n == Len(Witnesses(base))
    <2> HIDE DEF n, found
    <2>1. n \in Nat
      BY <1>4 DEF n
    <2>2. SubSeq(found, n + 1, Len(found)) \in Seq(Range(found))
      BY <1>3, <2>1, TailTyped DEF IsLog
    <2>3. IsLog(SubSeq(found, n + 1, Len(found)))
      BY <2>2, SeqIsLog
    <2>4. QED
      BY <2>3 DEF n
  <1>6. Pinned(chain) = [at |-> "pinned", base |-> base, pending |-> pending]
    BY DEF Pinned
  <1> HIDE DEF base, pending
  <1>7. QED
    BY <1>2, <1>5, <1>6

LEMMA PinnedStep ==
    ASSUME IndexInv, [Next]_vars, TransactionsInv, PinnedInv
    PROVE  PinnedInv'
  <1>0. Batchers' = Batchers
    BY ChainGrown DEF Grown, Batchers
  <1>1. ASSUME UNCHANGED batch
        PROVE  PinnedInv'
    BY <1>0, <1>1 DEF PinnedInv
  <1>2. ASSUME NEW b \in Batchers, NEW x, batch' = [batch EXCEPT ![b] = x],
               x.at # "idle" =>
                 /\ x = [at |-> x.at, base |-> x.base, pending |-> x.pending]
                 /\ IsLog(x.base) /\ IsLog(x.pending) /\ x.pending # << >>
        PROVE  PinnedInv'
    <2>1. DOMAIN batch' = DOMAIN batch
      BY <1>2
    <2>2. \A a \in DOMAIN batch : batch'[a] = IF a = b THEN x ELSE batch[a]
      BY <1>2
    <2>3. ASSUME NEW a \in DOMAIN batch', batch'[a].at # "idle"
          PROVE  /\ batch'[a] = [at |-> batch'[a].at, base |-> batch'[a].base,
                                 pending |-> batch'[a].pending]
                 /\ IsLog(batch'[a].base) /\ IsLog(batch'[a].pending)
                 /\ batch'[a].pending # << >>
      <3>1. CASE a = b
        BY <1>2, <2>1, <2>2, <2>3, <3>1
      <3>2. CASE a # b
        <4>1. batch'[a] = batch[a]
          BY <2>1, <2>2, <2>3, <3>2
        <4>2. QED
          BY <2>1, <2>3, <4>1 DEF PinnedInv
      <3>3. QED
        BY <3>1, <3>2
    <2>4. QED
      BY <1>0, <2>1, <2>3 DEF PinnedInv
  <1>3. NoBatch.at = "idle"
    BY DEF NoBatch
  <1>4. ASSUME NEW b \in Batchers, PinBatch(b)
        PROVE  PinnedInv'
    <2>1. batch' = [batch EXCEPT ![b] = Pinned(chain)] /\ Pinned(chain).pending # << >>
      BY <1>4 DEF PinBatch
    <2>2. PICK x : x = Pinned(chain)
      OBVIOUS
    <2>3. QED
      BY <1>2, <2>1, <2>2, PinnedLog
  <1>5. ASSUME NEW b \in Batchers, LoadBatch(b)
        PROVE  PinnedInv'
    <2> DEFINE x == IF \A i \in DOMAIN batch[b].pending : Ready(batch[b].pending[i])
                    THEN [batch[b] EXCEPT !.at = "loaded"] ELSE NoBatch
    <2>1. batch[b].at = "pinned"
      BY <1>5 DEF LoadBatch
    <2>2. b \in DOMAIN batch
      BY DEF PinnedInv
    <2>3. batch' = [batch EXCEPT ![b] = x]
      BY <1>5, <2>2 DEF LoadBatch
    <2>4. /\ batch[b] = [at |-> batch[b].at, base |-> batch[b].base, pending |-> batch[b].pending]
          /\ IsLog(batch[b].base) /\ IsLog(batch[b].pending) /\ batch[b].pending # << >>
      BY <2>1, <2>2 DEF PinnedInv
    <2>5. PICK y : y = [batch[b] EXCEPT !.at = "loaded"]
      OBVIOUS
    <2>6. /\ y = [at |-> y.at, base |-> y.base, pending |-> y.pending]
          /\ y.base = batch[b].base /\ y.pending = batch[b].pending
      BY <2>4, <2>5
    <2>7. x = y \/ x = NoBatch
      BY <2>5
    <2> HIDE DEF x
    <2>8. QED
      BY <1>2, <1>3, <2>3, <2>4, <2>6, <2>7
  <1>6. ASSUME NEW b \in Batchers, QueueBatch(b)
        PROVE  PinnedInv'
    <2>1. batch' = [batch EXCEPT ![b] = NoBatch]
      BY <1>6 DEF QueueBatch
    <2>2. QED
      BY <1>2, <1>3, <2>1
  <1>7. ASSUME NEW b \in Batchers, Batching(b)
        PROVE  PinnedInv'
    BY <1>4, <1>5, <1>6, <1>7 DEF Batching
  <1>8. CASE LoseDatabase
    <2>1. batch' = [b \in Batchers |-> NoBatch]
      BY <1>8 DEF LoseDatabase
    <2>2. \A a \in DOMAIN batch' : batch'[a] = NoBatch
      BY <2>1
    <2>3. QED
      BY <1>0, <1>3, <2>1, <2>2 DEF PinnedInv
  <1>9. CASE Tick
    <2>1. CASE TickStep
      BY <1>1, <2>1 DEF TickStep, CheckTip, IndexBlock, OrphanedParent, RecoverJob, Recover,
         Recovered, Confirm, Reconcile, EndTick, RollBack, Apply, ReconcileApplied, ReconcileReverted,
         ReconcileIncluded, ReconcileStatus, depositVars
    <2>2. QED
      BY <1>1, <1>9, <2>1 DEF Tick, depositVars
  <1>10. CASE TickEnds \/ Chain \/ Work \/ Archive
    BY <1>1, <1>10 DEF TickEnds, Chain, Work, Archive, depositVars
  <1>11. CASE UNCHANGED vars
    BY <1>1, <1>11 DEF vars, depositVars
  <1>12. QED
    BY <1>7, <1>8, <1>9, <1>10, <1>11 DEF Next

-----------------------------------------------------------------------------
(* What a step leaves of the account's invariant.                          *)

LEMMA PrefixIs ==
    ASSUME NEW S, NEW s \in Seq(S), NEW t \in Seq(S), IsPrefix(s, t)
    PROVE  Len(s) <= Len(t) /\ s = SubSeq(t, 1, Len(s))
  <1>1. SubSeq(s, 1, Len(s)) = s
    BY SubSeqFull
  <1>2. QED
    BY <1>1 DEF IsPrefix

\* The states that a transaction adds.
LEMMA StatesAdded ==
    ASSUME NEW S, NEW s \in Seq(S), NEW t \in Seq(S)
    PROVE  StatesTo(s \o t) = StatesTo(s) \union {s \o SubSeq(t, 1, k) : k \in 1..Len(t)}
  <1> DEFINE u == s \o t
  <1>1. Len(s) \in Nat /\ Len(t) \in Nat /\ u \in Seq(S) /\ Len(u) = Len(s) + Len(t)
    BY ConcatProperties, LenProperties
  <1>2. ASSUME NEW k \in 1..Len(s)
        PROVE  SubSeq(s, 1, k) = SubSeq(u, 1, k)
    <2> DEFINE v == SubSeq(s, 1, k)
    <2>1. k \in 0..Len(s)
      BY <1>1
    <2>2. v \in Seq(S) /\ Len(v) = k /\ DOMAIN v = 1..k /\ \A i \in 1..k : v[i] = s[i]
      BY <2>1, Cut
    <2>3. k \in 0..Len(u)
      BY <1>1
    <2> DEFINE w == SubSeq(u, 1, k)
    <2>4. w \in Seq(S) /\ Len(w) = k /\ \A i \in 1..k : w[i] = u[i]
      BY <1>1, <2>3, Cut
    <2>5. \A i \in 1..k : u[i] = s[i]
      BY <1>1, ConcatProperties
    <2> HIDE DEF u, v, w
    <2>6. v = w
      BY <2>2, <2>4, <2>5, SeqEqual
    <2>7. QED
      BY <2>6 DEF v, w
  <1>3. ASSUME NEW k \in 1..Len(t)
        PROVE  s \o SubSeq(t, 1, k) = SubSeq(u, 1, Len(s) + k)
    <2> DEFINE v == s \o SubSeq(t, 1, k)
    <2>1. k \in 0..Len(t)
      BY <1>1
    <2>2. v \in Seq(S) /\ Len(v) = Len(s) + k /\ IsPrefix(v, u)
      BY <2>1, PartialConcat
    <2> HIDE DEF v, u
    <2>3. v = SubSeq(u, 1, Len(v))
      BY <1>1, <2>2, PrefixIs
    <2>4. QED
      BY <2>2, <2>3 DEF v
  <1> HIDE DEF u
  <1>4. ASSUME NEW x \in StatesTo(u)
        PROVE  x \in StatesTo(s) \union {s \o SubSeq(t, 1, k) : k \in 1..Len(t)}
    <2>1. PICK k \in 1..Len(u) : x = SubSeq(u, 1, k)
      BY DEF StatesTo
    <2>2. CASE k <= Len(s)
      <3>1. k \in 1..Len(s)
        BY <1>1, <2>2
      <3>2. x = SubSeq(s, 1, k)
        BY <1>2, <2>1, <3>1
      <3>3. QED
        BY <3>1, <3>2 DEF StatesTo
    <2>3. CASE k > Len(s)
      <3>1. PICK j \in 1..Len(t) : k = Len(s) + j
        <4>1. k - Len(s) \in 1..Len(t) /\ k = Len(s) + (k - Len(s))
          BY <1>1, <2>3
        <4>2. QED
          BY <4>1
      <3>2. x = s \o SubSeq(t, 1, j)
        BY <1>3, <2>1, <3>1
      <3>3. QED
        BY <3>2
    <2>4. k <= Len(s) \/ k > Len(s)
      BY <1>1
    <2>5. QED
      BY <2>2, <2>3, <2>4
  <1>5. ASSUME NEW x \in StatesTo(s)
        PROVE  x \in StatesTo(u)
    <2>1. PICK k \in 1..Len(s) : x = SubSeq(s, 1, k)
      BY <1>5 DEF StatesTo
    <2>2. k \in 1..Len(u)
      BY <1>1
    <2>3. QED
      BY <1>2, <2>1, <2>2 DEF StatesTo
  <1>6. ASSUME NEW k \in 1..Len(t)
        PROVE  s \o SubSeq(t, 1, k) \in StatesTo(u)
    <2>1. Len(s) + k \in 1..Len(u)
      BY <1>1
    <2>2. QED
      BY <1>3, <2>1 DEF StatesTo
  <1>7. QED
    BY <1>4, <1>5, <1>6 DEF u

LEMMA AcceptedSame ==
    ASSUME NEW m, NEW c, NEW l, NEW d, NEW a \in Nat, \A i \in 1..a : m[c[i]] = l[d[i]]
    PROVE  Accepted(m, c, a) = Accepted(l, d, a)
  BY DEF Accepted

\* The finalized blocks keep their log.
LEMMA AppliedStays ==
    ASSUME IndexInv, FinalInv, Grown, NEW a \in 0..marked
    PROVE  /\ a \in 0..Len(chain)
           /\ LogOf(made', chain', a) = LogOf(made, chain, a)
           /\ Accepted(made', chain', a) = Accepted(made, chain, a)
  <1>1. /\ Len(chain) \in Nat /\ DOMAIN chain = 1..Len(chain) /\ final \in Nat /\ final <= Len(chain)
        /\ \A n \in DOMAIN chain : chain[n] \in DOMAIN made
    BY ChainTypes DEF IndexInv
  <1>2. marked \in Nat /\ marked <= final
    BY ChainTypes DEF IndexInv, IndexTyped, FinalInv
  <1>3. a \in Nat /\ a \in 0..Len(chain) /\ \A i \in 1..a : i \in 1..final
    BY <1>1, <1>2
  <1>4. \A i \in 1..a : i \in DOMAIN chain /\ i \in DOMAIN chain' /\ made'[chain'[i]] = made[chain[i]]
    BY <1>1, <1>3 DEF Grown
  <1> DEFINE l == made'
             d == chain'
  <1>5. \A i \in 1..a : l[d[i]] = made[chain[i]]
    BY <1>4
  <1>6. 1..a \subseteq DOMAIN d /\ 1..a \subseteq DOMAIN chain
    BY <1>4
  <1> HIDE DEF l, d
  <1>7. LogOf(l, d, a) = LogOf(made, chain, a)
    BY <1>3, <1>5, <1>6, LogSame
  <1>8. Accepted(l, d, a) = Accepted(made, chain, a)
    BY <1>3, <1>5, AcceptedSame
  <1>9. QED
    BY <1>3, <1>7, <1>8 DEF l, d

LEMMA AccountLog ==
    ASSUME IndexInv, FinalInv, TransactionsInv, AccountInv
    PROVE  IsLog(account.state)
  <1>1. PICK a \in 0..marked : AppliedThrough(a)
    BY DEF AccountInv
  <1>2. a \in 0..Len(chain) /\ a \in 0..a
    BY ChainTypes DEF IndexInv, IndexTyped, FinalInv
  <1>3. IsLog(LogOf(made, chain, a))
    BY <1>2, LoggedChain, LogGrows
  <1>4. QED
    BY <1>1, <1>3 DEF AppliedThrough

\* The account stays, with the transactions that made it.
LEMMA AccountKeeps ==
    ASSUME IndexInv, FinalInv, Grown, Marked, IndexInv', AccountInv,
           account' = account, DOMAIN history' = DOMAIN history,
           \A tx \in DOMAIN jobs' : tx \in DOMAIN jobs \/ IsPrefix(tx.base, account.state)
    PROVE  AccountInv'
  <1>1. PICK a \in 0..marked : AppliedThrough(a)
    BY DEF AccountInv
  <1>2. marked \in Nat /\ marked' \in Nat /\ marked <= marked'
    BY ChainTypes DEF IndexInv, IndexTyped, Marked
  <1>3. a \in 0..marked'
    BY <1>2
  <1>4. AppliedThrough(a)'
    BY <1>1, AppliedStays DEF AppliedThrough
  <1>5. \A tx \in DOMAIN jobs' : IsPrefix(tx.base, account.state)'
    BY DEF AccountInv
  <1>6. (UNION {ActionStates(tx) : tx \in DOMAIN history} = StatesTo(account.state))'
    BY DEF AccountInv
  <1>7. QED
    BY <1>3, <1>4, <1>5, <1>6 DEF AccountInv

LEMMA ActionsKeep ==
    ASSUME IndexInv, Marked, IndexInv', ActionsInv,
           actions' = actions, DOMAIN history' = DOMAIN history
    PROVE  ActionsInv'
  <1>1. marked \in Nat /\ marked' \in Nat /\ marked <= marked'
    BY ChainTypes DEF IndexInv, IndexTyped, Marked
  <1>2. ASSUME NEW tx \in DOMAIN actions
        PROVE  Settled(actions[tx])'
    <2>1. actions[tx].n \in 1..marked /\ blocks[actions[tx].n] = actions[tx].id
      BY <1>2 DEF ActionsInv, Settled
    <2>2. actions[tx].n \in 1..marked'
      BY <1>1, <2>1
    <2>3. blocks'[actions[tx].n] = blocks[actions[tx].n]
      BY <2>1 DEF Marked
    <2>4. QED
      BY <2>1, <2>2, <2>3 DEF Settled
  <1>3. QED
    BY <1>2 DEF ActionsInv

LEMMA LogIn ==
    ASSUME NEW s, IsLog(s), NEW S, Range(s) \subseteq S
    PROVE  s \in Seq(S)
  BY SeqMonotonic DEF IsLog

LEMMA LogsExtended ==
    ASSUME NEW s, IsLog(s), NEW t, IsLog(t)
    PROVE  /\ IsPrefix(s, s \o t)
           /\ StatesTo(s \o t) = StatesTo(s) \union {s \o SubSeq(t, 1, k) : k \in 1..Len(t)}
           /\ \A u : IsLog(u) /\ IsPrefix(u, s) => IsPrefix(u, s \o t)
  <1>1. PICK S : S = Range(s) \union Range(t)
    OBVIOUS
  <1>2. s \in Seq(S) /\ t \in Seq(S)
    BY <1>1, LogIn
  <1>3. ASSUME NEW u, IsLog(u), IsPrefix(u, s)
        PROVE  IsPrefix(u, s \o t)
    <2>1. PICK T : T = S \union Range(u)
      OBVIOUS
    <2>2. u \in Seq(T) /\ s \in Seq(T) /\ t \in Seq(T)
      BY <1>1, <1>3, <2>1, LogIn
    <2>3. QED
      BY <1>3, <2>2, PrefixOfConcat
  <1>4. QED
    BY <1>2, <1>3, StatesAdded, ExtensionHasPrefix

\* A transaction that is applied follows those that have been.
LEMMA NothingBetween ==
    ASSUME IndexInv, TransactionsInv, BasedInv, AccountInv,
           NEW n \in 1..Len(chain), NEW tx, tx = made[chain[n]], Outermost(tx),
           NEW a \in 0..(n - 1), AppliedThrough(a),
           \/ tx \in DOMAIN jobs
           \/ \A i \in 1..(n - 1) : Outermost(made[chain[i]]) => made[chain[i]] \in DOMAIN history
    PROVE  /\ \A i \in (a + 1)..(n - 1) : ~Outermost(made[chain[i]])
           /\ tx.base = LogOf(made, chain, n - 1) /\ account.state = tx.base
  <1>1. /\ Len(chain) \in Nat /\ DOMAIN chain = 1..Len(chain) /\ Logged(made, chain)
        /\ \A i \in DOMAIN chain : EventAt(chain, i) \in Range(made)
    BY ChainTypes, EventMade, LoggedChain DEF IndexInv
  <1>2. tx.base = LogOf(made, chain, n - 1)
    BY <1>1 DEF BasedInv, Based
  <1> DEFINE j == n - 1
  <1>3. j \in 0..Len(chain) /\ a \in 0..j /\ n \in Nat /\ a \in Nat /\ j < n
    BY <1>1
  <1> HIDE DEF j
  <1>4. /\ IsLog(LogOf(made, chain, a)) /\ IsLog(LogOf(made, chain, j))
        /\ IsPrefix(LogOf(made, chain, a), LogOf(made, chain, j))
        /\ Len(LogOf(made, chain, j)) <= Len(LogOf(made, chain, a)) =>
             \A i \in (a + 1)..j : ~Outermost(made[chain[i]])
        /\ (\A i \in (a + 1)..j : ~Outermost(made[chain[i]])) =>
             LogOf(made, chain, j) = LogOf(made, chain, a)
    BY <1>1, <1>3, LogGrows
  <1>5. account.state = LogOf(made, chain, a) /\ tx.base = LogOf(made, chain, j)
    BY <1>2 DEF AppliedThrough, j
  <1>6. \A i \in (a + 1)..j : ~Outermost(made[chain[i]])
    <2>1. CASE tx \in DOMAIN jobs
      <3>1. IsPrefix(tx.base, account.state)
        BY <2>1 DEF AccountInv
      <3>2. Len(tx.base) <= Len(account.state)
        BY <3>1 DEF IsPrefix
      <3>3. QED
        BY <1>4, <1>5, <3>2
    <2>2. CASE \A i \in 1..(n - 1) : Outermost(made[chain[i]]) => made[chain[i]] \in DOMAIN history
      <3>1. SUFFICES ASSUME NEW i \in (a + 1)..j, Outermost(made[chain[i]]) PROVE FALSE
        OBVIOUS
      <3>2. i \in 1..(n - 1) /\ i \in 1..Len(chain) /\ i > a
        BY <1>1, <1>3 DEF j
      <3>3. made[chain[i]] \in Accepted(made, chain, a)
        BY <2>2, <3>1, <3>2 DEF AppliedThrough
      <3>4. PICK k \in 1..a : made[chain[i]] = made[chain[k]]
        BY <3>3 DEF Accepted
      <3>5. k \in 1..Len(chain) /\ k # i
        BY <1>1, <1>3, <3>2
      <3>6. made[chain[i]] \in Range(made)
        BY <1>1, <3>2 DEF EventAt
      <3>7. made[chain[i]] \in sent
        BY <3>1, <3>6 DEF IndexInv, SentInv
      <3>8. Once(chain)
        BY DEF IndexInv, ForkInv
      <3>9. QED
        BY <1>1, <3>2, <3>4, <3>5, <3>7, <3>8 DEF Once, EventAt
    <2>3. QED
      BY <2>1, <2>2
  <1>7. QED
    BY <1>2, <1>4, <1>5, <1>6 DEF j

\* The next one moves the account to the log after it.
LEMMA AccountMoves ==
    ASSUME IndexInv, TransactionsInv, AccountInv,
           NEW n \in 1..Len(chain), NEW tx, tx = made[chain[n]], Outermost(tx),
           NEW a \in 0..(n - 1), AppliedThrough(a),
           \A i \in (a + 1)..(n - 1) : ~Outermost(made[chain[i]]),
           tx.base = LogOf(made, chain, n - 1), account.state = tx.base
    PROVE  /\ IsLog(tx.base) /\ IsLog(tx.actions)
           /\ StateAfter(tx) = LogOf(made, chain, n)
           /\ DOMAIN history \union {tx} = Accepted(made, chain, n)
  <1>1. /\ Len(chain) \in Nat /\ DOMAIN chain = 1..Len(chain) /\ Logged(made, chain)
    BY ChainTypes, LoggedChain DEF IndexInv
  <1>2. LogOf(made, chain, n) = LogOf(made, chain, n - 1) \o tx.actions
    BY <1>1, LogNext
  <1>3. Extends(tx)
    BY <1>1 DEF Logged
  <1>4. DOMAIN history = Accepted(made, chain, a)
    BY DEF AppliedThrough
  <1>5. Accepted(made, chain, n) = Accepted(made, chain, a) \union {tx}
    <2>1. ASSUME NEW i \in 1..n, Outermost(made[chain[i]])
          PROVE  i \in 1..a \/ i = n
      BY <2>1
    <2>2. \A i \in 1..a : i \in 1..n
      OBVIOUS
    <2>3. n \in 1..n
      OBVIOUS
    <2>4. QED
      BY <2>1, <2>2, <2>3 DEF Accepted
  <1>6. QED
    BY <1>2, <1>3, <1>4, <1>5 DEF Extends, StateAfter

LEMMA UnionAdded ==
    ASSUME NEW T, NEW A
    PROVE  UNION (T \union {A}) = (UNION T) \union A
  OBVIOUS

LEMMA AppliedAccount ==
    ASSUME IndexInv, FinalInv, TransactionsInv, BasedInv, AccountInv, ActionsInv,
           NEW tx, NEW n \in Nat, InFinal(tx, n), Outermost(tx), AccountApplied(tx, n, blocks[n]),
           UNCHANGED <<chainVars, blocks, marked>>, IndexInv', tx \in DOMAIN jobs
    PROVE  AccountInv' /\ ActionsInv'
  <1>1. /\ Len(chain) \in Nat /\ DOMAIN chain = 1..Len(chain) /\ Logged(made, chain)
        /\ final \in Nat /\ final <= Len(chain) /\ marked \in Nat /\ marked <= final
    BY ChainTypes, LoggedChain DEF IndexInv, IndexTyped, FinalInv
  <1>2. n \in 1..marked /\ n \in 1..Len(chain) /\ blocks[n] = chain[n] /\ tx = made[chain[n]]
    BY <1>1 DEF InFinal, FinalInv, EventAt
  <1>3. jobs' = jobs
    BY DEF AccountApplied
  <1>4. Grown /\ Marked
    <2>1. UNCHANGED <<setup, chain, made, final, blocks, marked>>
      BY DEF chainVars
    <2>2. \A i \in 1..final : i \in DOMAIN chain
      BY <1>1
    <2>3. \A i \in 1..marked : i \in DOMAIN blocks
      BY ChainTypes DEF IndexInv, IndexTyped
    <2>4. QED
      BY <1>1, <2>1, <2>2, <2>3 DEF Grown, Marked
  <1>5. PICK a \in 0..marked : AppliedThrough(a)
    BY DEF AccountInv
  <1>6. CASE tx \in DOMAIN history
    <2>1. UNCHANGED <<account, history, actions>>
      BY <1>6 DEF AccountApplied
    <2>2. AccountInv'
      BY <1>3, <1>4, <2>1, AccountKeeps
    <2>3. ActionsInv'
      BY <1>4, <2>1, ActionsKeep
    <2>4. QED
      BY <2>2, <2>3
  <1>7. CASE tx \notin DOMAIN history
    <2>1. a \in 0..(n - 1)
      <3>1. ~(n <= a)
        <4>1. SUFFICES ASSUME n \in 1..a PROVE FALSE
          BY <1>1, <1>2
        <4>2. tx \in Accepted(made, chain, a)
          BY <1>2, <4>1 DEF Accepted
        <4>3. QED
          BY <1>5, <1>7, <4>2 DEF AppliedThrough
      <3>2. QED
        BY <1>1, <1>2, <3>1
    <2>2. /\ account' = AccountAfter(tx) /\ history' = Snapshots(tx, n)
          /\ actions' = Upsert(actions, {tx}, LAMBDA t : ActionRow(tx, n, blocks[n]))
      BY <1>7 DEF AccountApplied
    <2>3. /\ \A i \in (a + 1)..(n - 1) : ~Outermost(made[chain[i]])
          /\ tx.base = LogOf(made, chain, n - 1) /\ account.state = tx.base
      BY <1>2, <1>5, <2>1, NothingBetween
    <2>4. /\ IsLog(tx.base) /\ IsLog(tx.actions)
          /\ StateAfter(tx) = LogOf(made, chain, n)
          /\ DOMAIN history \union {tx} = Accepted(made, chain, n)
      BY <1>2, <1>5, <2>1, <2>3, AccountMoves
    <2>5. account'.state = tx.base \o tx.actions /\ DOMAIN history' = DOMAIN history \union {tx}
      BY <2>2 DEF AccountAfter, StateAfter, Snapshots, Upsert
    <2>6. AppliedThrough(n)'
      BY <2>4, <2>5 DEF AppliedThrough, StateAfter, chainVars
    <2>7. \E b \in 0..marked' : AppliedThrough(b)'
      <3>1. n \in 0..marked'
        BY <1>1, <1>2
      <3>2. QED
        BY <2>6, <3>1
    <2>8. /\ IsPrefix(tx.base, tx.base \o tx.actions)
          /\ StatesTo(tx.base \o tx.actions) = StatesTo(tx.base) \union ActionStates(tx)
          /\ \A u : IsLog(u) /\ IsPrefix(u, tx.base) => IsPrefix(u, tx.base \o tx.actions)
      BY <2>4, LogsExtended DEF ActionStates
    <2>9. \A t \in DOMAIN jobs' : IsPrefix(t.base, account.state)'
      <3>1. ASSUME NEW t \in DOMAIN jobs
            PROVE  IsLog(t.base) /\ IsPrefix(t.base, tx.base)
        BY <2>3 DEF AccountInv, TransactionsInv, Extends
      <3>2. QED
        BY <1>3, <2>5, <2>8, <3>1
    <2>10. UNION {ActionStates(t) : t \in DOMAIN history'} = StatesTo(account'.state)
      <3>1. UNION {ActionStates(t) : t \in DOMAIN history} = StatesTo(tx.base)
        BY <2>3 DEF AccountInv
      <3>2. UNION {ActionStates(t) : t \in DOMAIN history \union {tx}}
              = (UNION {ActionStates(t) : t \in DOMAIN history}) \union ActionStates(tx)
        <4>1. PICK T : T = {ActionStates(t) : t \in DOMAIN history}
          OBVIOUS
        <4>2. {ActionStates(t) : t \in DOMAIN history \union {tx}} = T \union {ActionStates(tx)}
          BY <4>1
        <4>3. UNION (T \union {ActionStates(tx)}) = (UNION T) \union ActionStates(tx)
          BY UnionAdded
        <4>4. QED
          BY <4>1, <4>2, <4>3
      <3>3. QED
        BY <2>5, <2>8, <3>1, <3>2
    <2>11. AccountInv'
      BY <2>7, <2>9, <2>10 DEF AccountInv
    <2>12. ActionsInv'
      <3> DEFINE row == [n |-> n, id |-> blocks[n], removed |-> FALSE]
      <3>1. DOMAIN actions = DOMAIN history /\ tx \notin DOMAIN actions
        BY <1>7 DEF ActionsInv
      <3>2. ActionRow(tx, n, blocks[n]) = row
        BY <3>1 DEF ActionRow
      <3>3. /\ DOMAIN actions' = DOMAIN actions \union {tx}
            /\ \A t \in DOMAIN actions' : actions'[t] = IF t = tx THEN row ELSE actions[t]
            /\ actions' = [t \in DOMAIN actions' |-> actions'[t]]
        BY <2>2, <3>2 DEF Upsert
      <3>4. blocks[n] \in Nat
        <4>1. chain[n] \in DOMAIN made /\ DOMAIN made = 1..Len(made) /\ Len(made) \in Nat
          BY <1>1, <1>2, ChainTypes DEF IndexInv
        <4>2. QED
          BY <1>2, <4>1
      <3>5. row \in [n : Nat, id : Nat, removed : {FALSE}] /\ row.n = n /\ row.id = blocks[n]
        BY <3>4
      <3> HIDE DEF row
      <3>6. UNCHANGED <<marked, blocks>>
        OBVIOUS
      <3>7. row.n \in 1..marked /\ blocks[row.n] = row.id
        BY <1>2, <3>5
      <3>8. \A t \in DOMAIN actions : actions[t].n \in 1..marked /\ blocks[actions[t].n] = actions[t].id
        BY DEF ActionsInv, Settled
      <3>9. \A t \in DOMAIN actions' : Settled(actions[t])'
        <4>1. \A t \in DOMAIN actions' :
                actions'[t].n \in 1..marked /\ blocks[actions'[t].n] = actions'[t].id
          BY <3>3, <3>7, <3>8
        <4>2. QED
          BY <3>6, <4>1 DEF Settled
      <3>10. \A t \in DOMAIN actions' : actions'[t] \in [n : Nat, id : Nat, removed : {FALSE}]
        BY <3>3, <3>5 DEF ActionsInv
      <3>11. QED
        BY <2>5, <3>1, <3>3, <3>9, <3>10 DEF ActionsInv
    <2>13. QED
      BY <2>11, <2>12
  <1>8. QED
    BY <1>6, <1>7

-----------------------------------------------------------------------------
(* The steps that move the account or the jobs.                            *)

LEMMA SentGrows ==
    ASSUME [Next]_vars
    PROVE  sent' \subseteq sent \union DOMAIN jobs /\ (LoseDatabase \/ losses' = losses)
  <1>1. CASE Tick \/ TickEnds \/ Archive
    BY <1>1 DEF Tick, TickEnds, Archive, chainVars
  <1>2. CASE Chain
    BY <1>2 DEF Chain, ChainStep, MineDeposit, MineClaim, MineSent, Mine, Finalize, Reorg, FlipBack
  <1>3. CASE Work
    BY <1>3 DEF Work, JobSubmitted, chainVars
  <1>4. CASE LoseDatabase
    BY <1>4 DEF LoseDatabase, chainVars
  <1>5. ASSUME NEW b \in Batchers, Batching(b)
        PROVE  sent' \subseteq sent \union DOMAIN jobs /\ losses' = losses
    BY <1>5 DEF Batching, chainVars
  <1>6. CASE UNCHANGED vars
    BY <1>6 DEF vars, chainVars
  <1>7. QED
    BY <1>1, <1>2, <1>3, <1>4, <1>5, <1>6 DEF Next

\* The account stays; jobs that build on it are added.
LEMMA JobsKept ==
    ASSUME IndexInv, IndexInv', FinalInv, Grown, Marked, LogsInv,
           UNCHANGED <<account, actions>>, DOMAIN history' = DOMAIN history, losses' = losses,
           \A tx \in DOMAIN jobs' :
             tx \in DOMAIN jobs \/ (Extends(tx) /\ IsPrefix(tx.base, account.state)),
           sent' \subseteq sent \union DOMAIN jobs,
           MaxLosses = 0 =>
             DOMAIN jobs \subseteq DOMAIN jobs' /\ \A tx \in DOMAIN jobs' : ~jobs'[tx].recovered
    PROVE  TransactionsInv' /\ KnownInv' /\ AccountInv' /\ ActionsInv'
  <1>1. TransactionsInv /\ KnownInv /\ AccountInv /\ ActionsInv
    BY DEF LogsInv
  <1>2. TransactionsInv'
    BY <1>1 DEF TransactionsInv
  <1>3. MaxLosses' = MaxLosses
    BY DEF Grown, MaxLosses
  <1>4. KnownInv'
    BY <1>1, <1>3 DEF KnownInv
  <1>5. AccountInv'
    BY <1>1, AccountKeeps
  <1>6. ActionsInv'
    BY <1>1, ActionsKeep
  <1>7. QED
    BY <1>2, <1>4, <1>5, <1>6

LEMMA RolledBackAccount ==
    ASSUME IndexInv, IndexInv', FinalInv, Grown, Marked, JobsInv, LogsInv, losses' = losses,
           sent' \subseteq sent \union DOMAIN jobs,
           NEW k \in Nat, marked <= k, AccountRolledBack(k)
    PROVE  TransactionsInv' /\ KnownInv' /\ AccountInv' /\ ActionsInv'
  <1>1. /\ UNCHANGED account /\ DOMAIN jobs' \subseteq DOMAIN jobs
        /\ DOMAIN history' = DOMAIN history
        /\ \A tx \in DOMAIN jobs' : jobs'[tx].recovered = jobs[tx].recovered
    BY RolledBackJobs
  <1>2. KnownInv /\ ActionsInv
    BY DEF LogsInv
  <1>3. actions' = actions
    <2>1. marked \in Nat
      BY ChainTypes DEF IndexInv, IndexTyped
    <2>2. actions' = [tx \in DOMAIN actions |->
                        [actions[tx] EXCEPT !.removed = @ \/ actions[tx].n > k]]
      BY DEF AccountRolledBack, RemovedAfter
    <2>3. ASSUME NEW tx \in DOMAIN actions
          PROVE  [actions[tx] EXCEPT !.removed = @ \/ actions[tx].n > k] = actions[tx]
      <3>1. PICK row : row = actions[tx]
        OBVIOUS
      <3>2. row.n \in 1..marked /\ row \in [n : Nat, id : Nat, removed : {FALSE}]
        BY <1>2, <2>3, <3>1 DEF ActionsInv, Settled
      <3>3. ~(row.n > k)
        BY <2>1, <3>2
      <3>4. [row EXCEPT !.removed = FALSE] = row /\ row.removed = FALSE
        BY <3>2
      <3>5. (row.removed \/ row.n > k) = FALSE
        BY <3>3, <3>4, Zenon
      <3>6. QED
        BY <3>1, <3>4, <3>5
    <2>4. actions = [tx \in DOMAIN actions |-> actions[tx]]
      BY <1>2 DEF ActionsInv
    <2>5. QED
      BY <2>2, <2>3, <2>4
  <1>4. ASSUME MaxLosses = 0
        PROVE  DOMAIN jobs \subseteq DOMAIN jobs' /\ \A tx \in DOMAIN jobs' : ~jobs'[tx].recovered
    <2>1. \A tx \in DOMAIN jobs : ~jobs[tx].recovered
      BY <1>2, <1>4 DEF KnownInv
    <2>2. DOMAIN jobs' = {t \in DOMAIN jobs : ~(jobs[t].recovered /\ jobs[t].block > k)}
      BY DEF AccountRolledBack
    <2>3. QED
      BY <1>1, <2>1, <2>2, Zenon
  <1>5. QED
    BY <1>1, <1>3, <1>4, JobsKept

\* A transaction of a final block is applied.
LEMMA AppliedLogs ==
    ASSUME IndexInv, IndexInv', FinalInv, LogsInv, losses' = losses,
           NEW tx \in DOMAIN jobs, NEW n \in Nat, InFinal(tx, n), Outermost(tx),
           AccountApplied(tx, n, blocks[n]), UNCHANGED <<chainVars, blocks, marked>>
    PROVE  TransactionsInv' /\ KnownInv' /\ AccountInv' /\ ActionsInv'
  <1>1. TransactionsInv /\ BasedInv /\ KnownInv /\ AccountInv /\ ActionsInv
    BY DEF LogsInv
  <1>2. AccountInv' /\ ActionsInv'
    BY <1>1, AppliedAccount
  <1>3. jobs' = jobs /\ sent' = sent /\ MaxLosses' = MaxLosses
    BY DEF AccountApplied, chainVars, MaxLosses
  <1>4. TransactionsInv' /\ KnownInv'
    BY <1>1, <1>3 DEF TransactionsInv, KnownInv
  <1>5. QED
    BY <1>2, <1>4

\* Recovery applies the oldest transaction first, and knows them all.
LEMMA RecoveredInOrder ==
    ASSUME IndexInv, FinalInv, ReadInv, ~StaleProvider, At("recover"), Unapplied # {},
           NEW n, n = rows[NextUnapplied].n,
           NEW i \in 1..(n - 1), Outermost(made[chain[i]])
    PROVE  made[chain[i]] \in DOMAIN history
  <1> DEFINE u == made[chain[i]]
             tx == NextUnapplied
  <1>1. n \in Nat /\ InFinal(tx, n) /\ \A t \in Unapplied : n <= rows[t].n
    BY UnappliedFinal
  <1> HIDE DEF tx
  <1>2. /\ Len(chain) \in Nat /\ DOMAIN chain = 1..Len(chain) /\ Len(blocks) \in Nat
        /\ DOMAIN blocks = 1..Len(blocks) /\ final \in Nat /\ final <= Len(chain)
        /\ marked \in Nat /\ marked <= final /\ marked <= Len(blocks)
        /\ last \in Nat /\ tick.head \in Nat /\ tick.fin \in Nat
    BY ChainTypes DEF IndexInv, IndexTyped, FinalInv
  <1>3. n \in 1..marked
    BY <1>1 DEF InFinal
  <1>4. i \in 1..marked /\ i \in Nat /\ i < n /\ i \in DOMAIN chain /\ i \in DOMAIN blocks
    BY <1>1, <1>2, <1>3
  <1>5. blocks[i] = chain[i]
    BY <1>4 DEF FinalInv
  <1>6. tick.at = "recover" /\ tick.at \in Late
    BY DEF At, Late
  <1>7. i <= last
    <2>1. marked = tick.fin /\ tick.fin <= tick.head /\ tick.head <= last
      BY <1>6 DEF FinalInv, ReadInv, At
    <2>2. QED
      BY <1>2, <1>4, <2>1
  <1>8. u.kind \in Explorer /\ u.kind \in {"bridge", "settlement"} /\ u = EventAt(chain, i)
    BY DEF Outermost, Explorer, EventAt
  <1>9. Through(u.kind) = last
    BY <1>6 DEF Through, At
  <1>10. Recorded(i)
    <2>1. CompleteInv
      BY DEF IndexInv
    <2>2. QED
      BY <1>4, <1>5, <1>7, <1>8, <1>9, <2>1 DEF CompleteInv
  <1>11. u \in Live(rows) /\ rows[u].n = i /\ rows[u].id = chain[i]
    BY <1>8, <1>10 DEF Recorded
  <1> HIDE DEF u
  <1>12. Settled(rows[u])
    BY <1>4, <1>5, <1>11 DEF Settled
  <1>13. u \notin Unapplied
    BY <1>1, <1>4, <1>11
  <1>14. AlreadyApplied(u)
    BY <1>8, <1>11, <1>12, <1>13 DEF Unapplied
  <1>15. QED
    BY <1>14 DEF AlreadyApplied, u

\* The job that recovery makes builds on the account: everything before it has
\* been applied.
LEMMA RecoveredLogs ==
    ASSUME IndexInv, IndexInv', FinalInv, Reliable, Grown, Marked, LogsInv, losses' = losses,
           sent' \subseteq sent \union DOMAIN jobs, RecoverJob
    PROVE  TransactionsInv' /\ KnownInv' /\ AccountInv' /\ ActionsInv'
  <1> DEFINE tx == NextUnapplied
  <1>0. TransactionsInv /\ BasedInv /\ KnownInv /\ AccountInv /\ ReadInv
    BY DEF LogsInv
  <1>1. /\ At("recover") /\ Unapplied # {} /\ tx \notin DOMAIN jobs
        /\ JobRecovered(tx, rows[tx].n)
    BY DEF RecoverJob
  <1>2. tx \in DOMAIN rows /\ Outermost(tx) /\ rows[tx].n \in Nat /\ InFinal(tx, rows[tx].n)
    BY <1>1, UnappliedFinal
  <1>3. PICK n \in Nat : n = rows[tx].n
    BY <1>2
  <1>4. tx \in sent
    <2>1. rows[tx].id \in DOMAIN made /\ made[rows[tx].id] = tx
      BY <1>2 DEF IndexInv, RowsInv
    <2>2. tx \in Range(made)
      BY <2>1 DEF Range
    <2>3. QED
      BY <1>2, <2>2 DEF IndexInv, SentInv
  <1>5. MaxLosses # 0 /\ ~StaleProvider
    BY <1>0, <1>1, <1>4 DEF KnownInv, Reliable
  <1>6. \A i \in 1..(n - 1) : Outermost(made[chain[i]]) => made[chain[i]] \in DOMAIN history
    BY <1>0, <1>1, <1>3, <1>5, RecoveredInOrder
  <1>7. /\ DOMAIN jobs' = DOMAIN jobs \union {tx}
        /\ UNCHANGED <<account, history, actions>>
    BY <1>1 DEF JobRecovered, Upsert
  <1> HIDE DEF tx
  <1>8. /\ Len(chain) \in Nat /\ DOMAIN chain = 1..Len(chain) /\ Logged(made, chain)
        /\ final \in Nat /\ final <= Len(chain) /\ marked \in Nat /\ marked <= final
    BY <1>0, ChainTypes, LoggedChain DEF IndexInv, IndexTyped, FinalInv
  <1>9. n \in 1..marked /\ n \in 1..Len(chain) /\ tx = made[chain[n]]
    BY <1>2, <1>3, <1>8 DEF InFinal, FinalInv, EventAt
  <1>10. PICK a \in 0..marked : AppliedThrough(a)
    BY <1>0 DEF AccountInv
  <1>11. Extends(tx)
    BY <1>0, <1>4 DEF TransactionsInv
  <1>12. IsPrefix(tx.base, account.state)
    <2>1. CASE tx \in DOMAIN history
      <3>1. PICK k \in 1..a : tx = made[chain[k]]
        BY <1>10, <2>1 DEF AppliedThrough, Accepted
      <3> DEFINE j == k - 1
      <3>2. k \in DOMAIN chain /\ j \in 0..a /\ a \in 0..Len(chain)
        BY <1>8
      <3>3. tx.base = LogOf(made, chain, j)
        BY <1>0, <1>2, <3>1, <3>2 DEF BasedInv, Based
      <3> HIDE DEF j
      <3>4. IsPrefix(LogOf(made, chain, j), LogOf(made, chain, a))
        BY <1>8, <3>2, LogGrows
      <3>5. QED
        BY <1>10, <3>3, <3>4 DEF AppliedThrough
    <2>2. CASE tx \notin DOMAIN history
      <3>1. a \in 0..(n - 1)
        <4>1. ~(n <= a)
          <5>1. SUFFICES ASSUME n \in 1..a PROVE FALSE
            BY <1>8, <1>9
          <5>2. tx \in Accepted(made, chain, a)
            BY <1>2, <1>9, <5>1 DEF Accepted
          <5>3. QED
            BY <1>10, <2>2, <5>2 DEF AppliedThrough
        <4>2. QED
          BY <1>8, <1>9, <4>1
      <3>2. account.state = tx.base
        BY <1>0, <1>2, <1>6, <1>9, <1>10, <3>1, NothingBetween
      <3>3. IsLog(tx.base)
        BY <1>11 DEF Extends
      <3>4. QED
        BY <3>2, <3>3, PrefixReflexive DEF IsLog
    <2>3. QED
      BY <2>1, <2>2
  <1>13. \A t \in DOMAIN jobs' : t \in DOMAIN jobs \/ (Extends(t) /\ IsPrefix(t.base, account.state))
    BY <1>7, <1>11, <1>12
  <1>14. QED
    BY <1>5, <1>7, <1>13, JobsKept

\* A job is added, or one of them moves on.
LEMMA MovedLogs ==
    ASSUME IndexInv, IndexInv', FinalInv, Grown, Marked, JobsInv, LogsInv, losses' = losses,
           sent' \subseteq sent \union DOMAIN jobs, NEW tx, NEW row, Moved(tx, row),
           tx \in DOMAIN jobs \/ (Extends(tx) /\ IsPrefix(tx.base, account.state)),
           MaxLosses = 0 => ~row.recovered
    PROVE  TransactionsInv' /\ KnownInv' /\ AccountInv' /\ ActionsInv'
  <1>1. /\ DOMAIN jobs' = DOMAIN jobs \union {tx} /\ jobs'[tx] = row
        /\ \A t \in DOMAIN jobs \ {tx} : jobs'[t] = jobs[t]
        /\ UNCHANGED <<account, history, actions>>
    BY DEF Moved
  <1>2. MaxLosses = 0 => \A t \in DOMAIN jobs : ~jobs[t].recovered
    BY DEF LogsInv, KnownInv
  <1>3. MaxLosses = 0 => \A t \in DOMAIN jobs' : ~jobs'[t].recovered
    BY <1>1, <1>2
  <1>4. \A t \in DOMAIN jobs' :
          t \in DOMAIN jobs \/ (Extends(t) /\ IsPrefix(t.base, account.state))
    BY <1>1
  <1>5. QED
    BY <1>1, <1>3, <1>4, JobsKept

LEMMA QueuedOn ==
    ASSUME NEW tx, tx.base = account.state, IsLog(account.state), IsLog(tx.actions), tx.actions # << >>
    PROVE  Extends(tx) /\ IsPrefix(tx.base, account.state)
  BY PrefixReflexive DEF Extends, IsLog

LEMMA LogsStep ==
    ASSUME IndexInv, IndexInv', FinalInv, Finalized, Reliable, JobsInv, DoneInv, LogsInv, Grown, Marked,
           [Next]_vars, ~LoseDatabase
    PROVE  TransactionsInv' /\ KnownInv' /\ AccountInv' /\ ActionsInv'
  <1>1. sent' \subseteq sent \union DOMAIN jobs /\ losses' = losses
    BY SentGrows
  <1>2. /\ TransactionsInv /\ AccountInv /\ PinnedInv
        /\ MaxLosses = 0 => \A tx \in DOMAIN jobs : ~jobs[tx].recovered
    BY DEF LogsInv, KnownInv
  <1>3. IsLog(account.state)
    BY <1>2, AccountLog
  <1>4. CASE UNCHANGED <<jobs, account, history, actions>>
    BY <1>1, <1>2, <1>4, JobsKept
  <1>5. CASE \E k \in Nat : marked <= k /\ AccountRolledBack(k)
    BY <1>1, <1>5, RolledBackAccount
  <1>6. CASE RecoverJob
    BY <1>1, <1>6, RecoveredLogs
  <1>7. CASE UNCHANGED chainVars /\ \E tx \in DOMAIN jobs : \E n \in Nat : Handled(tx, n)
    <2>1. PICK tx \in DOMAIN jobs : \E n \in Nat : Handled(tx, n)
      BY <1>7
    <2>2. PICK n \in Nat : Handled(tx, n)
      BY <2>1
    <2>3. ASSUME InFinal(tx, n), NEW phase, Apply(tx, n, blocks[n], phase)
          PROVE  TransactionsInv' /\ KnownInv' /\ AccountInv' /\ ActionsInv'
      <3>1. Outermost(tx)
        BY DEF IndexInv, SentInv
      <3>2. AccountApplied(tx, n, blocks[n]) /\ UNCHANGED <<blocks, marked>>
        BY <2>3 DEF Apply
      <3>3. QED
        BY <1>1, <1>7, <2>3, <3>1, <3>2, AppliedLogs
    <2>4. ASSUME NEW status \in Statuses, Restated(tx, n, status)
          PROVE  TransactionsInv' /\ KnownInv' /\ AccountInv' /\ ActionsInv'
      <3>1. /\ DOMAIN jobs' = DOMAIN jobs
            /\ \A t \in DOMAIN jobs : jobs'[t].recovered = jobs[t].recovered
        BY <2>4, StatusJobs
      <3>2. UNCHANGED <<account, history, actions>>
        BY <2>4 DEF Restated
      <3>3. MaxLosses = 0 => \A t \in DOMAIN jobs' : ~jobs'[t].recovered
        BY <1>2, <3>1, Zenon
      <3>4. QED
        BY <1>1, <3>1, <3>2, <3>3, JobsKept
    <2>5. QED
      BY <2>2, <2>3, <2>4 DEF Handled
  <1>8. CASE QueueSettlement
    <2>1. PICK sync, count : jobs' = Upsert(jobs,
            {Proved("settlement", nextJob, account.state,
                    <<Commit(sync, InnerLength(account.state), count)>>)},
            LAMBDA tx : Job("queued", account.nonce, 0))
      BY <1>8 DEF QueueSettlement
    <2>2. PICK commit : commit = Commit(sync, InnerLength(account.state), count)
      OBVIOUS
    <2>3. PICK tx : tx = Proved("settlement", nextJob, account.state, <<commit>>)
      OBVIOUS
    <2>4. tx.base = account.state /\ tx.actions = <<commit>>
      BY <2>3 DEF Proved
    <2>5. <<commit>> \in Seq({commit}) /\ <<commit>> # << >>
      OBVIOUS
    <2>6. Extends(tx) /\ IsPrefix(tx.base, account.state)
      BY <1>3, <2>4, <2>5, SeqIsLog, QueuedOn
    <2>7. PICK nonce \in Nat : nonce = account.nonce
      BY DEF JobsInv
    <2>8. jobs' = Upsert(jobs, {tx}, LAMBDA t : Job("queued", nonce, 0))
      BY <2>1, <2>2, <2>3, <2>7
    <2>9. UNCHANGED <<account, history, actions>>
      BY <1>8 DEF QueueSettlement
    <2>10. PICK row : Moved(tx, row) /\ ~row.recovered
      BY <2>8, <2>9, NewJob
    <2>11. QED
      BY <1>1, <2>6, <2>10, MovedLogs
  <1>9. CASE JobSubmitted \/ JobFailed
    <2>1. PICK tx \in DOMAIN jobs :
            /\ jobs[tx].status = "queued"
            /\ \/ jobs' = [jobs EXCEPT ![tx].status = "submitted", ![tx].signed = TRUE]
               \/ jobs' = [jobs EXCEPT ![tx].status = "failed"]
      BY <1>9 DEF JobSubmitted, JobFailed
    <2>2. PICK row : Moved(tx, row) /\ row.recovered = jobs[tx].recovered
      BY <1>9, <2>1, MovedJob
    <2>3. MaxLosses = 0 => ~row.recovered
      BY <1>2, <2>2, Zenon
    <2>4. QED
      BY <1>1, <2>2, <2>3, MovedLogs
  <1>10. CASE \E b \in Batchers : QueueBatch(b) /\ BatchQueues(b)
    <2>1. PICK b \in Batchers : QueueBatch(b) /\ BatchQueues(b)
      BY <1>10
    <2>2. PICK tx : tx = Proved("bridge", nextJob, batch[b].base, batch[b].pending)
      OBVIOUS
    <2>3. /\ jobs' = Upsert(jobs, {tx}, LAMBDA t : Job("queued", 0, 0))
          /\ UNCHANGED <<account, history, actions>>
      BY <2>1, <2>2 DEF QueueBatch
    <2>4. account.state = batch[b].base /\ batch[b].at = "loaded"
      BY <2>1 DEF QueueBatch, BatchQueues
    <2>5. IsLog(batch[b].pending) /\ batch[b].pending # << >>
      BY <1>2, <2>4 DEF PinnedInv
    <2>6. Extends(tx) /\ IsPrefix(tx.base, account.state)
      <3>1. tx.base = batch[b].base /\ tx.actions = batch[b].pending
        BY <2>2 DEF Proved
      <3>2. QED
        BY <1>3, <2>4, <2>5, <3>1, QueuedOn
    <2>7. PICK nonce \in Nat : nonce = 0
      OBVIOUS
    <2>8. jobs' = Upsert(jobs, {tx}, LAMBDA t : Job("queued", nonce, 0))
      BY <2>3, <2>7
    <2>9. PICK row : Moved(tx, row) /\ ~row.recovered
      BY <2>3, <2>8, NewJob
    <2>10. QED
      BY <1>1, <2>6, <2>9, MovedLogs
  <1>11. QED
    BY <1>4, <1>5, <1>6, <1>7, <1>8, <1>9, <1>10, JobKinds

\* The account of an empty database.
LEMMA LogsEmpty ==
    ASSUME jobs' = << >>, history' = << >>, actions' = << >>, account'.state = << >>,
           marked' = 0
    PROVE  AccountInv' /\ ActionsInv'
  <1>1. DOMAIN jobs' = {} /\ DOMAIN history' = {} /\ DOMAIN actions' = {}
    OBVIOUS
  <1>2. AppliedThrough(0)'
    <2>1. LogOf(made', chain', 0) = << >>
      BY LogZero
    <2>2. Accepted(made', chain', 0) = {}
      BY DEF Accepted
    <2>3. QED
      BY <1>1, <2>1, <2>2 DEF AppliedThrough
  <1>3. \E a \in 0..marked' : AppliedThrough(a)'
    BY <1>2
  <1>4. StatesTo(account'.state) = {}
    BY DEF StatesTo
  <1>5. UNION {ActionStates(tx) : tx \in DOMAIN history'} = {}
    BY <1>1
  <1>6. AccountInv'
    BY <1>1, <1>3, <1>4, <1>5 DEF AccountInv
  <1>7. actions' \in [DOMAIN actions' -> [n : Nat, id : Nat, removed : {FALSE}]]
    OBVIOUS
  <1>8. QED
    BY <1>1, <1>6, <1>7 DEF ActionsInv

LEMMA LogsNext ==
    ASSUME TrueInv, [Next]_vars
    PROVE  TrueInv'
  <1>1. IndexInv /\ IndexInv' /\ Grown /\ BatchInv'
    BY IndexNext, ChainGrown, BatchNext DEF TrueInv, BatchInv
  <1>2. Finalized' = Finalized /\ Reliable' = Reliable /\ MaxLosses' = MaxLosses
    BY <1>1 DEF Finalized, Confirmations, Reliable, StaleProvider, MaxLosses, Grown
  <1>3. ASSUME Finalized, Reliable PROVE LogsInv'
    <2>1. FinalInv /\ JobsInv /\ DoneInv /\ LogsInv
      BY <1>3 DEF TrueInv, BatchInv
    <2>2. BasedInv' /\ PinnedInv' /\ ReadInv'
      BY <1>1, <1>3, <2>1, BasedStep, PinnedStep, ReadStep DEF LogsInv
    <2>3. CASE LoseDatabase
      <3>1. /\ jobs' = << >> /\ history' = << >> /\ actions' = << >>
            /\ account' = [state |-> << >>, nonce |-> 0] /\ marked' = 0
            /\ losses < MaxLosses /\ losses' = losses + 1 /\ sent' = sent
        BY <2>3 DEF LoseDatabase, chainVars
      <3>2. AccountInv' /\ ActionsInv'
        BY <3>1, LogsEmpty
      <3>3. losses \in Nat
        BY <2>1 DEF LogsInv, KnownInv
      <3>4. KnownInv'
        BY <1>2, <3>1, <3>3 DEF KnownInv
      <3>5. TransactionsInv'
        BY <2>1, <3>1 DEF LogsInv, TransactionsInv
      <3>6. QED
        BY <2>2, <3>2, <3>4, <3>5 DEF LogsInv
    <2>4. CASE ~LoseDatabase
      <3>1. Marked
        BY <1>1, <1>3, <2>1, <2>4, FinalStep
      <3>2. TransactionsInv' /\ KnownInv' /\ AccountInv' /\ ActionsInv'
        BY <1>1, <1>3, <2>1, <2>4, <3>1, LogsStep
      <3>3. QED
        BY <2>2, <3>2 DEF LogsInv
    <2>5. QED
      BY <2>3, <2>4
  <1>4. QED
    BY <1>1, <1>2, <1>3 DEF TrueInv

LEMMA LogsInitial ==
    ASSUME Init
    PROVE  TrueInv
  <1>1. BatchInv
    BY BatchInitial
  <1>2. /\ chain = << >> /\ fork = << >> /\ sent = {} /\ marked = 0 /\ tick = Idle
        /\ jobs = << >> /\ history = << >> /\ actions = << >> /\ account.state = << >>
        /\ batch = [b \in Batchers |-> NoBatch] /\ losses = 0
    BY DEF Init, ChainInit, IndexInit, AccountInit, DepositInit
  <1>3. DOMAIN jobs = {} /\ DOMAIN history = {} /\ DOMAIN actions = {}
    BY <1>2
  <1>4. BasedInv
    BY <1>2 DEF BasedInv, Based
  <1>5. TransactionsInv /\ KnownInv
    BY <1>2, <1>3 DEF TransactionsInv, KnownInv
  <1>6. PinnedInv
    <2>1. DOMAIN batch = Batchers /\ \A b \in Batchers : batch[b] = NoBatch
      BY <1>2
    <2>2. NoBatch.at = "idle"
      BY DEF NoBatch
    <2>3. QED
      BY <2>1, <2>2 DEF PinnedInv
  <1>7. ReadInv
    <2>1. tick.at = "idle"
      BY <1>2 DEF Idle
    <2>2. QED
      BY <2>1 DEF ReadInv, At, Late, Scanning
  <1>8. AccountInv
    <2>1. LogOf(made, chain, 0) = << >> /\ Accepted(made, chain, 0) = {}
      BY LogZero DEF Accepted
    <2>2. AppliedThrough(0)
      BY <1>2, <1>3, <2>1 DEF AppliedThrough
    <2>3. \E a \in 0..marked : AppliedThrough(a)
      BY <1>2, <2>2
    <2>4. StatesTo(account.state) = {}
      BY <1>2 DEF StatesTo
    <2>5. UNION {ActionStates(tx) : tx \in DOMAIN history} = {}
      BY <1>3
    <2>6. QED
      BY <1>3, <2>3, <2>4, <2>5 DEF AccountInv
  <1>9. ActionsInv
    <2>1. actions \in [DOMAIN actions -> [n : Nat, id : Nat, removed : {FALSE}]]
      BY <1>2
    <2>2. QED
      BY <1>3, <2>1 DEF ActionsInv
  <1>10. QED
    BY <1>1, <1>4, <1>5, <1>6, <1>7, <1>8, <1>9 DEF TrueInv, LogsInv

LEMMA AccountFinal ==
    ASSUME IndexInv, FinalInv, LogsInv
    PROVE  AccountIsFinalLog
  <1>1. /\ Len(chain) \in Nat /\ DOMAIN chain = 1..Len(chain) /\ Logged(made, chain)
        /\ blocks \in Seq(DOMAIN made) /\ final \in Nat /\ final <= Len(chain)
        /\ marked \in 0..Len(blocks) /\ Len(blocks) \in Nat /\ marked <= final
    BY ChainTypes, LoggedChain DEF IndexInv, ChainTyped, IndexTyped, FinalInv, LogsInv
  <1>2. marked \in Nat /\ marked \in 0..Len(chain)
    BY <1>1
  <1>3. PICK d : d = SubSeq(blocks, 1, marked)
    OBVIOUS
  <1>4. Len(d) = marked /\ DOMAIN d = 1..marked /\ \A i \in 1..marked : d[i] = blocks[i]
    BY <1>1, <1>3, Cut
  <1>5. FinalLog = LogOf(made, d, marked)
    BY <1>2, <1>3, <1>4, OuterIs DEF FinalLog
  <1>6. LogOf(made, d, marked) = LogOf(made, chain, marked)
    <2>1. 1..marked \subseteq DOMAIN chain
      BY <1>1, <1>2
    <2>2. \A i \in 1..marked : made[d[i]] = made[chain[i]]
      BY <1>4 DEF FinalInv
    <2>3. QED
      BY <1>2, <1>4, <2>1, <2>2, LogSame
  <1>7. PICK a \in 0..marked : account.state = LogOf(made, chain, a)
    BY DEF LogsInv, AccountInv, AppliedThrough
  <1>8. IsPrefix(LogOf(made, chain, a), LogOf(made, chain, marked))
    BY <1>1, <1>2, LogGrows
  <1>9. QED
    BY <1>5, <1>6, <1>7, <1>8 DEF AccountIsFinalLog

LEMMA ActionsServed ==
    ASSUME LogsInv
    PROVE  ActionsMatchAccount
  <1>1. AccountInv /\ ActionsInv
    BY DEF LogsInv
  <1>2. ASSUME NEW tx \in DOMAIN actions
        PROVE  tx \in Live(actions) /\ Settled(actions[tx])
    <2>1. actions[tx].removed = FALSE
      BY <1>1 DEF ActionsInv
    <2>2. ~actions[tx].removed
      BY <2>1, Zenon
    <2>3. QED
      BY <1>1, <2>2 DEF ActionsInv, Live
  <1>3. {t \in Live(actions) : Settled(actions[t])} = DOMAIN history
    <2>1. Live(actions) \subseteq DOMAIN actions
      BY DEF Live
    <2>2. QED
      BY <1>1, <1>2, <2>1 DEF ActionsInv
  <1>4. Served = UNION {ActionStates(tx) : tx \in DOMAIN history}
    BY <1>3, Zenon DEF Served
  <1>5. Served = StatesTo(account.state)
    BY <1>1, <1>4 DEF AccountInv
  <1>6. QED
    BY <1>5 DEF ActionsMatchAccount, StatesTo

\* In finalized mode the virtual account is a prefix of the finalized outer log
\* and a query returns its actions, all of them and no other, when the endpoint
\* does not go back to a fork it left or no database is lost: transactions are
\* applied in the order of the chain and without a gap, whichever of recovery
\* and reconciliation gets to them, and rollbacks keep what is final
\* (recover_gateway_state, reconcile_jobs, rollback_after, graphql.rs actions).
THEOREM AccountCorrect == Spec => [](Finalized /\ Reliable => AccountIsTrue)
  <1>1. Init => TrueInv
    BY LogsInitial
  <1>2. TrueInv /\ [Next]_vars => TrueInv'
    BY LogsNext
  <1>3. TrueInv => (Finalized /\ Reliable => AccountIsTrue)
    BY AccountFinal, ActionsServed DEF TrueInv, BatchInv, AccountIsTrue
  <1>4. QED
    BY <1>1, <1>2, <1>3, PTL DEF Spec
=============================================================================
