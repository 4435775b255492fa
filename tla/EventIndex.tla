----------------------------- MODULE EventIndex -----------------------------
(***************************************************************************)
(* The indexer's own tables (api/src/indexer.rs): the block rows that are  *)
(* its cursor, and the event rows of the explorer tables.  A tick reads    *)
(* the head and the finalized block once, then works from them while the   *)
(* chain moves on: blocks and deposits are read by block hash, explorer    *)
(* events by block number.  Any RPC call may fail and end the tick, which  *)
(* the next one repeats.                                                   *)
(***************************************************************************)
EXTENDS LogChain

VARIABLES
    blocks,     \* gateway_blocks that are canonical: hashes by height
    marked,     \* the height up to which they are marked finalized
    rows,       \* bridge transitions, settlements and claims, by transaction
    last,       \* gateway_explorer_index_state.last_block
    tick        \* where the running tick is, and the heights it works from

indexVars == <<blocks, marked, rows, last, tick>>

\* done: the transaction that was applied last and the block it was in.
Idle == [at |-> "idle", head |-> 0, fin |-> 0, done |-> << >>]

\* The depth in confirmation mode; 0 is finalized mode.
Confirmations == setup.confirmations
Finalized == Confirmations = 0

\* A row of an explorer table.  batch: the settlement row has been completed
\* from its inner-action batch event.
EventRow(n, id) == [n |-> n, id |-> id, removed |-> FALSE, batch |-> FALSE]

\* INSERT ... ON CONFLICT DO UPDATE: these keys get these rows.
Upsert(table, keys, Row(_)) ==
    [key \in DOMAIN table \union keys |->
        IF key \in keys THEN Row(key) ELSE table[key]]

Live(table) == {key \in DOMAIN table : ~table[key].removed}

\* The row's block is one the gateway takes to be canonical and final.
Settled(row) ==
    row.n \in 1..marked /\ blocks[row.n] = row.id

RemovedAfter(table, n) ==
    [key \in DOMAIN table |->
        [table[key] EXCEPT !.removed = @ \/ table[key].n > n]]

-----------------------------------------------------------------------------
(* One tick.  The steps that also touch other tables take their effect on  *)
(* those as a parameter in the module that composes the tables.            *)

At(phase) == tick.at = phase

Goto(phase) == tick' = [tick EXCEPT !.at = phase]

\* tick() up to its first write: the head and the finalized block.
BeginTick ==
    /\ At("idle") /\ chain # << >>
    /\ tick' = [Idle EXCEPT !.at = "tip", !.head = Len(chain), !.fin = final]
    /\ UNCHANGED <<blocks, marked, rows, last>>

\* common_ancestor: the highest block at or below n the two chains share, or
\* that the gateway has no row for.
CommonAncestor(n) ==
    CHOOSE k \in 0..n :
        /\ k = 0 \/ k \notin DOMAIN blocks \/ blocks[k] = chain[k]
        /\ \A m \in (k + 1)..n : m \in DOMAIN blocks /\ blocks[m] # chain[m]

\* rollback_canonical_chain refuses to go behind a consensus-final block.
MayRollBack(n) == Finalized => marked <= n

\* Fault: the explorer cursor stays where it was.
IndexRolledBackPastCursor(n) ==
    /\ blocks' = SubSeq(blocks, 1, n)
    /\ marked' = IF marked > n THEN n ELSE marked
    /\ rows' = RemovedAfter(rows, n)
    /\ UNCHANGED last

\* rollback_after, on the tables of this module.
IndexRolledBack(n) ==
    /\ blocks' = SubSeq(blocks, 1, n)
    /\ marked' = IF marked > n THEN n ELSE marked
    /\ rows' = RemovedAfter(rows, n)
    /\ last' = IF last > n THEN n ELSE last

\* No child block will reveal a reorganization at a head that did not move.
TipMoved ==
    /\ Len(blocks) >= tick.head
    /\ Len(blocks) > tick.head \/ blocks[tick.head] # chain[tick.head]

\* The next block to index, and whether it fits on the last one.
NextBlock == Len(blocks) + 1
ParentMatches == \A n \in DOMAIN blocks : n = Len(blocks) => blocks[n] = chain[n]

\* index_bridge_deposits, without the deposit rows: the block is the cursor.
BlockIndexed ==
    /\ blocks' = Append(blocks, chain[NextBlock])
    /\ UNCHANGED <<marked, rows, last, tick>>

\* The checks between indexing the blocks and advancing finality.
HeadHeld ==
    /\ tick.head \in DOMAIN chain /\ blocks[tick.head] = chain[tick.head]
    /\ Finalized =>
         /\ tick.fin <= tick.head /\ marked <= tick.fin
         /\ tick.fin > 0 => blocks[tick.fin] = chain[tick.fin]

FinalizedThrough ==
    IF Finalized THEN tick.fin
    ELSE IF tick.head >= Confirmations THEN tick.head - Confirmations + 1 ELSE 0

FinishBlocks ==
    /\ At("blocks") /\ Len(blocks) >= tick.head /\ HeadHeld
    /\ marked' = FinalizedThrough
    /\ Goto(IF last < tick.head THEN "transitions" ELSE "recover")
    /\ UNCHANGED <<blocks, rows, last>>

\* The events that eth_getLogs returns for the range, by block number.
InRange(kind) ==
    {n \in (last + 1)..tick.head :
        n \in DOMAIN chain /\ EventAt(chain, n).kind = kind}

EventsIn(kind) == {EventAt(chain, n) : n \in InRange(kind)}

\* The row of an event: the block it was last seen in.
Seen(kind, ev) ==
    LET n == CHOOSE n \in InRange(kind) : EventAt(chain, n) = ev
    IN  EventRow(n, chain[n])

IndexTransitions ==
    /\ At("transitions")
    /\ rows' = Upsert(rows, EventsIn("bridge"), LAMBDA ev : Seen("bridge", ev))
    /\ Goto("settlements")
    /\ UNCHANGED <<blocks, marked, last>>

\* A settlement row that is seen again loses its batch columns.
IndexSettlements ==
    /\ At("settlements")
    /\ rows' = Upsert(rows, EventsIn("settlement"),
                      LAMBDA ev : Seen("settlement", ev))
    /\ Goto("batches")
    /\ UNCHANGED <<blocks, marked, last>>

\* Every batch event must find the live row of its settlement.
BatchesMatch == EventsIn("settlement") \subseteq Live(rows)

IndexBatches ==
    /\ At("batches") /\ BatchesMatch
    /\ rows' = [tx \in DOMAIN rows |->
                  [rows[tx] EXCEPT !.batch = @ \/ tx \in EventsIn("settlement")]]
    /\ Goto("claims")
    /\ UNCHANGED <<blocks, marked, last>>

IndexClaims ==
    /\ At("claims")
    /\ rows' = Upsert(rows, EventsIn("claim"), LAMBDA ev : Seen("claim", ev))
    /\ last' = tick.head
    /\ Goto("recover")
    /\ UNCHANGED <<blocks, marked>>

\* An RPC call fails, or a check on what it returned does.
TickFails ==
    /\ ~At("idle")
    /\ tick' = Idle
    /\ UNCHANGED <<blocks, marked, rows, last>>

IndexInit ==
    /\ blocks = << >> /\ marked = 0 /\ rows = << >> /\ last = 0 /\ tick = Idle

=============================================================================
