--------------------------- MODULE EthereumChain ----------------------------
(***************************************************************************)
(* Ethereum as the gateway sees it (external): a canonical chain of outer  *)
(* transactions, one to a block, a finalized prefix that never changes,    *)
(* and a mempool that may forget.  A transaction is named by its job and   *)
(* the attempt that signed it: two signings are two transactions.          *)
(***************************************************************************)
EXTENDS Naturals, Sequences

CONSTANTS
    MaxFaults,      \* crashes, lost sessions, RPC failures, reorgs, evictions
    LossyNetwork    \* may a reorg or the mempool lose a transaction?

ASSUME ChainAssumption == MaxFaults \in Nat /\ LossyNetwork \in BOOLEAN

VARIABLES
    chain,          \* blocks: [tx, ok]; ok = the contract accepted it
    final,          \* height of the consensus-finalized block
    mempool,        \* broadcast transactions not mined yet
    faults          \* faults so far

chainVars == <<chain, final, mempool, faults>>

\* The outer account after these blocks: what the contract accepted, in order.
OuterState(blocks) ==
    LET after[n \in 0..Len(blocks)] ==
          IF n = 0 THEN << >>
          ELSE IF blocks[n].ok THEN Append(after[n - 1], blocks[n])
          ELSE after[n - 1]
    IN after[Len(blocks)]

Mined(tx) == \E p \in DOMAIN chain : chain[p].tx = tx

Fault == faults < MaxFaults /\ faults' = faults + 1

\* The contract accepts a transaction only on the state its proof starts from;
\* even then it may revert (paused, out of its slot range, a later deposit).
Mine(tx, base) ==
    /\ tx \in mempool
    /\ \E ok \in BOOLEAN :
         /\ ok => base = OuterState(chain)
         /\ chain' = Append(chain, [tx |-> tx, ok |-> ok])
    /\ mempool' = mempool \ {tx}
    /\ UNCHANGED <<final, faults>>

Finalize ==
    /\ final < Len(chain)
    /\ final' = final + 1
    /\ UNCHANGED <<chain, mempool, faults>>

\* The blocks above n are orphaned; some of their transactions survive.
Reorg ==
    \E n \in final..(Len(chain) - 1) :
        LET orphaned == {chain[p].tx : p \in (n + 1)..Len(chain)} IN
        /\ Fault
        /\ chain' = SubSeq(chain, 1, n)
        /\ \E kept \in SUBSET orphaned :
             /\ LossyNetwork \/ kept = orphaned
             /\ mempool' = mempool \union kept
        /\ UNCHANGED final

Evict ==
    /\ LossyNetwork /\ Fault
    /\ \E tx \in mempool : mempool' = mempool \ {tx}
    /\ UNCHANGED <<chain, final>>

=============================================================================
