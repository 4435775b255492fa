---------------------------- MODULE EscrowLedger ----------------------------
(***************************************************************************)
(* What the contracts promise together, without proofs, checkpoints, hash  *)
(* chains, cursors or batches: a ledger of deposits, of which the first    *)
(* `credited' are known to the L2, and of withdrawals that the L2 has      *)
(* requested against them, each paid at most once.  Amounts are in Zeko    *)
(* units.                                                                  *)
(***************************************************************************)
EXTENDS Integers, Sequences, Functions

CONSTANT Assets

VARIABLES
    deposited,      \* deposits, in order
    credited,       \* how many of them the L2 may spend
    requested,      \* inner actions, in order; some are withdrawals
    paid            \* positions of the withdrawals that were paid

ledgerVars == <<deposited, credited, requested, paid>>

\* The sum of an asset over the first n deposits, and over all requests.
DepositedTotal(asset, n) ==
    SumFunction([i \in {j \in 1..n : deposited[j].token = asset} |->
                    deposited[i].amount])

RequestedTotal(asset, requests) ==
    SumFunction([i \in {j \in DOMAIN requests : requests[j].kind = "withdrawal"
                                                /\ requests[j].token = asset} |->
                    requests[i].amount])

Init == deposited = << >> /\ credited = 0 /\ requested = << >> /\ paid = {}

Deposit ==
    /\ Len(deposited') = Len(deposited) + 1
    /\ SubSeq(deposited', 1, Len(deposited)) = deposited
    /\ deposited'[Len(deposited')].token \in Assets
    /\ deposited'[Len(deposited')].amount > 0
    /\ UNCHANGED <<credited, requested, paid>>

\* All that is deposited and not credited, at once.
Credit ==
    /\ credited < Len(deposited)
    /\ credited' = Len(deposited)
    /\ UNCHANGED <<deposited, requested, paid>>

\* The L2 requests what the credited deposits cover.
Request ==
    /\ Len(requested') > Len(requested)
    /\ SubSeq(requested', 1, Len(requested)) = requested
    /\ \A a \in Assets : RequestedTotal(a, requested') <= DepositedTotal(a, credited)
    /\ UNCHANGED <<deposited, credited, paid>>

Pay ==
    /\ \E i \in DOMAIN requested \ paid :
         /\ requested[i].kind = "withdrawal"
         /\ paid' = paid \union {i}
    /\ UNCHANGED <<deposited, credited, requested>>

Next == Deposit \/ Credit \/ Request \/ Pay

Spec == Init /\ [][Next]_ledgerVars

=============================================================================
