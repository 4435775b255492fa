------------------------------ MODULE LogChain ------------------------------
(***************************************************************************)
(* Ethereum as the gateway's event tables see it (external): blocks with   *)
(* one event each, a finalized prefix, and transactions that were sent and *)
(* may be mined, orphaned and mined again.  The outer account's action     *)
(* state is a hash chain: a state stands for the sequence of actions in it.*)
(***************************************************************************)
EXTENDS Integers, SequencesExt

CONSTANT
    Setups      \* what a behaviour may be about: a configuration, and bounds

ASSUME SetupsAssumption ==
    \A s \in Setups :
        /\ {s.maxBlocks, s.maxDeposits, s.maxReorgs, s.maxJobs, s.maxSettlements,
            s.maxInner, s.maxLosses, s.confirmations} \subseteq Nat
        /\ s.staleProvider \in BOOLEAN
        /\ s.batchers \subseteq {"loop", "operator"}

VARIABLES
    setup,      \* the one of them that this behaviour is about
    chain,      \* the canonical chain: block hashes by height
    made,       \* the event of every block ever mined, by its hash
    final,      \* height of the consensus-finalized block
    reorgs,     \* reorganizations so far
    fork,       \* the chain before the last one
    sent        \* transactions that have been broadcast

chainVars == <<setup, chain, made, final, reorgs, fork, sent>>

Depositors == setup.depositors
MaxBlocks == setup.maxBlocks        \* ever mined: their hashes are 1..MaxBlocks
MaxDeposits == setup.maxDeposits    \* deposit nonces
MaxReorgs == setup.maxReorgs

\* May the endpoint answer from an orphaned fork again?
StaleProvider == setup.staleProvider

\* The largest of a bound over all setups.
Largest(bound) == Max({s[bound] : s \in Setups})

-----------------------------------------------------------------------------
(* Actions of the outer log, and the events that append them.              *)

Witness(nonce, who) == [nonce |-> nonce, who |-> who]

\* The Commit action of a settlement: it synchronizes with the first sync
\* outer actions and carries count inner actions from index start on.
Commit(sync, start, count) ==
    [sync |-> sync, start |-> start, count |-> count]

Deposit(nonce, who) == [kind |-> "deposit", nonce |-> nonce, who |-> who]

\* A proved transaction: it takes the action state base to base \o actions.
Proved(kind, job, base, actions) ==
    [kind |-> kind, job |-> job, base |-> base, actions |-> actions]

Claim(index) == [kind |-> "claim", index |-> index]

\* A transaction that was included and reverted.
Reverted(tx) == [kind |-> "reverted", tx |-> tx]

EventAt(hashes, n) == made[hashes[n]]

Events(hashes) == [n \in DOMAIN hashes |-> EventAt(hashes, n)]

\* The members of a sequence that are in the set, in order.
Kept(seq, set) ==
    FlattenSeq([n \in DOMAIN seq |-> IF seq[n] \in set THEN <<seq[n]>> ELSE << >>])

\* The events of transactions that append to the outer log.
Outermost(ev) == ev.kind \in {"bridge", "settlement"}

\* The outer log after these events.
OuterLog(events) ==
    FlattenSeq([n \in DOMAIN events |->
                  IF Outermost(events[n]) THEN events[n].actions ELSE << >>])

Outer(hashes) == OuterLog(Events(hashes))

Deposits(hashes) ==
    LET events == Kept(Events(hashes), {ev \in Range(made) : ev.kind = "deposit"})
    IN  [i \in DOMAIN events |-> Witness(events[i].nonce, events[i].who)]

Witnesses(log) == Kept(log, {action \in Range(log) : "who" \in DOMAIN action})

Commits(log) == Kept(log, {action \in Range(log) : "sync" \in DOMAIN action})

InnerLength(log) ==
    FoldLeft(LAMBDA n, commit : n + commit.count, 0, Commits(log))

\* The outer actions a settlement may synchronize with: never fewer again.
Synchronized(log) ==
    FoldLeft(LAMBDA n, commit : commit.sync, 0, Commits(log))

\* The contracts accept tx on top of these blocks: it starts at the current
\* action state, and the deposits it witnesses are the next ones.
Accepts(hashes, tx) ==
    /\ tx.base = Outer(hashes)
    /\ IsPrefix(Witnesses(tx.base \o tx.actions), Deposits(hashes))

OnChain(tx) == \E n \in DOMAIN chain : EventAt(chain, n) \in {tx, Reverted(tx)}

-----------------------------------------------------------------------------
Mine(ev) ==
    /\ Len(made) < MaxBlocks
    /\ made' = Append(made, ev)
    /\ chain' = Append(chain, Len(made) + 1)
    /\ UNCHANGED <<setup, final, reorgs, fork, sent>>

MineDeposit ==
    LET nonce == Len(Deposits(chain)) + 1 IN
    /\ nonce <= MaxDeposits
    /\ \E who \in Depositors : Mine(Deposit(nonce, who))

\* The one claim of an inner action that a settlement has carried.
MineClaim ==
    /\ \A n \in DOMAIN chain : EventAt(chain, n).kind # "claim"
    /\ \E index \in 0..(InnerLength(Outer(chain)) - 1) : Mine(Claim(index))

MineSent ==
    \E tx \in sent :
        /\ ~OnChain(tx)
        /\ Mine(IF Accepts(chain, tx) THEN tx ELSE Reverted(tx))

Finalize ==
    /\ final < Len(chain)
    /\ final' = final + 1
    /\ UNCHANGED <<setup, chain, made, reorgs, fork, sent>>

\* The head falls back to an unfinalized ancestor.
Reorg ==
    /\ reorgs < MaxReorgs
    /\ \E n \in final..(Len(chain) - 1) : chain' = SubSeq(chain, 1, n)
    /\ reorgs' = reorgs + 1
    /\ fork' = IF StaleProvider THEN chain ELSE << >>
    /\ UNCHANGED <<setup, made, final, sent>>

\* The endpoint's head goes back to the fork it had left.
FlipBack ==
    /\ StaleProvider /\ fork # << >>
    /\ IsPrefix(SubSeq(chain, 1, final), fork)
    /\ chain' = fork /\ fork' = << >>
    /\ UNCHANGED <<setup, made, final, reorgs, sent>>

ChainInit ==
    /\ setup \in Setups
    /\ chain = << >> /\ made = << >> /\ fork = << >>
    /\ final = 0 /\ reorgs = 0 /\ sent = {}

=============================================================================
