-------------------------- MODULE WithdrawalClaims --------------------------
(***************************************************************************)
(* A withdrawal from its settlement to its payment: the leaf rows of the   *)
(* gateway, the lists api/src/main.rs answers from them with the progress  *)
(* of each withdrawal, and the claims of contracts/src/                    *)
(* EthereumZekoBridge.sol.  The bridge takes a claim from anyone, and pays *)
(* in increasing index order per recipient and asset: a claim of a later   *)
(* withdrawal forfeits the earlier ones.  A client reads a list, whose     *)
(* slot, delay and cursor the gateway reads one after the other, and       *)
(* claims the first withdrawal that is not processed; strangers claim what *)
(* they like.  Proofs and escrow are in InnerActionTree and ZekoContracts. *)
(***************************************************************************)
EXTENDS Integers, Sequences, FiniteSetsExt

CONSTANTS
    Recipients, Assets,
    Native,                 \* the one of Assets that is no token
    Clienteles,             \* accounts: recipient and asset that a settlement
                            \* may pay; client: whose withdrawals each client
                            \* follows, and in which list, tokens or native;
                            \* lost: the settlements before a lost database
    Delays,                 \* values of withdrawalDelaySlots, the first least
    MaxBatches, MaxBatch, MaxLifetime, MaxSlot, MaxDelayChanges,
    Limit                   \* page size: limit after its clamp

ASSUME ClaimsAssumption ==
    /\ \A who \in Clienteles :
         /\ who.accounts \subseteq Recipients \X Assets
         /\ who.client \in [DOMAIN who.client -> Recipients \X {"native", "tokens"}]
         /\ who.lost \in Nat
    /\ Native \in Assets
    /\ IsFiniteSet(Delays) /\ Delays # {} /\ Delays \subseteq Nat
    /\ {MaxBatches, MaxBatch, MaxLifetime, MaxSlot, MaxDelayChanges} \subseteq Nat
    /\ Limit \in Nat \ {0}

VARIABLES
    clientele,  \* the one of Clienteles that this behaviour is about
    slot,       \* currentVirtualSlot
    delay,      \* withdrawalDelaySlots
    changes,    \* how often the admin has set it
    actions,    \* settled inner actions by global index: their account, and
                \* their settlement's sequence and upper slot bound
    settled,    \* the number of settlements
    stored,     \* those whose leaves the gateway has, as they were stored
    cursor,     \* nextWithdrawalIndex, nextTokenWithdrawalIndex
    paid,       \* indices of the withdrawals that were paid
    passed,     \* those that a stranger's claim of a later one has forfeited
    session     \* per client: the list it is being given, and its page

contractVars == <<slot, delay, changes, actions, settled, cursor, paid, passed>>
claimVars == <<clientele, contractVars, stored, session>>

Accounts == clientele.accounts
Client == clientele.client
Clients == DOMAIN Client

\* Indices start at 0, sequences at 1.
Action(index) == actions[index + 1]

\* Is the action in this list?  One list holds all tokens of a recipient.
Listed(index, list) ==
    LET account == Action(index).account IN
    /\ account[1] = list[1]
    /\ (account[2] = Native) = (list[2] = "native")

\* A list names each row by its index.
Closed == [at |-> "closed", after |-> -1, slot |-> 0, delay |-> 0, rows |-> << >>]

-----------------------------------------------------------------------------
(* Ethereum: slots pass, settlements are accepted within their slot range, *)
(* the admin changes the delay.                                            *)

NextSlot ==
    /\ slot < MaxSlot
    /\ slot' = slot + 1
    /\ UNCHANGED <<delay, changes, actions, settled, stored, cursor, paid, passed,
                   session>>

SetDelay ==
    /\ changes < MaxDelayChanges
    /\ \E d \in Delays \ {delay} : delay' = d
    /\ changes' = changes + 1
    /\ UNCHANGED <<slot, actions, settled, stored, cursor, paid, passed, session>>

\* verifyAndUpdateRoot: the batch keeps the receipt's upper slot bound, which
\* a later batch may undercut.
Settle ==
    /\ settled < MaxBatches
    /\ \E n \in 1..MaxBatch, upper \in slot..(slot + MaxLifetime) :
       \E accounts \in [1..n -> Accounts] :
          /\ upper + Max(Delays) <= MaxSlot
          /\ actions' = actions \o
               [i \in 1..n |-> [account |-> accounts[i], upper |-> upper,
                               batch |-> settled + 1]]
    /\ settled' = settled + 1
    /\ UNCHANGED <<slot, delay, changes, stored, cursor, paid, passed, session>>

-----------------------------------------------------------------------------
(* Leaves.  Two writers store them, each in canonical order (LeafTable has *)
(* their steps); storing them a second time changes nothing here.          *)

Stored(seq) == \E k \in DOMAIN stored : stored[k] = seq
Missing == {seq \in 1..settled : ~Stored(seq)}

\* The gateway has the job with the settlement's inner actions.
JobKnown(seq) == seq > clientele.lost

\* store_inner_action_leaves, when the indexer applies the settlement.
StoreApplied ==
    LET known == {seq \in Missing : JobKnown(seq)} IN
    /\ known # {}
    /\ stored' = Append(stored, Min(known))
    /\ UNCHANGED <<contractVars, session>>

\* recover_batch, when the archive loop gets to it.
RecoverBatch ==
    /\ Missing # {}
    /\ stored' = Append(stored, Min(Missing))
    /\ UNCHANGED <<contractVars, session>>

-----------------------------------------------------------------------------
(* list_native_withdrawals, list_token_withdrawals                         *)

\* Fault: the index that follows is left out.
LeavesBeyond(list, after) ==
    {index \in 0..(Len(actions) - 1) :
        /\ Stored(Action(index).batch)
        /\ Listed(index, list)
        /\ index > after + 1}

\* The stored leaves of the list above the index.
LeavesAfter(list, after) ==
    {index \in 0..(Len(actions) - 1) :
        /\ Stored(Action(index).batch)
        /\ Listed(index, list)
        /\ index > after}

\* ORDER BY global_action_index LIMIT.
Page(list, after) ==
    LET found == LeavesAfter(list, after) IN
    {index \in found : Cardinality({i \in found : i < index}) < Limit}

\* The rows, the current slot and the delay ...
ReadList(c) ==
    /\ session[c].at = "closed"
    /\ session' = [session EXCEPT ![c] =
         [@ EXCEPT !.at = "reading", !.slot = slot, !.delay = delay,
                   !.rows = [index \in Page(Client[c], session[c].after) |->
                               "unknown"]]]
    /\ UNCHANGED <<contractVars, stored>>

\* Fault: the withdrawal delay is left out.
ProgressAtCommit(index, next, now, wait) ==
    IF index < next THEN "processed"
    ELSE IF now < Action(index).upper THEN "waitingForDelay"
    ELSE "claimable"

\* withdrawal_progress.
WithdrawalProgress(index, next, now, wait) ==
    IF index < next THEN "processed"
    ELSE IF now < Action(index).upper + wait THEN "waitingForDelay"
    ELSE "claimable"

\* next_withdrawal_index, next_token_withdrawal_index.
NextIndex(index) == cursor[Action(index).account]

\* ... and then, row by row, the recipient's cursor for the row's asset.
ReadCursor(c) ==
    LET rows == session[c].rows IN
    /\ session[c].at = "reading"
    /\ \E index \in DOMAIN rows :
         /\ rows[index] = "unknown"
         /\ \A i \in DOMAIN rows : i < index => rows[i] # "unknown"
         /\ session' = [session EXCEPT ![c].rows[index] =
              WithdrawalProgress(index, NextIndex(index),
                                 session[c].slot, session[c].delay)]
    /\ UNCHANGED <<contractVars, stored>>

Reported(c) ==
    \A index \in DOMAIN session[c].rows : session[c].rows[index] # "unknown"

\* The rows the client has still to deal with.
Open(c) ==
    {index \in DOMAIN session[c].rows : session[c].rows[index] # "processed"}

FirstIsClaimable(c) ==
    Open(c) # {} /\ session[c].rows[Min(Open(c))] = "claimable"

\* A page whose rows are all processed is left behind; otherwise the client
\* asks for it again.
Turn(c) ==
    LET page == DOMAIN session[c].rows IN
    /\ session[c].at = "reading" /\ Reported(c) /\ ~FirstIsClaimable(c)
    /\ session' = [session EXCEPT ![c] = [Closed EXCEPT
         !.after = IF Open(c) = {} /\ page # {} THEN Max(page)
                   ELSE session[c].after]]
    /\ UNCHANGED <<contractVars, stored>>

-----------------------------------------------------------------------------
(* claimNativeWithdrawal, claimERC20Withdrawal                             *)

\* The claim's checks on the cursor and the delay.
ClaimAccepted(index) ==
    /\ index >= NextIndex(index)
    /\ slot >= Action(index).upper + delay

Paid(index) ==
    /\ cursor' = [cursor EXCEPT ![Action(index).account] = index + 1]
    /\ paid' = paid \union {index}

\* The withdrawals that a claim of this one forfeits.
Forfeits(index) ==
    {i \in NextIndex(index)..(index - 1) :
        Action(i).account = Action(index).account}

\* The client claims the first withdrawal it was told is claimable; the
\* transaction pays or reverts, and the client asks for the list again.
Claim(c) ==
    /\ session[c].at = "reading" /\ Reported(c) /\ FirstIsClaimable(c)
    /\ LET index == Min(Open(c)) IN
       IF ClaimAccepted(index) THEN Paid(index) ELSE UNCHANGED <<cursor, paid>>
    /\ session' = [session EXCEPT ![c] = [Closed EXCEPT
                                            !.after = session[c].after]]
    /\ UNCHANGED <<slot, delay, changes, actions, settled, passed, stored>>

\* Anyone may claim any withdrawal: the sender is not looked at.
StrangerClaims ==
    /\ \E index \in 0..(Len(actions) - 1) :
         /\ ClaimAccepted(index)
         /\ Paid(index)
         /\ passed' = passed \union Forfeits(index)
    /\ UNCHANGED <<slot, delay, changes, actions, settled, stored, session>>

-----------------------------------------------------------------------------
ClaimsInit ==
    /\ clientele \in Clienteles
    /\ slot = 0 /\ delay = Min(Delays) /\ changes = 0
    /\ actions = << >> /\ settled = 0 /\ stored = << >>
    /\ cursor = [account \in Recipients \X Assets |-> 0]
    /\ paid = {} /\ passed = {}
    /\ session = [c \in Clients |-> Closed]

Step(c) == ReadList(c) \/ ReadCursor(c) \/ Turn(c) \/ Claim(c)

ClaimsNext ==
    /\ \/ NextSlot \/ SetDelay \/ Settle \/ StoreApplied \/ RecoverBatch
       \/ StrangerClaims
       \/ \E c \in Clients : Step(c)
    /\ UNCHANGED clientele

ClaimsSpec == ClaimsInit /\ [][ClaimsNext]_claimVars

-----------------------------------------------------------------------------
\* The leaves of a later settlement were stored before those of this action,
\* which takes a lost database.
Overtaken(index) ==
    /\ index < Len(actions)
    /\ \E k \in DOMAIN stored :
         /\ stored[k] > Action(index).batch
         /\ \A j \in 1..k : stored[j] # Action(index).batch

\* Clients do not take it back from each other: it takes a stranger's claim of
\* a later withdrawal (docs/content/protocol/withdrawals.md:99-104), or a list
\* that it came into too late.
Forfeited(index) == index \in passed \/ Overtaken(index)

\* withdrawal_progress agrees with the contract: what a client is told is
\* claimable the bridge pays, unless it has been paid or forfeited or the
\* admin has raised the delay since the list was read.
ClaimableIsAccepted ==
    \A c \in Clients : \A index \in DOMAIN session[c].rows :
        session[c].rows[index] = "claimable" =>
            \/ ClaimAccepted(index)
            \/ index \in paid \/ Forfeited(index)
            \/ delay > session[c].delay

\* Clients that follow a list of the gateway get every withdrawal in it that
\* is not forfeited, however often a stale list makes a claim revert: no claim
\* of theirs forfeits one.
EveryWithdrawalIsPaid ==
    \A index \in 0..(MaxBatches * MaxBatch - 1) :
        (/\ index < Len(actions)
         /\ \E c \in Clients : Listed(index, Client[c]))
        ~> (index \in paid \/ Forfeited(index))

=============================================================================
