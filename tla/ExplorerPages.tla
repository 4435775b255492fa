--------------------------- MODULE ExplorerPages ----------------------------
(***************************************************************************)
(* The list routes of the explorer (api/src/explorer.rs): a client follows *)
(* the cursors of one list from page to page while the indexer, the        *)
(* recovery loop and the archive change the tables under it.  A row stands *)
(* for its sort key, its identity and the status that a filter may ask     *)
(* for.  As docs/content/explorer.md has it, the sequencer makes one       *)
(* transaction per block, so a height is one row.                          *)
(***************************************************************************)
EXTENDS Integers, FiniteSets, FiniteSetsExt

CONSTANTS
    Lists,      \* the lists that are walked
    Txs,        \* settlement transactions
    MaxKey,     \* heights, nonces, indices or times
    Limits,     \* what clients ask for
    MaxLimit

ASSUME PagesAssumption ==
    /\ Lists \subseteq {"blocks", "transactions", "deposits", "withdrawals",
                        "settlements"}
    /\ MaxKey \in Nat /\ MaxLimit \in Nat \ {0} /\ Limits \subseteq Int

VARIABLES
    list,       \* the list the client walks
    table,      \* rows of the other lists, by height, nonce or action index
    jobs,       \* settlement jobs: when created, were they sent, is the hash set,
                \* were they this gateway's own?
    events,     \* settlement events: when indexed, and are they live?
    clock,
    walk        \* the client; "odd" tells one page from the next

pageVars == <<list, table, jobs, events, clock, walk>>

\* The keys are below this one: the first page has no cursor.
NoCursor == MaxKey + 1

Early == "early"
Late == "late"
Every == "every"

Row(id, key, status) == [id |-> id, key |-> key, status |-> status]

Keyed(keys) == {Row(key, key, table[key].status) : key \in keys}

LiveKeys == {key \in DOMAIN table : table[key].live}

-----------------------------------------------------------------------------
(* The rows of each list.                                                  *)

\* Blocks of every chain status.
BlockRows == Keyed(DOMAIN table)

\* Commands of canonical and pending blocks only.
TransactionRows == Keyed(LiveKeys)

DepositRows == Keyed(LiveKeys)

WithdrawalRows == Keyed(LiveKeys)

\* The hashes that jobs are known to have sent.
Known == {tx \in DOMAIN jobs : jobs[tx].hash}

\* Jobs, and the events of transactions that no job is known to have sent.
SettlementRows ==
    {Row(<<"job", tx>>, jobs[tx].at, IF jobs[tx].hash THEN Late ELSE Early) :
        tx \in DOMAIN jobs}
    \union
    {Row(<<"event", tx>>, events[tx].at, Late) :
        tx \in {t \in DOMAIN events : events[t].live /\ t \notin Known}}

Rows ==
    CASE list = "blocks" -> BlockRows
      [] list = "transactions" -> TransactionRows
      [] list = "deposits" -> DepositRows
      [] list = "withdrawals" -> WithdrawalRows
      [] list = "settlements" -> SettlementRows

Matching(filter) == {row \in Rows : filter \in {Every, row.status}}

Ids(rows) == {row.id : row \in rows}

-----------------------------------------------------------------------------
(* Pages.                                                                  *)

\* list_limit
Clamped(limit) ==
    IF limit < 1 THEN 1 ELSE IF limit > MaxLimit THEN MaxLimit ELSE limit

\* The rows that are left behind the cursor.
After(filter, cursor) == {row \in Matching(filter) : row.key < cursor}

\* ORDER BY key DESC LIMIT n
Newest(rows, n) ==
    {row \in rows : Cardinality({r \in rows : r.key > row.key}) < n}

\* Fault: the cursor is taken from the row that was read ahead.
CursorAhead(rows, n) ==
    IF Cardinality(rows) > n
    THEN Min({row.key : row \in Newest(rows, n + 1)}) ELSE NoCursor

\* One row more than the limit is read, to know whether there is a next page;
\* its cursor is the key of the last row shown.
NextCursor(rows, n) ==
    IF Cardinality(rows) > n
    THEN Min({row.key : row \in Newest(rows, n)}) ELSE NoCursor

\* A row is kept while it is in the filtered list without a break.
Start(filter) ==
    /\ ~walk.open
    /\ walk' = [open |-> TRUE, ended |-> FALSE, filter |-> filter,
                cursor |-> NoCursor, seen |-> {}, odd |-> FALSE,
                kept |-> Ids(Matching(filter))]
    /\ UNCHANGED <<list, table, jobs, events, clock>>

FetchPage(limit) ==
    LET rows == After(walk.filter, walk.cursor)
        shown == Newest(rows, Clamped(limit))
        next == NextCursor(rows, Clamped(limit)) IN
    /\ walk.open
    /\ walk' = [walk EXCEPT !.seen = @ \union Ids(shown), !.cursor = next,
                            !.open = next # NoCursor, !.odd = ~@,
                            !.ended = next = NoCursor]
    /\ UNCHANGED <<list, table, jobs, events, clock>>

-----------------------------------------------------------------------------
(* What changes under the client.  Keeps is a conjunct of every change.    *)

Keeps ==
    /\ UNCHANGED list
    /\ \E filter \in {walk.filter} :
         walk' = [walk EXCEPT !.kept = @ \intersect Ids(Matching(filter))']

\* The archive appends blocks and deposits get the next nonce, but leaves come
\* in any order, and rows of a removed block come back.
MayAppear(key) ==
    /\ key \notin LiveKeys
    /\ list \in {"blocks", "transactions", "deposits"} =>
         \A k \in 1..(key - 1) : k \in LiveKeys

Appear ==
    /\ list # "settlements"
    /\ \E key \in 1..MaxKey :
         /\ MayAppear(key)
         /\ table' = [k \in DOMAIN table \union {key} |->
              IF k = key THEN [live |-> TRUE, status |-> Early] ELSE table[k]]
    /\ UNCHANGED <<jobs, events, clock>> /\ Keeps

\* A block becomes canonical, a deposit or a withdrawal proceeds.
Proceed ==
    /\ \E key \in LiveKeys :
         /\ table[key].status = Early
         /\ table' = [table EXCEPT ![key].status = Late]
    /\ UNCHANGED <<jobs, events, clock>> /\ Keeps

\* rollback_after: the rows of orphaned blocks, the newest ones.
Vanish ==
    /\ list \in {"deposits", "withdrawals"}
    /\ \E n \in 0..(MaxKey - 1) :
         table' = [key \in DOMAIN table |->
                      [table[key] EXCEPT !.live = @ /\ key <= n]]
    /\ table' # table
    /\ UNCHANGED <<jobs, events, clock>> /\ Keeps

Now == clock + 1

Ticks == clock < MaxKey /\ clock' = Now

Created(tx, job) ==
    jobs' = [t \in DOMAIN jobs \union {tx} |-> IF t = tx THEN job ELSE jobs[t]]

\* A settlement is queued.
JobQueued ==
    /\ list = "settlements" /\ Ticks
    /\ \E tx \in Txs \ (DOMAIN jobs \union DOMAIN events) :
         Created(tx, [at |-> Now, hash |-> FALSE, sent |-> FALSE, own |-> TRUE])
    /\ UNCHANGED <<table, events>> /\ Keeps

\* recover_gateway_state: a row for an event whose job is not known.
JobRecovered ==
    /\ Ticks
    /\ \E tx \in {t \in DOMAIN events : events[t].live} \ DOMAIN jobs :
         Created(tx, [at |-> Now, hash |-> TRUE, sent |-> TRUE, own |-> FALSE])
    /\ UNCHANGED <<table, events>> /\ Keeps

JobSubmitted ==
    /\ \E tx \in DOMAIN jobs \ Known :
         jobs' = [jobs EXCEPT ![tx].hash = TRUE, ![tx].sent = TRUE]
    /\ UNCHANGED <<table, events, clock>> /\ Keeps

\* The event is indexed, now or again: its time is the last one.
EventIndexed ==
    /\ list = "settlements" /\ Ticks
    /\ \E tx \in Txs :
         /\ tx \in DOMAIN events => ~events[tx].live
         /\ tx \in DOMAIN jobs => jobs[tx].sent
         /\ events' = [t \in DOMAIN events \union {tx} |->
              IF t = tx THEN [at |-> Now, live |-> TRUE] ELSE events[t]]
    /\ UNCHANGED <<table, jobs>> /\ Keeps

\* rollback_after: the event is removed; a recovered job goes with it, and a
\* job that is to be sent again forgets the hash.
EventRemoved ==
    /\ \E tx \in {t \in DOMAIN events : events[t].live} :
         /\ events' = [events EXCEPT ![tx].live = FALSE]
         /\ \E kept \in BOOLEAN :
              jobs' = [t \in {u \in DOMAIN jobs : u # tx \/ jobs[u].own} |->
                         [jobs[t] EXCEPT !.hash = @ /\ (t # tx \/ kept)]]
    /\ UNCHANGED <<table, clock>> /\ Keeps

-----------------------------------------------------------------------------
PagesInit ==
    /\ list \in Lists
    /\ table = << >> /\ jobs = << >> /\ events = << >> /\ clock = 0
    /\ walk = [open |-> FALSE, ended |-> FALSE, filter |-> Every,
               cursor |-> NoCursor, seen |-> {}, odd |-> FALSE, kept |-> {}]

Fetch == \E limit \in Limits : FetchPage(limit)

Change ==
    \/ Appear \/ Proceed \/ Vanish
    \/ JobQueued \/ JobRecovered \/ JobSubmitted \/ EventIndexed \/ EventRemoved

PagesNext ==
    \/ \E filter \in {Every, Early, Late} : Start(filter)
    \/ Fetch
    \/ Change

PagesSpec == PagesInit /\ [][PagesNext]_pageVars

-----------------------------------------------------------------------------
(* Properties.                                                             *)

\* A walk that has reached its end has shown every row that was in the list
\* all the time, whatever came, went and moved in between and whatever limits
\* the client asked for (list_blocks and the other list routes).
WalkSeesEveryRow == walk.ended => walk.kept \subseteq walk.seen

\* No page shows a row that the walk has shown before, although an event that
\* is indexed again gets a new time.
NoRowTwice ==
    walk.open => Ids(After(walk.filter, walk.cursor)) \intersect walk.seen = {}

\* A walk shows each row that stays where it is exactly once.
WalkIsExact == WalkSeesEveryRow /\ NoRowTwice

\* docs/content/explorer.md:66: the settlement list is proof progress merged
\* with the canonical Ethereum events, so a settlement is one row.
SettlementListedOnce ==
    \A r, s \in SettlementRows : r.id[2] = s.id[2] => r = s

=============================================================================
