---------------------------- MODULE ClientProofs ----------------------------
(***************************************************************************)
(* The clients of the gateway's read routes, for any lists, limits, delays *)
(* and number of clients: what they are told is claimable the bridge pays, *)
(* and a walk over a list shows each row that stays exactly once.          *)
(***************************************************************************)
EXTENDS GatewayClients, LogLemmas

-----------------------------------------------------------------------------
(* Claims: the inductive invariant.                                        *)

Actions == [account : Recipients \X Assets, upper : Nat, batch : Nat]

Reports == {"unknown", "processed", "waitingForDelay", "claimable"}

Sessions ==
    [at : {"closed", "reading"}, after : Int, slot : Nat, delay : Nat,
     rows : UNION {[S -> Reports] : S \in SUBSET Nat}]

Indices == 0..(Len(actions) - 1)

ClaimsTyped ==
    /\ clientele \in Clienteles /\ slot \in Nat /\ delay \in Nat
    /\ actions \in Seq(Actions) /\ settled \in Nat /\ stored \in Seq(Nat)
    /\ cursor \in [Recipients \X Assets -> Nat]
    /\ session \in [Clients -> Sessions]

\* Later actions are of later settlements.
OrderInv ==
    /\ \A index \in Indices : Action(index).batch <= settled
    /\ \A index, i \in Indices : i < index => Action(i).batch <= Action(index).batch

\* The bridge passes over a withdrawal that is not paid when a stranger makes
\* it, or when no list had it in time.
PaidInv ==
    /\ \A account \in Recipients \X Assets : cursor[account] <= Len(actions)
    /\ \A index \in Indices : index < NextIndex(index) =>
           index \in paid \/ Forfeited(index)

\* What a client has left behind is processed, and the page it looks at follows
\* on that without a gap, but for leaves that were overtaken.
PageInv(c) ==
    LET after == session[c].after
        rows == session[c].rows IN
    /\ after < Len(actions)
    /\ \A index \in Indices : index <= after /\ Listed(index, Client[c]) =>
           index < NextIndex(index) \/ Overtaken(index)
    /\ \A index \in DOMAIN rows : index \in Indices /\ Listed(index, Client[c])
    /\ \A index \in DOMAIN rows : \A i \in Indices :
           after < i /\ i < index /\ Listed(i, Client[c]) =>
               i \in DOMAIN rows \/ Overtaken(i)

\* What it was told was so when the list was read, and what is processed stays
\* processed.
ReportInv(c) ==
    LET rows == session[c].rows IN
    /\ session[c].slot <= slot
    /\ \A index \in DOMAIN rows :
         /\ rows[index] = "processed" => index < NextIndex(index)
         /\ rows[index] = "claimable" =>
                session[c].slot >= Action(index).upper + session[c].delay

ClaimsInv ==
    /\ ClaimsTyped /\ OrderInv /\ PaidInv
    /\ \A c \in Clients : PageInv(c) /\ ReportInv(c)

-----------------------------------------------------------------------------
(* Pages: the inductive invariant.                                         *)

TableRows == [live : BOOLEAN, status : {Early, Late}]

JobRows == [at : Nat, hash : BOOLEAN, sent : BOOLEAN, own : BOOLEAN]

EventRows == [at : Nat, live : BOOLEAN]

Filters == {Every, Early, Late}

\* The identities of the rows are not looked at.
WalkRow ==
    [open : BOOLEAN, ended : BOOLEAN, filter : Filters, cursor : 0..NoCursor,
     seen : {walk.seen}, odd : BOOLEAN, kept : {walk.kept}]

TablesTyped ==
    /\ list \in Lists /\ clock \in Nat /\ clock <= MaxKey
    /\ DOMAIN table \subseteq 1..MaxKey /\ table \in [DOMAIN table -> TableRows]
    /\ jobs \in [DOMAIN jobs -> JobRows] /\ IsFiniteSet(DOMAIN jobs)
    /\ events \in [DOMAIN events -> EventRows] /\ IsFiniteSet(DOMAIN events)
    /\ \A tx \in DOMAIN jobs : jobs[tx].at <= clock
    /\ \A tx \in DOMAIN events : events[tx].at <= clock

\* The rows that were shown are not behind the cursor, and the rows that stay
\* are either shown or behind it.
WalkInv ==
    /\ walk.open =>
         /\ \A row \in Rows : row.id \in walk.seen => row.key >= walk.cursor
         /\ list # "settlements" => \A id \in walk.seen : id \in Nat /\ id >= walk.cursor
         /\ list = "settlements" /\ walk.seen # {} => walk.cursor <= clock
         /\ \A row \in Matching(walk.filter) :
                row.id \in walk.kept /\ row.key >= walk.cursor => row.id \in walk.seen
         /\ walk.kept \subseteq Ids(Matching(walk.filter))
    /\ walk.ended => ~walk.open /\ walk.kept \subseteq walk.seen

PagesInv == TablesTyped /\ walk \in WalkRow /\ WalkInv
-----------------------------------------------------------------------------
(* Claims: what every step keeps.                                          *)

LEMMA ClaimsTypes ==
    ASSUME ClaimsTyped
    PROVE  /\ Len(actions) \in Nat /\ Indices \subseteq Nat
           /\ \A index \in Indices :
                /\ Action(index).account \in Recipients \X Assets
                /\ Action(index).upper \in Nat /\ Action(index).batch \in Nat
                /\ NextIndex(index) \in Nat
           /\ \A c \in Clients :
                /\ session[c] \in Sessions /\ session[c].after \in Int
                /\ session[c].slot \in Nat /\ session[c].delay \in Nat
                /\ DOMAIN session[c].rows \subseteq Nat
                /\ session[c].rows \in [DOMAIN session[c].rows -> Reports]
  <1>1. Len(actions) \in Nat /\ DOMAIN actions = 1..Len(actions)
    BY LenProperties DEF ClaimsTyped
  <1>2. \A index \in Indices : index + 1 \in 1..Len(actions) /\ index \in Nat
    BY <1>1 DEF Indices
  <1>3. \A index \in Indices : Action(index) \in Actions
    BY <1>1, <1>2, ElementOfSeq DEF ClaimsTyped, Action
  <1>4. \A index \in Indices :
          /\ Action(index).account \in Recipients \X Assets
          /\ Action(index).upper \in Nat /\ Action(index).batch \in Nat
    BY <1>3 DEF Actions
  <1>5. \A index \in Indices : NextIndex(index) \in Nat
    BY <1>4 DEF ClaimsTyped, NextIndex
  <1>6. \A c \in Clients : session[c] \in Sessions
    BY DEF ClaimsTyped
  <1>7. \A c \in Clients : /\ session[c].after \in Int
                           /\ session[c].slot \in Nat /\ session[c].delay \in Nat
                           /\ session[c].rows \in UNION {[S -> Reports] : S \in SUBSET Nat}
    BY <1>6 DEF Sessions
  <1>8. \A f \in UNION {[S -> Reports] : S \in SUBSET Nat} :
          DOMAIN f \subseteq Nat /\ f \in [DOMAIN f -> Reports]
    OBVIOUS
  <1>9. QED
    BY <1>1, <1>2, <1>4, <1>5, <1>6, <1>7, <1>8

LEMMA AccountsTyped ==
    ClaimsTyped => \A index \in Indices : Action(index).account \in Recipients \X Assets
  BY ClaimsTypes

\* The bridge's cursors only go up, and what is settled, stored, paid or
\* forfeited stays so.
Onward ==
    /\ Len(actions) <= Len(actions')
    /\ Len(stored) <= Len(stored')
    /\ \A k \in 1..Len(stored) : stored'[k] = stored[k]
    /\ paid \subseteq paid' /\ passed \subseteq passed'
    /\ \A index \in Indices : Action(index)' = Action(index)
    /\ \A account \in Recipients \X Assets : cursor[account] <= cursor'[account]
    /\ slot <= slot' /\ UNCHANGED clientele

LEMMA OnwardIndices ==
    ASSUME ClaimsTyped, ClaimsTyped', Onward
    PROVE  /\ Indices \subseteq Indices'
           /\ \A index \in Indices :
                /\ Action(index)' = Action(index)
                /\ NextIndex(index) <= NextIndex(index)'
                /\ NextIndex(index) \in Nat /\ NextIndex(index)' \in Nat
                /\ \A l : Listed(index, l)' <=> Listed(index, l)
  <1>1. Len(actions) \in Nat /\ Len(actions') \in Nat
    BY LenProperties DEF ClaimsTyped
  <1>2. Indices \subseteq Indices'
    BY <1>1 DEF Onward, Indices
  <1>3. \A index \in Indices : /\ Action(index)' = Action(index)
                               /\ Action(index).account \in Recipients \X Assets
    BY ClaimsTypes DEF Onward
  <1>4. \A account \in Recipients \X Assets : cursor[account] \in Nat /\ cursor'[account] \in Nat
    BY DEF ClaimsTyped
  <1>5. \A index \in Indices :
          /\ NextIndex(index) <= NextIndex(index)'
          /\ NextIndex(index) \in Nat /\ NextIndex(index)' \in Nat
    BY <1>3, <1>4 DEF NextIndex, Onward
  <1>6. \A index \in Indices : \A l : Listed(index, l)' <=> Listed(index, l)
    BY <1>3 DEF Listed
  <1>7. QED
    BY <1>2, <1>3, <1>5, <1>6

LEMMA OnwardForfeited ==
    ASSUME ClaimsTyped, ClaimsTyped', Onward
    PROVE  /\ \A index \in Indices : Overtaken(index) => Overtaken(index)'
           /\ \A index \in Indices : Forfeited(index) => Forfeited(index)'
  <1>1. /\ Len(actions) \in Nat /\ Len(actions') \in Nat
        /\ Len(stored) \in Nat /\ Len(stored') \in Nat
        /\ DOMAIN stored = 1..Len(stored) /\ DOMAIN stored' = 1..Len(stored')
    BY LenProperties DEF ClaimsTyped
  <1>2. ASSUME NEW index \in Indices, Overtaken(index) PROVE Overtaken(index)'
    <2>1. PICK k \in DOMAIN stored :
            /\ stored[k] > Action(index).batch
            /\ \A j \in 1..k : stored[j] # Action(index).batch
      BY <1>2 DEF Overtaken
    <2>2. k \in DOMAIN stored' /\ \A j \in 1..k : stored'[j] = stored[j]
      BY <1>1 DEF Onward
    <2>3. Action(index)' = Action(index) /\ index < Len(actions')
      BY <1>1 DEF Onward, Indices
    <2>4. stored'[k] = stored[k]
      BY <1>1 DEF Onward
    <2>5. QED
      BY <2>1, <2>2, <2>3, <2>4 DEF Overtaken
  <1>3. QED
    BY <1>2 DEF Forfeited, Onward

\* A client whose session does not change.
LEMMA ClientKept ==
    ASSUME ClaimsTyped, ClaimsTyped', Onward, NEW c \in Clients, PageInv(c), ReportInv(c),
           session'[c] = session[c]
    PROVE  PageInv(c)' /\ ReportInv(c)'
  <1>1. /\ Len(actions) \in Nat /\ Len(actions') \in Nat /\ Len(actions) <= Len(actions')
        /\ session[c].after \in Int /\ session[c].slot \in Nat /\ slot \in Nat /\ slot' \in Nat
        /\ slot <= slot' /\ Client' = Client
    BY ClaimsTypes, LenProperties DEF Onward, ClaimsTyped, Client
  <1>2. \A index \in Indices' : index \in Indices \/ index >= Len(actions)
    BY <1>1 DEF Indices
  <1>3. \A index \in Indices' : index <= session[c].after => index \in Indices
    BY <1>1, <1>2 DEF PageInv, Indices
  <1>4. \A index \in DOMAIN session[c].rows : index \in Indices /\ index \in Indices'
    BY OnwardIndices DEF PageInv
  <1>5. \A index \in DOMAIN session[c].rows : \A i \in Indices' : i < index => i \in Indices
    BY <1>1, <1>4 DEF Indices
  <1>6. \A index \in Indices : index < NextIndex(index) => index < NextIndex(index)'
    BY OnwardIndices, ClaimsTypes
  <1>7. PageInv(c)'
    <2>1. session[c].after < Len(actions')
      BY <1>1 DEF PageInv
    <2>2. \A index \in Indices' : index <= session[c].after /\ Listed(index, Client[c])' =>
             index < NextIndex(index)' \/ Overtaken(index)'
      BY <1>1, <1>3, <1>6, OnwardIndices, OnwardForfeited DEF PageInv
    <2>3. \A index \in DOMAIN session[c].rows : \A i \in Indices' :
             session[c].after < i /\ i < index /\ Listed(i, Client[c])' =>
                 i \in DOMAIN session[c].rows \/ Overtaken(i)'
      BY <1>1, <1>5, OnwardIndices, OnwardForfeited DEF PageInv
    <2>4. \A index \in DOMAIN session[c].rows : Listed(index, Client[c])'
      BY <1>1, <1>4, OnwardIndices DEF PageInv
    <2>5. QED
      BY <1>1, <1>4, <2>1, <2>2, <2>3, <2>4 DEF PageInv
  <1>8. ReportInv(c)'
    <2>1. session[c].slot <= slot'
      BY <1>1 DEF ReportInv
    <2>2. \A index \in DOMAIN session[c].rows :
            /\ session[c].rows[index] = "processed" => index < NextIndex(index)'
            /\ session[c].rows[index] = "claimable" =>
                   session[c].slot >= Action(index)'.upper + session[c].delay
      BY <1>4, <1>6, OnwardIndices DEF ReportInv
    <2>3. QED
      BY <2>1, <2>2 DEF ReportInv
  <1>9. QED
    BY <1>7, <1>8

\* Steps of nobody's session.
LEMMA ClientsKept ==
    ASSUME ClaimsInv, ClaimsTyped', OrderInv', PaidInv', Onward, UNCHANGED session
    PROVE  ClaimsInv'
  <1>1. Clients' = Clients /\ \A c \in Clients : PageInv(c)' /\ ReportInv(c)'
    BY ClientKept DEF ClaimsInv, Onward, Clients, Client
  <1>2. QED
    BY <1>1 DEF ClaimsInv

\* Steps that leave the clients and the payments alone.
LEMMA OutsideKept ==
    ASSUME ClaimsInv, ClaimsTyped', OrderInv', Onward, UNCHANGED <<cursor, session>>
    PROVE  ClaimsInv'
  <1>1. ClaimsTyped /\ Len(actions) \in Nat /\ Len(actions') \in Nat
    BY LenProperties DEF ClaimsInv, ClaimsTyped
  <1>2. \A index \in Indices' : index \in Indices \/ index >= Len(actions)
    BY <1>1 DEF Indices
  <1>3. \A index \in Indices' : /\ NextIndex(index)' = cursor[Action(index)'.account]
                                /\ Action(index)'.account \in Recipients \X Assets
    <2>1. \A index \in Indices' : Action(index)'.account \in Recipients \X Assets
      <3>1. (\A index \in Indices : Action(index).account \in Recipients \X Assets)'
        BY AccountsTyped, PTL
      <3>2. QED
        BY <3>1
    <2>2. QED
      BY <2>1 DEF NextIndex
  <1>4. \A account \in Recipients \X Assets : cursor[account] \in Nat
    BY <1>1 DEF ClaimsTyped
  <1>5. PaidInv'
    <2>1. \A account \in Recipients \X Assets : cursor'[account] <= Len(actions')
      BY <1>1, <1>4 DEF ClaimsInv, PaidInv, Onward
    <2>2. ASSUME NEW index \in Indices', index < NextIndex(index)'
          PROVE  index \in paid' \/ Forfeited(index)'
      <3>1. CASE index \in Indices
        <4>1. NextIndex(index)' = NextIndex(index)
          BY <1>3, <3>1 DEF Onward, NextIndex
        <4>2. QED
          BY <1>1, <2>2, <3>1, <4>1, OnwardForfeited DEF ClaimsInv, PaidInv, Onward
      <3>2. CASE index >= Len(actions)
        <4>1. NextIndex(index)' <= Len(actions) /\ NextIndex(index)' \in Nat
          BY <1>3, <1>4 DEF ClaimsInv, PaidInv
        <4>2. index \in Nat
          BY <1>1 DEF Indices
        <4>3. QED
          BY <1>1, <2>2, <3>2, <4>1, <4>2
      <3>3. QED
        BY <1>2, <3>1, <3>2
    <2>3. QED
      BY <2>1, <2>2 DEF PaidInv
  <1>6. QED
    BY <1>5, ClientsKept
-----------------------------------------------------------------------------
(* Claims: the steps.                                                      *)

LEMMA SameOrder ==
    ASSUME OrderInv, UNCHANGED <<actions, settled>>
    PROVE  OrderInv'
  BY DEF OrderInv, Indices, Action

LEMMA OutsideStep ==
    ASSUME ClaimsInv, NextSlot \/ SetDelay, UNCHANGED clientele
    PROVE  ClaimsInv'
  <1>1. /\ ClaimsTyped /\ slot \in Nat /\ Len(actions) \in Nat /\ Len(stored) \in Nat
        /\ \A account \in Recipients \X Assets : cursor[account] \in Nat
    BY LenProperties DEF ClaimsInv, ClaimsTyped
  <1>2. UNCHANGED <<clientele, actions, settled, stored, cursor, paid, passed, session>>
    BY DEF NextSlot, SetDelay
  <1>3. slot' \in Nat /\ slot <= slot' /\ delay' \in Nat
    <2>1. delay \in Nat /\ Delays \subseteq Nat
      BY <1>1, ClaimsAssumption DEF ClaimsTyped
    <2>2. CASE NextSlot
      BY <1>1, <2>1, <2>2 DEF NextSlot
    <2>3. CASE SetDelay
      <3>1. slot' = slot /\ \E d \in Delays : delay' = d
        BY <2>3 DEF SetDelay
      <3>2. QED
        BY <1>1, <2>1, <3>1
    <2>4. QED
      BY <2>2, <2>3
  <1>4. ClaimsTyped'
    BY <1>1, <1>2, <1>3 DEF ClaimsTyped, Clients, Client
  <1>5. Onward
    BY <1>1, <1>2, <1>3 DEF Onward, Action
  <1>6. OrderInv'
    BY <1>2, SameOrder DEF ClaimsInv
  <1>7. QED
    BY <1>2, <1>4, <1>5, <1>6, OutsideKept

\* Leaves are added to those that are there.
LEMMA StoreStep ==
    ASSUME ClaimsInv, StoreApplied \/ RecoverBatch, UNCHANGED clientele
    PROVE  ClaimsInv'
  <1>1. /\ ClaimsTyped /\ slot \in Nat /\ Len(actions) \in Nat
        /\ stored \in Seq(Nat) /\ Len(stored) \in Nat
        /\ \A account \in Recipients \X Assets : cursor[account] \in Nat
    BY LenProperties DEF ClaimsInv, ClaimsTyped
  <1>2. UNCHANGED <<clientele, slot, delay, actions, settled, cursor, paid, passed, session>>
    BY DEF StoreApplied, RecoverBatch, contractVars
  <1>3. PICK seqs \in SUBSET Nat : seqs # {} /\ stored' = Append(stored, Min(seqs))
    <2>1. Missing \in SUBSET Nat /\ {seq \in Missing : JobKnown(seq)} \in SUBSET Nat
      BY <1>1 DEF Missing, ClaimsTyped
    <2>2. QED
      BY <2>1 DEF StoreApplied, RecoverBatch
  <1>4. Min(seqs) \in Nat
    BY <1>3, MinMember
  <1>5. /\ stored' \in Seq(Nat) /\ Len(stored') = Len(stored) + 1
        /\ \A k \in 1..Len(stored) : stored'[k] = stored[k]
    BY <1>1, <1>3, <1>4, AppendProperties
  <1>6. ClaimsTyped'
    BY <1>1, <1>2, <1>5 DEF ClaimsTyped, Clients, Client
  <1>7. Onward
    BY <1>1, <1>2, <1>5 DEF Onward, Action
  <1>8. OrderInv'
    BY <1>2, SameOrder DEF ClaimsInv
  <1>9. QED
    BY <1>2, <1>6, <1>7, <1>8, OutsideKept

LEMMA SettleStep ==
    ASSUME ClaimsInv, Settle, UNCHANGED clientele
    PROVE  ClaimsInv'
  <1>0. /\ ClaimsTyped /\ OrderInv /\ slot \in Nat /\ settled \in Nat /\ Len(stored) \in Nat
        /\ actions \in Seq(Actions) /\ Len(actions) \in Nat
        /\ {MaxBatch, MaxLifetime} \subseteq Nat
    BY LenProperties, ClaimsAssumption DEF ClaimsInv, ClaimsTyped
  <1>1. /\ UNCHANGED <<clientele, slot, delay, stored, cursor, paid, passed, session>>
        /\ settled' = settled + 1
    BY DEF Settle
  <1>2. PICK n \in 1..MaxBatch, upper \in slot..(slot + MaxLifetime) :
        \E accounts \in [1..n -> Accounts] :
          actions' = actions \o [i \in 1..n |->
              [account |-> accounts[i], upper |-> upper, batch |-> settled + 1]]
    BY DEF Settle
  <1>3. n \in Nat /\ upper \in Nat
    BY <1>0
  <1>4. PICK accounts \in [1..n -> Accounts] :
          actions' = actions \o [i \in 1..n |->
              [account |-> accounts[i], upper |-> upper, batch |-> settled + 1]]
    BY <1>2
  <1> DEFINE more == [i \in 1..n |->
               [account |-> accounts[i], upper |-> upper, batch |-> settled + 1]]
  <1>5. Accounts \subseteq Recipients \X Assets
    BY <1>0, ClaimsAssumption DEF ClaimsTyped, Accounts
  <1>6. \A i \in 1..n :
          [account |-> accounts[i], upper |-> upper, batch |-> settled + 1] \in Actions
    BY <1>0, <1>3, <1>5 DEF Actions
  <1>7. more \in [1..n -> Actions]
    BY <1>6
  <1>8. more \in Seq(Actions)
    BY <1>3, <1>7, SeqDef
  <1>9. Len(more) = n /\ \A i \in 1..n : more[i].batch = settled + 1
    BY <1>3, <1>7, LenProperties, <1>8
  <1>10. actions' = actions \o more
    BY <1>4
  <1> HIDE DEF more
  <1>11. /\ actions' \in Seq(Actions) /\ Len(actions') = Len(actions) + n
         /\ \A i \in 1..Len(actions) : actions'[i] = actions[i]
         /\ \A i \in (Len(actions) + 1)..(Len(actions) + n) : actions'[i].batch = settled + 1
    <2>1. /\ actions' \in Seq(Actions) /\ Len(actions') = Len(actions) + Len(more)
          /\ \A i \in 1..(Len(actions) + Len(more)) :
                actions'[i] = IF i <= Len(actions) THEN actions[i] ELSE more[i - Len(actions)]
      BY <1>0, <1>8, <1>10, ConcatProperties
    <2>2. \A i \in 1..Len(actions) : i \in 1..(Len(actions) + Len(more)) /\ i <= Len(actions)
      BY <1>0, <1>3, <1>9
    <2>3. \A i \in (Len(actions) + 1)..(Len(actions) + n) :
             /\ i \in 1..(Len(actions) + Len(more)) /\ ~(i <= Len(actions))
             /\ i - Len(actions) \in 1..n
      BY <1>0, <1>3, <1>9
    <2>4. QED
      BY <1>9, <2>1, <2>2, <2>3
  <1>12. ClaimsTyped'
    BY <1>0, <1>1, <1>11 DEF ClaimsTyped, Clients, Client
  <1>13. \A index \in Indices : index + 1 \in 1..Len(actions)
    BY <1>0 DEF Indices
  <1>14. \A account \in Recipients \X Assets : cursor[account] \in Nat
    BY <1>0 DEF ClaimsTyped
  <1>15. Onward
    <2>1. \A index \in Indices : Action(index)' = Action(index)
      BY <1>11, <1>13 DEF Action
    <2>2. Len(actions) <= Len(actions')
      BY <1>0, <1>3, <1>11
    <2>3. \A account \in Recipients \X Assets : cursor[account] <= cursor'[account]
      BY <1>1, <1>14
    <2>4. QED
      BY <1>0, <1>1, <2>1, <2>2, <2>3 DEF Onward
  <1>16. OrderInv'
    <2>1. ASSUME NEW index \in Indices'
          PROVE  \/ index \in Indices /\ Action(index)' = Action(index)
                 \/ index >= Len(actions) /\ Action(index)'.batch = settled + 1
      <3>1. index \in 0..(Len(actions) + n - 1)
        BY <1>11 DEF Indices
      <3>2. CASE index < Len(actions)
        <4>1. index \in Indices
          BY <1>0, <1>3, <3>1, <3>2 DEF Indices
        <4>2. QED
          BY <1>15, <4>1 DEF Onward
      <3>3. CASE index >= Len(actions)
        <4>1. index + 1 \in (Len(actions) + 1)..(Len(actions) + n)
          BY <1>0, <1>3, <3>1, <3>3
        <4>2. QED
          BY <1>11, <3>3, <4>1 DEF Action
      <3>4. QED
        BY <1>0, <1>3, <3>1, <3>2, <3>3
    <2>2. \A index \in Indices : Action(index).batch \in Nat
      BY <1>0, ClaimsTypes
    <2>3. \A index \in Indices' : Action(index)'.batch <= settled'
      BY <1>0, <1>1, <2>1, <2>2 DEF OrderInv
    <2>4. ASSUME NEW index \in Indices', NEW i \in Indices', i < index
          PROVE  Action(i)'.batch <= Action(index)'.batch
      <3>1. CASE index \in Indices /\ Action(index)' = Action(index)
        <4>1. i \in Indices
          BY <1>0, <1>3, <1>11, <2>4, <3>1 DEF Indices
        <4>2. Action(i)' = Action(i)
          BY <1>15, <4>1 DEF Onward
        <4>3. QED
          BY <1>0, <2>4, <3>1, <4>1, <4>2 DEF OrderInv
      <3>2. CASE index >= Len(actions) /\ Action(index)'.batch = settled + 1
        BY <1>1, <2>3, <3>2
      <3>3. QED
        BY <2>1, <3>1, <3>2
    <2>5. QED
      BY <2>3, <2>4 DEF OrderInv
  <1>17. QED
    BY <1>1, <1>12, <1>15, <1>16, OutsideKept

\* A client's step: the others see cursors that have gone up at most.
LEMMA ClientStep ==
    ASSUME ClaimsInv, NEW c \in Clients, NEW s \in Sessions,
           session' = [session EXCEPT ![c] = s],
           UNCHANGED <<clientele, slot, delay, actions, settled, stored, passed>>,
           cursor' \in [Recipients \X Assets -> Nat], paid \subseteq paid',
           \A account \in Recipients \X Assets : cursor[account] <= cursor'[account],
           PaidInv', PageInv(c)', ReportInv(c)'
    PROVE  ClaimsInv'
  <1>1. /\ ClaimsTyped /\ session \in [Clients -> Sessions] /\ Len(actions) \in Nat
        /\ slot \in Nat /\ Len(stored) \in Nat
    BY ClaimsTypes, LenProperties DEF ClaimsInv, ClaimsTyped
  <1>2. Clients' = Clients
    BY DEF Clients, Client
  <1>3. /\ session' \in [Clients -> Sessions] /\ session'[c] = s
        /\ \A d \in Clients : d # c => session'[d] = session[d]
    BY <1>1
  <1>4. ClaimsTyped'
    BY <1>1, <1>2, <1>3 DEF ClaimsTyped
  <1>5. Onward
    BY <1>1 DEF Onward, Action
  <1>6. ASSUME NEW d \in Clients, d # c PROVE PageInv(d)' /\ ReportInv(d)'
    <2>1. PageInv(d) /\ ReportInv(d) /\ session'[d] = session[d]
      BY <1>3, <1>6 DEF ClaimsInv
    <2>2. QED
      BY <1>1, <1>4, <1>5, <2>1, ClientKept
  <1>7. OrderInv'
    BY SameOrder DEF ClaimsInv
  <1>8. QED
    BY <1>2, <1>4, <1>6, <1>7 DEF ClaimsInv

LEMMA SamePaid ==
    ASSUME ClaimsInv, UNCHANGED <<actions, stored, cursor, paid, passed>>
    PROVE  PaidInv'
  BY DEF ClaimsInv, PaidInv, Indices, NextIndex, Action, Forfeited, Overtaken

\* A page is a gapless part of what follows the index, but for leaves that were
\* overtaken.
LEMMA PageIsGapless ==
    ASSUME ClaimsTyped, OrderInv, NEW l, NEW after \in Int
    PROVE  /\ Page(l, after) \subseteq Indices
           /\ \A index \in Page(l, after) : Listed(index, l)
           /\ \A index \in Page(l, after) : \A i \in Indices :
                after < i /\ i < index /\ Listed(i, l) =>
                    i \in Page(l, after) \/ Overtaken(i)
  <1> DEFINE found == LeavesAfter(l, after)
             Below(index) == {i \in found : i < index}
  <1>0. Len(actions) \in Nat /\ Indices \subseteq Nat /\ Indices = 0..(Len(actions) - 1)
    BY ClaimsTypes DEF Indices
  <1>1. found \subseteq Indices
    BY DEF LeavesAfter, Indices
  <1>2. IsFiniteSet(found)
    <2>1. IsFiniteSet(0..(Len(actions) - 1))
      BY <1>0, FS_Interval
    <2> HIDE DEF found
    <2>2. QED
      BY <1>0, <1>1, <2>1, FS_Subset
  <1>3. Page(l, after) = {index \in found : Cardinality(Below(index)) < Limit}
    BY DEF Page
  <1>4. ASSUME NEW index \in Page(l, after), NEW i \in Indices,
               after < i, i < index, Listed(i, l), ~Overtaken(i)
        PROVE  i \in Page(l, after)
    <2>1. index \in found /\ index \in Nat /\ i \in Nat
      BY <1>0, <1>1, <1>3, <1>4
    <2>2. PICK n \in DOMAIN stored : stored[n] = Action(index).batch
      BY <2>1 DEF LeavesAfter, Stored
    <2>3. index \in Indices /\ Action(i).batch <= Action(index).batch
      BY <1>1, <1>4, <2>1 DEF OrderInv
    <2>4. Stored(Action(i).batch)
      <3>1. SUFFICES ASSUME ~Stored(Action(i).batch) PROVE FALSE
        OBVIOUS
      <3>2. \A j \in DOMAIN stored : stored[j] # Action(i).batch
        BY <3>1 DEF Stored
      <3>3. DOMAIN stored = 1..Len(stored) /\ Len(stored) \in Nat
        BY LenProperties DEF ClaimsTyped
      <3>4. \A j \in 1..n : stored[j] # Action(i).batch
        BY <3>2, <3>3
      <3>5. Action(i).batch \in Nat /\ Action(index).batch \in Nat
        BY <2>3, ClaimsTypes
      <3>6. stored[n] > Action(i).batch
        BY <2>2, <2>3, <3>2, <3>5
      <3>7. i < Len(actions)
        BY <1>0
      <3>8. QED
        BY <1>4, <3>4, <3>6, <3>7 DEF Overtaken
    <2>5. i \in found
      BY <1>0, <1>4, <2>4 DEF LeavesAfter
    <2> HIDE DEF found
    <2>6. Below(i) \subseteq Below(index) /\ Below(index) \subseteq found
      <3>1. \A k \in found : k \in Nat
        BY <1>0, <1>1
      <3>2. \A k \in found : k < i => k < index
        BY <1>4, <2>1, <3>1
      <3>3. QED
        BY <3>2
    <2> HIDE DEF Below
    <2>7. IsFiniteSet(Below(index))
      BY <1>2, <2>6, FS_Subset
    <2>8. Cardinality(Below(i)) <= Cardinality(Below(index)) /\ IsFiniteSet(Below(i))
      BY <2>6, <2>7, FS_Subset
    <2>9. Cardinality(Below(i)) \in Nat /\ Cardinality(Below(index)) \in Nat
      BY <2>7, <2>8, FS_CardinalityType
    <2>10. Cardinality(Below(index)) < Limit /\ Limit \in Nat
      BY <1>3, <1>4, ClaimsAssumption
    <2>11. Cardinality(Below(i)) < Limit
      BY <2>8, <2>9, <2>10
    <2>12. QED
      BY <1>3, <2>5, <2>11
  <1>5. \A index \in found : Listed(index, l)
    BY DEF LeavesAfter
  <1>6. QED
    BY <1>1, <1>3, <1>4, <1>5

LEMMA ReadListStep ==
    ASSUME ClaimsInv, NEW c \in Clients, ReadList(c), UNCHANGED clientele
    PROVE  ClaimsInv'
  <1> DEFINE after == session[c].after
             page == Page(Client[c], after)
             rows == [index \in page |-> "unknown"]
             s == [session[c] EXCEPT !.at = "reading", !.slot = slot, !.delay = delay,
                                     !.rows = rows]
  <1>0. /\ ClaimsTyped /\ OrderInv /\ PageInv(c) /\ slot \in Nat /\ delay \in Nat
        /\ session[c] \in Sessions /\ after \in Int /\ Indices \subseteq Nat
        /\ \A account \in Recipients \X Assets : cursor[account] \in Nat
        /\ cursor \in [Recipients \X Assets -> Nat]
    BY ClaimsTypes DEF ClaimsInv, ClaimsTyped
  <1>1. /\ session' = [session EXCEPT ![c] = s]
        /\ UNCHANGED <<clientele, slot, delay, actions, settled, stored, cursor, paid, passed>>
    BY DEF ReadList, contractVars
  <1>2. /\ page \subseteq Indices /\ \A index \in page : Listed(index, Client[c])
        /\ \A index \in page : \A i \in Indices :
             after < i /\ i < index /\ Listed(i, Client[c]) =>
                 i \in page \/ Overtaken(i)
    BY <1>0, PageIsGapless
  <1> HIDE DEF page
  <1>3. rows \in UNION {[S -> Reports] : S \in SUBSET Nat}
    <2>1. rows \in [page -> Reports] /\ page \in SUBSET Nat
      BY <1>0, <1>2 DEF Reports
    <2>2. QED
      BY <2>1
  <1>4. DOMAIN rows = page /\ \A index \in page : rows[index] = "unknown"
    OBVIOUS
  <1> HIDE DEF rows
  <1>5. /\ s \in Sessions /\ s.after = after /\ s.slot = slot /\ s.rows = rows
    BY <1>0, <1>3 DEF Sessions
  <1> HIDE DEF s
  <1>6. session'[c] = s /\ Client' = Client /\ Indices' = Indices
    BY <1>0, <1>1 DEF ClaimsTyped, Client, Indices
  <1>7. \A i : /\ Listed(i, Client[c])' <=> Listed(i, Client[c])
               /\ Overtaken(i)' <=> Overtaken(i)
    BY <1>1, <1>6 DEF Listed, Action, Overtaken
  <1>8. PageInv(c)'
    BY <1>0, <1>1, <1>2, <1>4, <1>5, <1>6, <1>7 DEF PageInv, NextIndex, Action
  <1>9. ReportInv(c)'
    BY <1>0, <1>1, <1>4, <1>5, <1>6 DEF ReportInv
  <1>10. \A account \in Recipients \X Assets : cursor[account] <= cursor'[account]
    BY <1>0, <1>1
  <1>11. PaidInv' /\ cursor' \in [Recipients \X Assets -> Nat]
    BY <1>0, <1>1, SamePaid
  <1>12. QED
    BY <1>1, <1>5, <1>8, <1>9, <1>10, <1>11, ClientStep

LEMMA ReadCursorStep ==
    ASSUME ClaimsInv, NEW c \in Clients, ReadCursor(c), UNCHANGED clientele
    PROVE  ClaimsInv'
  <1> DEFINE rows == session[c].rows
  <1>0. /\ ClaimsTyped /\ PageInv(c) /\ ReportInv(c) /\ slot \in Nat
        /\ session[c] \in Sessions /\ session \in [Clients -> Sessions]
        /\ DOMAIN rows \subseteq Nat /\ rows \in [DOMAIN rows -> Reports]
        /\ session[c].slot \in Nat /\ session[c].delay \in Nat
        /\ \A account \in Recipients \X Assets : cursor[account] \in Nat
        /\ cursor \in [Recipients \X Assets -> Nat]
    BY ClaimsTypes DEF ClaimsInv, ClaimsTyped
  <1>1. PICK index \in DOMAIN rows :
          session' = [session EXCEPT ![c].rows[index] =
              WithdrawalProgress(index, NextIndex(index), session[c].slot, session[c].delay)]
    BY DEF ReadCursor
  <1> DEFINE told == WithdrawalProgress(index, NextIndex(index),
                                        session[c].slot, session[c].delay)
             more == [rows EXCEPT ![index] = told]
             s == [session[c] EXCEPT !.rows = more]
  <1>2. UNCHANGED <<clientele, slot, delay, actions, settled, stored, cursor, paid, passed>>
    BY DEF ReadCursor, contractVars
  <1>3. session' = [session EXCEPT ![c] = s]
    BY <1>1
  <1>4. index \in Indices /\ NextIndex(index) \in Nat /\ Action(index).upper \in Nat /\ index \in Nat
    BY <1>0, ClaimsTypes DEF PageInv
  <1>5. /\ told \in Reports
        /\ told = "processed" => index < NextIndex(index)
        /\ told = "claimable" => session[c].slot >= Action(index).upper + session[c].delay
    BY <1>0, <1>4 DEF WithdrawalProgress, Reports
  <1> HIDE DEF told
  <1>6. /\ more \in [DOMAIN rows -> Reports] /\ DOMAIN more = DOMAIN rows
        /\ more[index] = told
        /\ \A i \in DOMAIN rows : i # index => more[i] = rows[i]
    BY <1>0, <1>5
  <1> HIDE DEF more
  <1>7. /\ s \in Sessions /\ s.after = session[c].after /\ s.slot = session[c].slot
        /\ s.delay = session[c].delay /\ s.rows = more
    <2>1. more \in UNION {[S -> Reports] : S \in SUBSET Nat}
      BY <1>0, <1>6
    <2>2. QED
      BY <1>0, <2>1 DEF Sessions
  <1> HIDE DEF s
  <1>8. session'[c] = s /\ Client' = Client /\ Indices' = Indices
    BY <1>0, <1>2, <1>3 DEF Client, Indices
  <1>9. /\ \A i : Listed(i, Client[c])' <=> Listed(i, Client[c])
        /\ \A i : NextIndex(i)' = NextIndex(i) /\ Action(i)' = Action(i)
        /\ \A i : Overtaken(i)' <=> Overtaken(i)
    BY <1>2, <1>8 DEF Listed, Action, NextIndex, Overtaken
  <1>10. PageInv(c)'
    BY <1>0, <1>2, <1>6, <1>7, <1>8, <1>9 DEF PageInv
  <1>11. ReportInv(c)'
    <2>1. \A i \in DOMAIN rows :
            /\ more[i] = "processed" => i < NextIndex(i)
            /\ more[i] = "claimable" => session[c].slot >= Action(i).upper + session[c].delay
      BY <1>0, <1>5, <1>6 DEF ReportInv
    <2>2. QED
      BY <1>0, <1>2, <1>6, <1>7, <1>8, <1>9, <2>1 DEF ReportInv
  <1>12. \A account \in Recipients \X Assets : cursor[account] <= cursor'[account]
    BY <1>0, <1>2
  <1>13. PaidInv' /\ cursor' \in [Recipients \X Assets -> Nat]
    BY <1>0, <1>2, SamePaid
  <1>14. QED
    BY <1>2, <1>3, <1>7, <1>10, <1>11, <1>12, <1>13, ClientStep
\* A client leaves behind a page that is processed, with all that precedes it.
LEMMA TurnStep ==
    ASSUME ClaimsInv, NEW c \in Clients, Turn(c), UNCHANGED clientele
    PROVE  ClaimsInv'
  <1> DEFINE rows == session[c].rows
             page == DOMAIN rows
             after == IF Open(c) = {} /\ page # {} THEN Max(page) ELSE session[c].after
             s == [Closed EXCEPT !.after = after]
  <1>0. /\ ClaimsTyped /\ PageInv(c) /\ ReportInv(c) /\ slot \in Nat
        /\ session \in [Clients -> Sessions] /\ session[c].after \in Int
        /\ page \subseteq Nat /\ Len(actions) \in Nat
        /\ \A account \in Recipients \X Assets : cursor[account] \in Nat
        /\ cursor \in [Recipients \X Assets -> Nat]
    BY ClaimsTypes DEF ClaimsInv, ClaimsTyped
  <1>1. /\ session' = [session EXCEPT ![c] = s]
        /\ UNCHANGED <<clientele, slot, delay, actions, settled, stored, cursor, paid, passed>>
    BY DEF Turn, contractVars
  <1>2. /\ after \in Int /\ after < Len(actions)
        /\ \A index \in Indices : index <= after /\ Listed(index, Client[c]) =>
              index < NextIndex(index) \/ Overtaken(index)
    <2>1. CASE Open(c) = {} /\ page # {}
      <3>1. page \in SUBSET (0..Len(actions)) /\ \A index \in page : index < Len(actions)
        BY <1>0 DEF PageInv, Indices
      <3>2. Max(page) \in page /\ \A i \in page : Max(page) >= i
        BY <1>0, <2>1, <3>1, MaxMember
      <3>3. \A index \in page : index < NextIndex(index)
        BY <1>0, <2>1 DEF Open, ReportInv
      <3>4. after = Max(page)
        BY <2>1
      <3> HIDE DEF after
      <3>5. ASSUME NEW index \in Indices, index <= after, Listed(index, Client[c])
            PROVE  index < NextIndex(index) \/ Overtaken(index)
        <4>1. CASE index <= session[c].after
          BY <1>0, <3>5, <4>1 DEF PageInv
        <4>2. CASE session[c].after < index /\ index < after
          <5>1. index \in page \/ Overtaken(index)
            BY <1>0, <3>2, <3>4, <3>5, <4>2 DEF PageInv
          <5>2. QED
            BY <3>3, <5>1
        <4>3. CASE index = after
          BY <3>2, <3>3, <3>4, <4>3
        <4>4. index \in Int /\ after \in Int
          BY <1>0, <3>2, <3>4 DEF Indices
        <4>5. QED
          BY <1>0, <3>5, <4>1, <4>2, <4>3, <4>4
      <3>6. QED
        BY <1>0, <3>1, <3>2, <3>4, <3>5
    <2>2. CASE ~(Open(c) = {} /\ page # {})
      <3>1. after = session[c].after
        BY <2>2
      <3>2. QED
        BY <1>0, <3>1 DEF PageInv
    <2>3. QED
      BY <2>1, <2>2
  <1> HIDE DEF after
  <1>3. /\ s \in Sessions /\ s.after = after /\ s.slot = 0 /\ DOMAIN s.rows = {}
    <2>1. << >> \in UNION {[S -> Reports] : S \in SUBSET Nat} /\ DOMAIN << >> = {}
      <3>1. << >> \in [{} -> Reports]
        OBVIOUS
      <3>2. QED
        BY <3>1
    <2>2. QED
      BY <1>2, <2>1 DEF Sessions, Closed
  <1> HIDE DEF s
  <1>4. session'[c] = s /\ Client' = Client /\ Indices' = Indices
    BY <1>0, <1>1 DEF Client, Indices
  <1>5. /\ \A i : Listed(i, Client[c])' <=> Listed(i, Client[c])
        /\ \A i : NextIndex(i)' = NextIndex(i)
        /\ \A i : Overtaken(i)' <=> Overtaken(i)
    BY <1>1, <1>4 DEF Listed, Action, NextIndex, Overtaken
  <1>6. PageInv(c)'
    BY <1>1, <1>2, <1>3, <1>4, <1>5 DEF PageInv
  <1>7. ReportInv(c)'
    BY <1>0, <1>1, <1>3, <1>4 DEF ReportInv
  <1>8. \A account \in Recipients \X Assets : cursor[account] <= cursor'[account]
    BY <1>0, <1>1
  <1>9. PaidInv' /\ cursor' \in [Recipients \X Assets -> Nat]
    BY <1>0, <1>1, SamePaid
  <1>10. QED
    BY <1>1, <1>3, <1>6, <1>7, <1>8, <1>9, ClientStep

\* A client claims the first withdrawal that is not processed: what the bridge's
\* cursor passes over has been paid or forfeited before.
LEMMA ClaimStep ==
    ASSUME ClaimsInv, NEW c \in Clients, Claim(c), UNCHANGED clientele
    PROVE  ClaimsInv'
  <1> DEFINE rows == session[c].rows
             index == Min(Open(c))
             s == [Closed EXCEPT !.after = session[c].after]
  <1>0. /\ ClaimsTyped /\ PageInv(c) /\ ReportInv(c) /\ PaidInv /\ slot \in Nat
        /\ session \in [Clients -> Sessions] /\ session[c].after \in Int
        /\ DOMAIN rows \subseteq Nat /\ Len(actions) \in Nat
        /\ \A account \in Recipients \X Assets : cursor[account] \in Nat
        /\ cursor \in [Recipients \X Assets -> Nat]
    BY ClaimsTypes DEF ClaimsInv, ClaimsTyped
  <1>1. /\ session' = [session EXCEPT ![c] = s] /\ Open(c) # {}
        /\ IF ClaimAccepted(index)
           THEN /\ cursor' = [cursor EXCEPT ![Action(index).account] = index + 1]
                /\ paid' = paid \union {index}
           ELSE UNCHANGED <<cursor, paid>>
        /\ UNCHANGED <<clientele, slot, delay, actions, settled, stored, passed>>
    BY DEF Claim, FirstIsClaimable, Paid
  <1>2. index \in DOMAIN rows /\ \A i \in DOMAIN rows : i < index => rows[i] = "processed"
    <2>1. Open(c) \in SUBSET Nat
      BY <1>0 DEF Open
    <2>2. index \in Open(c) /\ \A i \in Open(c) : index <= i
      BY <1>1, <2>1, MinMember
    <2> HIDE DEF index
    <2>3. QED
      BY <1>0, <2>1, <2>2 DEF Open
  <1> HIDE DEF index
  <1>3. /\ index \in Indices /\ index \in Nat /\ index < Len(actions)
        /\ Action(index).account \in Recipients \X Assets
    BY <1>0, <1>2, ClaimsTypes DEF PageInv, Indices
  <1>4. \A i \in Indices : i < index /\ Action(i).account = Action(index).account =>
          i \in paid \/ Forfeited(i)
    <2>1. SUFFICES ASSUME NEW i \in Indices, i < index,
                          Action(i).account = Action(index).account
                   PROVE  i \in paid \/ Forfeited(i)
      OBVIOUS
    <2>2. CASE Listed(i, Client[c])
      <3>1. i < NextIndex(i) \/ Overtaken(i)
        <4>1. CASE i <= session[c].after
          BY <1>0, <2>2, <4>1 DEF PageInv
        <4>2. CASE session[c].after < i
          <5>1. i \in DOMAIN rows \/ Overtaken(i)
            BY <1>0, <1>2, <2>1, <2>2, <4>2 DEF PageInv
          <5>2. QED
            BY <1>0, <1>2, <2>1, <5>1 DEF ReportInv
        <4>3. i \in Int
          BY <1>0 DEF Indices
        <4>4. QED
          BY <1>0, <4>1, <4>2, <4>3
      <3>2. QED
        BY <1>0, <3>1 DEF PaidInv, Forfeited
    <2>3. CASE ~Listed(i, Client[c])
      <3>1. ~Listed(index, Client[c])
        BY <2>1, <2>3 DEF Listed
      <3>2. Listed(index, Client[c])
        BY <1>0, <1>2 DEF PageInv
      <3>3. QED
        BY <3>1, <3>2
    <2>4. QED
      BY <2>2, <2>3
  <1>5. /\ cursor' \in [Recipients \X Assets -> Nat]
        /\ \A account \in Recipients \X Assets : cursor[account] <= cursor'[account]
        /\ paid \subseteq paid'
    <2>1. CASE ClaimAccepted(index)
      <3>1. cursor' = [cursor EXCEPT ![Action(index).account] = index + 1]
        BY <1>1, <2>1
      <3>2. index >= cursor[Action(index).account]
        BY <2>1 DEF ClaimAccepted, NextIndex
      <3>3. QED
        BY <1>0, <1>1, <1>3, <2>1, <3>1, <3>2
    <2>2. CASE ~ClaimAccepted(index)
      BY <1>0, <1>1, <2>2
    <2>3. QED
      BY <2>1, <2>2
  <1>6. PaidInv'
    <2>1. CASE ClaimAccepted(index)
      <3>1. /\ cursor' = [cursor EXCEPT ![Action(index).account] = index + 1]
            /\ paid' = paid \union {index}
        BY <1>1, <2>1
      <3>2. \A account \in Recipients \X Assets : cursor'[account] <= Len(actions)
        BY <1>0, <1>3, <3>1 DEF PaidInv
      <3>3. ASSUME NEW i \in Indices, i < cursor'[Action(i).account]
            PROVE  i \in paid' \/ Forfeited(i)
        <4>1. Action(i).account \in Recipients \X Assets /\ i \in Nat
          BY <1>0, ClaimsTypes
        <4>2. CASE Action(i).account = Action(index).account
          <5>1. i < index + 1
            BY <1>0, <1>3, <3>1, <3>3, <4>2
          <5>2. i < index \/ i = index
            BY <1>3, <4>1, <5>1
          <5>3. QED
            BY <1>4, <3>1, <4>2, <5>2
        <4>3. CASE Action(i).account # Action(index).account
          <5>1. cursor'[Action(i).account] = NextIndex(i)
            BY <1>0, <3>1, <4>1, <4>3 DEF NextIndex
          <5>2. QED
            BY <1>0, <3>1, <3>3, <5>1 DEF PaidInv
        <4>4. QED
          BY <4>2, <4>3
      <3>4. QED
        BY <1>1, <3>2, <3>3 DEF PaidInv, Indices, NextIndex, Action, Forfeited, Overtaken
    <2>2. CASE ~ClaimAccepted(index)
      BY <1>1, <2>2, SamePaid
    <2>3. QED
      BY <2>1, <2>2
  <1>7. /\ s \in Sessions /\ s.after = session[c].after /\ s.slot = 0 /\ DOMAIN s.rows = {}
    <2>1. << >> \in UNION {[S -> Reports] : S \in SUBSET Nat} /\ DOMAIN << >> = {}
      <3>1. << >> \in [{} -> Reports]
        OBVIOUS
      <3>2. QED
        BY <3>1
    <2>2. QED
      BY <1>0, <2>1 DEF Sessions, Closed
  <1> HIDE DEF s
  <1>8. session'[c] = s /\ Client' = Client /\ Indices' = Indices
    BY <1>0, <1>1 DEF Client, Indices
  <1>9. \A i : /\ Listed(i, Client[c])' <=> Listed(i, Client[c])
               /\ Overtaken(i)' <=> Overtaken(i)
    BY <1>1, <1>8 DEF Listed, Action, Overtaken
  <1>10. \A i \in Indices : i < NextIndex(i) => i < NextIndex(i)'
    <2>1. \A i \in Indices : /\ Action(i).account \in Recipients \X Assets /\ i \in Nat
                             /\ Action(i)' = Action(i)
      BY <1>0, <1>1, ClaimsTypes DEF Action
    <2>2. \A i \in Indices : /\ NextIndex(i) \in Nat /\ NextIndex(i)' \in Nat
                             /\ NextIndex(i) <= NextIndex(i)'
      BY <1>0, <1>5, <2>1 DEF NextIndex
    <2>3. QED
      BY <2>1, <2>2
  <1>11. PageInv(c)'
    BY <1>0, <1>1, <1>7, <1>8, <1>9, <1>10 DEF PageInv
  <1>12. ReportInv(c)'
    BY <1>0, <1>1, <1>7, <1>8 DEF ReportInv
  <1>13. QED
    BY <1>1, <1>5, <1>6, <1>7, <1>11, <1>12, ClientStep

\* A stranger's claim: what the cursor passes over is counted as forfeited.
LEMMA StrangerStep ==
    ASSUME ClaimsInv, StrangerClaims, UNCHANGED clientele
    PROVE  ClaimsInv'
  <1>1. /\ ClaimsTyped /\ PaidInv /\ slot \in Nat /\ Len(actions) \in Nat /\ Len(stored) \in Nat
        /\ \A account \in Recipients \X Assets : cursor[account] \in Nat
        /\ cursor \in [Recipients \X Assets -> Nat]
    BY LenProperties DEF ClaimsInv, ClaimsTyped
  <1>2. PICK index \in Indices :
          /\ index >= NextIndex(index)
          /\ cursor' = [cursor EXCEPT ![Action(index).account] = index + 1]
          /\ paid' = paid \union {index}
          /\ passed' = passed \union Forfeits(index)
    BY DEF StrangerClaims, ClaimAccepted, Paid, Indices
  <1>3. UNCHANGED <<clientele, slot, delay, actions, settled, stored, session>>
    BY DEF StrangerClaims
  <1>4. /\ index \in Nat /\ index < Len(actions) /\ NextIndex(index) \in Nat
        /\ Action(index).account \in Recipients \X Assets
    BY <1>1, ClaimsTypes DEF Indices
  <1>5. /\ cursor' \in [Recipients \X Assets -> Nat]
        /\ \A account \in Recipients \X Assets :
             cursor[account] <= cursor'[account] /\ cursor'[account] <= Len(actions)
    <2>1. index >= cursor[Action(index).account]
      BY <1>2 DEF NextIndex
    <2>2. QED
      BY <1>1, <1>2, <1>4, <2>1 DEF PaidInv
  <1>6. ClaimsTyped'
    BY <1>1, <1>3, <1>5 DEF ClaimsTyped, Clients, Client
  <1>7. Onward
    BY <1>1, <1>2, <1>3, <1>5 DEF Onward, Action
  <1>8. ASSUME NEW i \in Indices, i < cursor'[Action(i).account]
        PROVE  i \in paid' \/ i \in passed' \/ Overtaken(i)
    <2>1. /\ Action(i).account \in Recipients \X Assets /\ i \in Nat
          /\ NextIndex(i) = cursor[Action(i).account] /\ NextIndex(i) \in Nat
      BY <1>1, ClaimsTypes DEF NextIndex
    <2>2. CASE i < NextIndex(i)
      BY <1>1, <1>2, <2>2 DEF PaidInv, Forfeited
    <2>3. CASE i >= NextIndex(i)
      <3>1. Action(i).account = Action(index).account
        BY <1>1, <1>2, <1>8, <2>1, <2>3
      <3>2. i < index + 1 /\ NextIndex(index) = NextIndex(i)
        BY <1>1, <1>2, <1>4, <1>8, <3>1 DEF NextIndex
      <3>3. i = index \/ i \in NextIndex(index)..(index - 1)
        BY <1>4, <2>1, <2>3, <3>2
      <3>4. QED
        BY <1>2, <3>1, <3>3 DEF Forfeits
    <2>4. QED
      BY <2>1, <2>2, <2>3
  <1>9. PaidInv'
    <2>1. \A i \in Indices' : /\ i \in Indices /\ NextIndex(i)' = cursor'[Action(i).account]
                              /\ Forfeited(i)' = (i \in passed' \/ Overtaken(i))
      BY <1>3 DEF Indices, NextIndex, Action, Forfeited, Overtaken
    <2>2. Len(actions)' = Len(actions)
      BY <1>3
    <2>3. QED
      BY <1>5, <1>8, <2>1, <2>2 DEF PaidInv
  <1>10. OrderInv'
    BY <1>3, SameOrder DEF ClaimsInv
  <1>11. QED
    BY <1>3, <1>6, <1>7, <1>9, <1>10, ClientsKept
-----------------------------------------------------------------------------
(* Claims: the theorem.                                                    *)

LEMMA InitClaims == Init => ClaimsInv
  <1> SUFFICES ASSUME ClaimsInit PROVE ClaimsInv
    BY DEF Init
  <1>1. /\ clientele \in Clienteles /\ slot = 0 /\ actions = << >> /\ settled = 0
        /\ stored = << >> /\ cursor = [account \in Recipients \X Assets |-> 0]
        /\ session = [c \in Clients |-> Closed] /\ delay = Min(Delays)
    BY DEF ClaimsInit
  <1>2. delay \in Nat
    <2>1. Delays \in SUBSET Nat /\ Delays # {}
      BY ClaimsAssumption
    <2>2. QED
      BY <1>1, <2>1, MinMember
  <1>3. Closed \in Sessions /\ Closed.after = -1 /\ Closed.slot = 0 /\ DOMAIN Closed.rows = {}
    <2>1. << >> \in UNION {[S -> Reports] : S \in SUBSET Nat} /\ DOMAIN << >> = {}
      <3>1. << >> \in [{} -> Reports]
        OBVIOUS
      <3>2. QED
        BY <3>1
    <2>2. QED
      BY <2>1 DEF Sessions, Closed
  <1>4. actions \in Seq(Actions) /\ stored \in Seq(Nat) /\ Len(actions) = 0
    BY <1>1
  <1>5. ClaimsTyped
    BY <1>1, <1>2, <1>3, <1>4 DEF ClaimsTyped
  <1>6. Indices = {}
    BY <1>4 DEF Indices
  <1>7. PaidInv /\ OrderInv
    BY <1>1, <1>4, <1>6 DEF PaidInv, OrderInv
  <1>8. \A c \in Clients : PageInv(c) /\ ReportInv(c)
    BY <1>1, <1>3, <1>4, <1>6 DEF PageInv, ReportInv
  <1>9. QED
    BY <1>5, <1>7, <1>8 DEF ClaimsInv

LEMMA SameClaims ==
    ASSUME ClaimsInv, UNCHANGED claimVars
    PROVE  ClaimsInv'
  <1>1. UNCHANGED <<clientele, slot, delay, actions, settled, stored, cursor, paid, passed,
                    session>>
    BY DEF claimVars, contractVars
  <1>2. ClaimsTyped' /\ OrderInv'
    BY <1>1, SameOrder DEF ClaimsInv, ClaimsTyped, Clients, Client
  <1>3. /\ \A account \in Recipients \X Assets : cursor[account] \in Nat
        /\ Len(actions) \in Nat /\ slot \in Nat /\ Len(stored) \in Nat
    BY ClaimsTypes, LenProperties DEF ClaimsInv, ClaimsTyped
  <1>4. Onward
    BY <1>1, <1>3 DEF Onward, Action
  <1>5. QED
    BY <1>1, <1>2, <1>4, OutsideKept

LEMMA NextClaims == ClaimsInv /\ [Next]_vars => ClaimsInv'
  <1> SUFFICES ASSUME ClaimsInv, [Next]_vars PROVE ClaimsInv'
    OBVIOUS
  <1>1. CASE UNCHANGED claimVars
    BY <1>1, SameClaims
  <1>2. CASE ClaimsNext
    <2>1. CASE NextSlot \/ SetDelay
      BY <1>2, <2>1, OutsideStep DEF ClaimsNext
    <2>2. CASE Settle
      BY <1>2, <2>2, SettleStep DEF ClaimsNext
    <2>3. ASSUME NEW c \in Clients, Step(c) PROVE ClaimsInv'
      BY <1>2, <2>3, ReadListStep, ReadCursorStep, TurnStep, ClaimStep DEF ClaimsNext, Step
    <2>4. CASE StoreApplied \/ RecoverBatch
      BY <1>2, <2>4, StoreStep DEF ClaimsNext
    <2>5. CASE StrangerClaims
      BY <1>2, <2>5, StrangerStep DEF ClaimsNext
    <2>6. QED
      BY <1>2, <2>1, <2>2, <2>3, <2>4, <2>5 DEF ClaimsNext
  <1>3. QED
    BY <1>1, <1>2 DEF Next, Walks, Claims, vars

LEMMA ClaimsInvariant == Spec => []ClaimsInv
  BY InitClaims, NextClaims, PTL DEF Spec

\* What the lists call claimable the bridge pays, unless it has been paid, the
\* delay was raised since, a stranger has claimed a later withdrawal of that
\* recipient and asset, or its leaf was stored after a later one's: however many
\* clients of one recipient read pages, claim and see their claims revert, none
\* of them makes the bridge pass over a withdrawal that its list had in time
\* (withdrawal_progress, claimNativeWithdrawal, claimERC20Withdrawal).
THEOREM ClaimableCorrect == Spec => []ClaimableIsAccepted
  <1>1. ASSUME ClaimsInv PROVE ClaimableIsAccepted
    <2>1. SUFFICES ASSUME NEW c \in Clients, NEW index \in DOMAIN session[c].rows,
                          session[c].rows[index] = "claimable", index \notin paid,
                          ~Forfeited(index), ~(delay > session[c].delay)
                   PROVE  ClaimAccepted(index)
      BY DEF ClaimableIsAccepted
    <2>2. /\ ClaimsTyped /\ PaidInv /\ PageInv(c) /\ ReportInv(c) /\ index \in Indices
          /\ delay \in Nat /\ slot \in Nat
      BY <1>1 DEF ClaimsInv, ClaimsTyped, PageInv
    <2>3. /\ Action(index).upper \in Nat /\ NextIndex(index) \in Nat /\ index \in Nat
          /\ session[c].slot \in Nat /\ session[c].delay \in Nat
      BY <2>2, ClaimsTypes
    <2>4. ~(index < NextIndex(index))
      BY <2>1, <2>2 DEF PaidInv
    <2>5. session[c].slot >= Action(index).upper + session[c].delay /\ session[c].slot <= slot
      BY <2>1, <2>2 DEF ReportInv
    <2>6. QED
      BY <2>1, <2>2, <2>3, <2>4, <2>5 DEF ClaimAccepted
  <1>2. QED
    BY <1>1, ClaimsInvariant, PTL
-----------------------------------------------------------------------------
(* Pages: the rows of a list and what a page shows of them.                *)

\* A page is the rows down to the key of its last one.
LEMMA PageShows ==
    ASSUME NEW R, IsFiniteSet(R), NEW n \in Nat \ {0}, NEW k \in Nat,
           \A r \in R : r.key \in Nat /\ r.key <= k
    PROVE  /\ Cardinality(R) <= n => Newest(R, n) = R
           /\ Cardinality(R) > n =>
                /\ \E w \in R : w.key = Min({r.key : r \in Newest(R, n)})
                /\ \A r \in R : r \in Newest(R, n) <=> r.key >= Min({s.key : s \in Newest(R, n)})
           /\ Cardinality(R) \in Nat
  <1> DEFINE Above(x) == {r \in R : r.key > x}
  <1>1. Cardinality(R) \in Nat
    BY FS_CardinalityType
  <1>2. ASSUME NEW x PROVE /\ IsFiniteSet(Above(x)) /\ Cardinality(Above(x)) \in Nat
                           /\ Cardinality(Above(x)) <= Cardinality(R)
                           /\ Cardinality(R) = Cardinality(Above(x)) => R = Above(x)
    BY FS_Subset, FS_CardinalityType
  <1>3. Newest(R, n) = {r \in R : Cardinality(Above(r.key)) < n}
    BY DEF Newest
  <1>4. ASSUME NEW x \in Nat, NEW y \in Nat, x <= y
        PROVE  Cardinality(Above(y)) <= Cardinality(Above(x))
    <2>1. Above(y) \subseteq Above(x)
      BY <1>4
    <2>2. IsFiniteSet(Above(x))
      BY <1>2
    <2> HIDE DEF Above
    <2>3. QED
      BY <2>1, <2>2, FS_Subset
  <1>5. \A r \in R : r \notin Above(r.key)
    OBVIOUS
  <1>6. \A r \in R : Cardinality(Above(r.key)) < Cardinality(R)
    <2> SUFFICES ASSUME NEW r \in R PROVE Cardinality(Above(r.key)) < Cardinality(R)
      OBVIOUS
    <2>1. Above(r.key) # R
      BY <1>5
    <2>2. /\ Cardinality(Above(r.key)) \in Nat
          /\ Cardinality(Above(r.key)) <= Cardinality(R)
          /\ Cardinality(Above(r.key)) # Cardinality(R)
      BY <1>2, <2>1
    <2> HIDE DEF Above
    <2>3. QED
      BY <1>1, <2>2
  <1>7. Cardinality(R) <= n => Newest(R, n) = R
    <2>1. \A r \in R : Cardinality(Above(r.key)) \in Nat
      BY <1>2
    <2> HIDE DEF Above
    <2>2. QED
      BY <1>1, <1>3, <1>6, <2>1
  <1>8. ASSUME Cardinality(R) > n
        PROVE  /\ \E w \in R : w.key = Min({r.key : r \in Newest(R, n)})
               /\ \A r \in R : r \in Newest(R, n) <=> r.key >= Min({s.key : s \in Newest(R, n)})
    <2> DEFINE K == {r.key : r \in R}
               M == {r.key : r \in Newest(R, n)}
    <2>1. R # {}
      BY <1>8, <1>1, FS_EmptySet
    <2>2. K \in SUBSET (0..k) /\ K # {}
      BY <2>1
    <2>3. PICK top \in K : \A y \in K : top >= y
      BY <2>2, LargestNat
    <2>4. PICK t \in R : t.key = top
      BY <2>3
    <2>5. Above(t.key) = {}
      BY <2>3, <2>4
    <2>6. Cardinality(Above(t.key)) = 0
      BY <2>5, FS_EmptySet
    <2>7. t \in Newest(R, n)
      <3> HIDE DEF Above
      <3> QED BY <2>4, <2>6, <1>3
    <2>8. \A r \in Newest(R, n) : r \in R
      BY DEF Newest
    <2>9. M \in SUBSET Nat /\ M # {}
      BY <2>7, <2>8
    <2>10. Min(M) \in M /\ \A y \in M : Min(M) <= y
      BY <2>9, MinMember
    <2>11. PICK w \in Newest(R, n) : w.key = Min(M)
      BY <2>10
    <2>12. ASSUME NEW r \in R, r.key >= w.key PROVE r \in Newest(R, n)
      <3>1. Cardinality(Above(r.key)) <= Cardinality(Above(w.key))
        BY <1>4, <2>8, <2>11, <2>12
      <3>2. Cardinality(Above(w.key)) < n
        BY <1>3, <2>11
      <3>3. Cardinality(Above(w.key)) \in Nat /\ Cardinality(Above(r.key)) \in Nat
        BY <1>2
      <3> HIDE DEF Above
      <3>4. QED
        BY <1>3, <3>1, <3>2, <3>3
    <2>13. ASSUME NEW r \in Newest(R, n) PROVE r.key >= w.key
      <3>1. r.key \in M /\ r.key \in Nat /\ w.key \in Nat
        BY <2>8, <2>11, <2>13
      <3>2. QED
        BY <2>10, <2>11, <3>1
    <2>14. QED
      BY <2>8, <2>11, <2>12, <2>13
  <1>9. QED
    BY <1>1, <1>7, <1>8
LEMMA KeyedRows ==
    ASSUME TablesTyped, NEW keys, keys \subseteq DOMAIN table
    PROVE  /\ IsFiniteSet(Keyed(keys))
           /\ \A row \in Keyed(keys) : row.id = row.key /\ row.key \in 1..MaxKey
  <1>1. MaxKey \in Nat /\ keys \subseteq 1..MaxKey
    BY PagesAssumption DEF TablesTyped
  <1>2. IsFiniteSet(keys)
    <2>1. IsFiniteSet(1..MaxKey)
      BY <1>1, FS_Interval
    <2>2. QED
      BY <1>1, <2>1, FS_Subset
  <1> DEFINE f == [key \in keys |-> Row(key, key, table[key].status)]
  <1>3. f \in Surjection(keys, Keyed(keys))
    BY DEF Surjection, Keyed
  <1>4. IsFiniteSet(Keyed(keys))
    BY <1>2, <1>3, FS_Surjection
  <1>5. QED
    BY <1>1, <1>4 DEF Keyed, Row

LEMMA SettlementRowsFacts ==
    ASSUME TablesTyped
    PROVE  /\ IsFiniteSet(SettlementRows)
           /\ \A row \in SettlementRows : row.key \in Nat /\ row.key <= clock
           /\ \A row \in SettlementRows :
                \/ \E tx \in DOMAIN jobs : row.id = <<"job", tx>> /\ row.key = jobs[tx].at
                \/ \E tx \in DOMAIN events :
                     /\ row.id = <<"event", tx>> /\ row.key = events[tx].at
                     /\ events[tx].live /\ tx \notin Known
           /\ \A tx \in DOMAIN jobs : \E row \in SettlementRows : row.id = <<"job", tx>>
           /\ \A tx \in DOMAIN events : events[tx].live /\ tx \notin Known =>
                \E row \in SettlementRows : row.id = <<"event", tx>>
  <1> DEFINE J == {Row(<<"job", tx>>, jobs[tx].at, IF jobs[tx].hash THEN Late ELSE Early) :
                       tx \in DOMAIN jobs}
             L == {t \in DOMAIN events : events[t].live /\ t \notin Known}
             E == {Row(<<"event", tx>>, events[tx].at, Late) : tx \in L}
             f == [tx \in DOMAIN jobs |->
                     Row(<<"job", tx>>, jobs[tx].at, IF jobs[tx].hash THEN Late ELSE Early)]
             g == [tx \in L |-> Row(<<"event", tx>>, events[tx].at, Late)]
  <1>1. SettlementRows = J \union E
    BY DEF SettlementRows
  <1>2. IsFiniteSet(DOMAIN jobs) /\ IsFiniteSet(L)
    BY FS_Subset DEF TablesTyped
  <1>3. f \in Surjection(DOMAIN jobs, J)
    BY DEF Surjection
  <1>4. g \in Surjection(L, E)
    BY DEF Surjection
  <1>5. IsFiniteSet(J)
    BY <1>2, <1>3, FS_Surjection
  <1>6. IsFiniteSet(E)
    BY <1>2, <1>4, FS_Surjection
  <1>7. IsFiniteSet(SettlementRows)
    BY <1>1, <1>5, <1>6, FS_Union
  <1>8. \A row \in J : \E tx \in DOMAIN jobs : row.id = <<"job", tx>> /\ row.key = jobs[tx].at
    BY DEF Row
  <1>9. \A row \in E : \E tx \in L : row.id = <<"event", tx>> /\ row.key = events[tx].at
    BY DEF Row
  <1>10. ASSUME NEW tx \in DOMAIN jobs PROVE \E row \in J : row.id = <<"job", tx>>
    <2>1. f[tx] \in J /\ f[tx].id = <<"job", tx>>
      BY DEF Row
    <2>2. QED
      BY <2>1
  <1>11. ASSUME NEW tx \in L PROVE \E row \in E : row.id = <<"event", tx>>
    <2>1. g[tx] \in E /\ g[tx].id = <<"event", tx>>
      BY DEF Row
    <2>2. QED
      BY <2>1
  <1>12. \A tx \in DOMAIN jobs : jobs[tx].at \in Nat /\ jobs[tx].at <= clock
    BY DEF TablesTyped, JobRows
  <1>13. \A tx \in L : events[tx].at \in Nat /\ events[tx].at <= clock
    BY DEF TablesTyped, EventRows
  <1>14. \A tx \in L : tx \in DOMAIN events /\ events[tx].live /\ tx \notin Known
    OBVIOUS
  <1>15. \A tx \in DOMAIN events : events[tx].live /\ tx \notin Known => tx \in L
    OBVIOUS
  <1> HIDE DEF J, E, L
  <1>16. \A row \in SettlementRows : row.key \in Nat /\ row.key <= clock
    BY <1>1, <1>8, <1>9, <1>12, <1>13
  <1>17. \A row \in SettlementRows :
                \/ \E tx \in DOMAIN jobs : row.id = <<"job", tx>> /\ row.key = jobs[tx].at
                \/ \E tx \in DOMAIN events :
                     /\ row.id = <<"event", tx>> /\ row.key = events[tx].at
                     /\ events[tx].live /\ tx \notin Known
    BY <1>1, <1>8, <1>9, <1>14
  <1>18. QED
    BY <1>1, <1>7, <1>10, <1>11, <1>15, <1>16, <1>17

LEMMA OtherLists ==
    ASSUME TablesTyped, list # "settlements"
    PROVE  \E keys \in SUBSET DOMAIN table : Rows = Keyed(keys)
  <1>1. list \in {"blocks", "transactions", "deposits", "withdrawals"}
    BY PagesAssumption DEF TablesTyped
  <1>2. LiveKeys \in SUBSET DOMAIN table
    BY DEF LiveKeys
  <1>3. CASE list = "blocks"
    BY <1>3 DEF Rows, BlockRows
  <1>4. CASE list = "transactions"
    BY <1>2, <1>4 DEF Rows, TransactionRows
  <1>5. CASE list = "deposits"
    BY <1>2, <1>5 DEF Rows, DepositRows
  <1>6. CASE list = "withdrawals"
    BY <1>2, <1>6 DEF Rows, WithdrawalRows
  <1>7. QED
    BY <1>1, <1>3, <1>4, <1>5, <1>6

RowsInv ==
    /\ IsFiniteSet(Rows)
    /\ \A row \in Rows : row.key \in Nat /\ row.key <= MaxKey
    /\ \A row \in Rows : list = "settlements" => row.key <= clock
    /\ \A row \in Rows : list # "settlements" => row.id = row.key
    /\ \A r, s \in Rows : r.id = s.id => r.key = s.key

LEMMA RowsFacts == TablesTyped => RowsInv
  <1> SUFFICES ASSUME TablesTyped PROVE RowsInv
    OBVIOUS
  <1>1. CASE list # "settlements"
    <2>1. PICK keys \in SUBSET DOMAIN table : Rows = Keyed(keys)
      BY <1>1, OtherLists
    <2>2. MaxKey \in Nat
      BY PagesAssumption
    <2>3. QED
      BY <1>1, <2>1, <2>2, KeyedRows DEF RowsInv
  <1>2. CASE list = "settlements"
    <2>1. Rows = SettlementRows
      BY <1>2 DEF Rows
    <2>2. clock \in Nat /\ clock <= MaxKey /\ MaxKey \in Nat
      BY PagesAssumption DEF TablesTyped
    <2>3. \A r, s \in SettlementRows : r.id = s.id => r.key = s.key
      BY SettlementRowsFacts
    <2>4. QED
      BY <1>2, <2>1, <2>2, <2>3, SettlementRowsFacts DEF RowsInv
  <1>3. QED
    BY <1>1, <1>2
-----------------------------------------------------------------------------
(* Pages: what every step keeps.                                           *)

LEMMA SameRows ==
    ASSUME TablesTyped, UNCHANGED <<list, table, jobs, events, clock>>
    PROVE  /\ TablesTyped' /\ Rows' = Rows
           /\ \A filter : Matching(filter)' = Matching(filter)
  <1>1. TablesTyped'
    BY DEF TablesTyped
  <1>2. Rows' = Rows
    BY DEF Rows, BlockRows, TransactionRows, DepositRows, WithdrawalRows, SettlementRows,
           Keyed, LiveKeys, Known
  <1>3. QED
    BY <1>1, <1>2 DEF Matching

LEMMA StartStep ==
    ASSUME PagesInv, NEW filter \in Filters, Start(filter)
    PROVE  PagesInv'
  <1>1. /\ TablesTyped' /\ Rows' = Rows /\ list' = list /\ clock' = clock
        /\ \A f : Matching(f)' = Matching(f)
    BY SameRows DEF PagesInv, Start
  <1>2. walk' = [open |-> TRUE, ended |-> FALSE, filter |-> filter,
                cursor |-> NoCursor, seen |-> {}, odd |-> FALSE,
                kept |-> Ids(Matching(filter))]
    BY DEF Start
  <1>3. MaxKey \in Nat /\ NoCursor = MaxKey + 1
    BY PagesAssumption DEF NoCursor
  <1>4. walk.kept' = walk'.kept /\ walk.seen' = walk'.seen
    OBVIOUS
  <1>5. (walk \in WalkRow)'
    BY <1>2, <1>3 DEF WalkRow, NoCursor, Filters
  <1>6. \A row \in Rows : row.key \in Nat /\ row.key <= MaxKey
    BY RowsFacts DEF PagesInv, RowsInv
  <1>7. \A row \in Matching(filter) : row \in Rows
    BY DEF Matching
  <1>8. Matching(filter)' = Matching(filter)
    BY <1>1
  <1>9. walk'.filter = filter /\ walk'.cursor = NoCursor /\ walk'.seen = {} /\ ~walk'.ended
        /\ walk'.kept = Ids(Matching(filter))
    BY <1>2
  <1>10. Matching(walk.filter)' = Matching(filter)
    BY <1>1, <1>9 DEF Matching
  <1>11. WalkInv'
    BY <1>1, <1>3, <1>6, <1>7, <1>9, <1>10 DEF WalkInv
  <1>12. QED
    BY <1>1, <1>5, <1>11 DEF PagesInv

LEMMA FetchStep ==
    ASSUME PagesInv, NEW limit \in Limits, FetchPage(limit)
    PROVE  PagesInv'
  <1> DEFINE n == Clamped(limit)
             rows == After(walk.filter, walk.cursor)
             shown == Newest(rows, n)
             next == NextCursor(rows, n)
  <1>1. /\ TablesTyped' /\ Rows' = Rows /\ list' = list /\ clock' = clock
        /\ \A f : Matching(f)' = Matching(f)
    BY SameRows DEF PagesInv, FetchPage
  <1>2. walk.open /\ walk' = [walk EXCEPT !.seen = @ \union Ids(shown), !.cursor = next,
                            !.open = next # NoCursor, !.odd = ~@,
                            !.ended = next = NoCursor]
    BY DEF FetchPage
  <1>3. MaxKey \in Nat /\ NoCursor = MaxKey + 1 /\ n \in Nat \ {0}
    BY PagesAssumption DEF NoCursor, Clamped
  <1>4. /\ walk \in WalkRow /\ walk.cursor \in 0..NoCursor /\ walk.filter \in Filters
        /\ RowsInv /\ clock \in Nat /\ WalkInv
    BY RowsFacts DEF PagesInv, TablesTyped, WalkRow
  <1>5. /\ rows \subseteq Matching(walk.filter) /\ rows \subseteq Rows
        /\ \A row \in Matching(walk.filter) : row \in rows <=> row.key < walk.cursor
        /\ Matching(walk.filter) \subseteq Rows
    BY DEF After, Matching
  <1>6. IsFiniteSet(rows) /\ \A row \in rows : row.key \in Nat /\ row.key <= MaxKey
    BY <1>4, <1>5, FS_Subset DEF RowsInv
  <1>7. shown \subseteq rows
    BY DEF Newest
  <1> HIDE DEF n, rows, shown
  <1>8. /\ Cardinality(rows) <= n => shown = rows
        /\ Cardinality(rows) > n =>
             /\ \E w \in rows : w.key = Min({r.key : r \in shown})
             /\ \A r \in rows : r \in shown <=> r.key >= Min({s.key : s \in shown})
        /\ Cardinality(rows) \in Nat
    BY <1>3, <1>6, PageShows DEF shown
  <1>9. /\ next = IF Cardinality(rows) > n THEN Min({r.key : r \in shown}) ELSE NoCursor
    BY DEF NextCursor, shown
  <1> HIDE DEF next
  <1>10. /\ walk'.seen = walk.seen \union Ids(shown) /\ walk'.cursor = next
         /\ walk'.open = (next # NoCursor) /\ walk'.ended = (next = NoCursor)
         /\ walk'.filter = walk.filter /\ walk'.kept = walk.kept
    BY <1>2, <1>4 DEF WalkRow
  <1>11. /\ Cardinality(rows) > n => next \in Nat /\ next < walk.cursor
                /\ \E w \in rows : w.key = next
         /\ ~(Cardinality(rows) > n) => next = NoCursor
    BY <1>3, <1>4, <1>5, <1>6, <1>8, <1>9
  <1>12. next \in 0..NoCursor
    BY <1>3, <1>4, <1>11
  <1>13. walk.odd \in BOOLEAN
    BY <1>4 DEF WalkRow
  <1>14. (walk \in WalkRow)'
    BY <1>2, <1>4, <1>10, <1>12, <1>13 DEF WalkRow, NoCursor
  <1>15. Matching(walk.filter)' = Matching(walk.filter)
    BY <1>1, <1>10 DEF Matching
  <1>16. \A row \in shown : row.id \in walk'.seen
    BY <1>10 DEF Ids
  <1>17. \A id \in walk'.seen : id \in walk.seen \/ \E row \in shown : id = row.id
    BY <1>10 DEF Ids
  <1>18. \A id \in walk.kept : \E row \in Matching(walk.filter) : row.id = id
    BY <1>2, <1>4 DEF WalkInv, Ids
  <1>19. \A row \in Rows : row.key \in Nat
    BY <1>4 DEF RowsInv
  <1>20. CASE Cardinality(rows) > n
    <2>1. next \in Nat /\ next < walk.cursor /\ next # NoCursor /\ walk.cursor \in Nat
      BY <1>3, <1>4, <1>11, <1>20
    <2>2. walk'.open /\ ~walk'.ended
      BY <1>10, <2>1
    <2>3. \A row \in rows : row \in shown <=> row.key >= next
      BY <1>8, <1>9, <1>20
    <2>4. ASSUME NEW row \in Rows, row.id \in walk'.seen PROVE row.key >= next
      <3>1. CASE row.id \in walk.seen
        BY <1>2, <1>4, <1>19, <2>1, <3>1 DEF WalkInv
      <3>2. ASSUME NEW s \in shown, row.id = s.id PROVE row.key >= next
        BY <1>4, <1>5, <1>7, <2>3, <3>2 DEF RowsInv
      <3>3. QED
        BY <1>17, <2>4, <3>1, <3>2
    <2>5. ASSUME list # "settlements", NEW id \in walk'.seen PROVE id \in Nat /\ id >= next
      <3>1. CASE id \in walk.seen
        BY <1>2, <1>4, <2>1, <2>5, <3>1 DEF WalkInv
      <3>2. ASSUME NEW s \in shown, id = s.id PROVE id \in Nat /\ id >= next
        BY <1>4, <1>5, <1>7, <1>19, <2>3, <2>5, <3>2 DEF RowsInv
      <3>3. QED
        BY <1>17, <2>5, <3>1, <3>2
    <2>6. ASSUME list = "settlements" PROVE next <= clock
      BY <1>4, <1>5, <1>11, <1>20, <2>6 DEF RowsInv
    <2>7. ASSUME NEW row \in Matching(walk.filter), row.id \in walk.kept, row.key >= next
          PROVE  row.id \in walk'.seen
      <3>1. CASE row.key < walk.cursor
        BY <1>5, <1>16, <2>3, <2>7, <3>1
      <3>2. CASE row.key >= walk.cursor
        BY <1>2, <1>4, <1>10, <2>7, <3>2 DEF WalkInv
      <3>3. QED
        BY <1>5, <1>19, <2>1, <3>1, <3>2
    <2>8. walk'.kept \subseteq Ids(Matching(walk.filter))
      BY <1>2, <1>4, <1>10 DEF WalkInv
    <2>9. WalkInv'
      BY <1>1, <1>10, <1>15, <2>2, <2>4, <2>5, <2>6, <2>7, <2>8 DEF WalkInv
    <2>10. QED
      BY <1>1, <1>14, <2>9 DEF PagesInv
  <1>21. CASE ~(Cardinality(rows) > n)
    <2>1. next = NoCursor /\ ~walk'.open /\ walk'.ended
      BY <1>10, <1>11, <1>21
    <2>2. shown = rows
      BY <1>3, <1>8, <1>21
    <2>3. walk'.kept \subseteq walk'.seen
      <3> SUFFICES ASSUME NEW id \in walk.kept PROVE id \in walk'.seen
        BY <1>10
      <3>1. PICK row \in Matching(walk.filter) : row.id = id
        BY <1>18
      <3>2. CASE row.key < walk.cursor
        BY <1>5, <1>16, <2>2, <3>1, <3>2
      <3>3. CASE row.key >= walk.cursor
        BY <1>2, <1>4, <1>10, <3>1, <3>3 DEF WalkInv
      <3>4. QED
        BY <1>4, <1>5, <1>19, <3>2, <3>3
    <2>4. WalkInv'
      BY <2>1, <2>3 DEF WalkInv
    <2>5. QED
      BY <1>1, <1>14, <2>4 DEF PagesInv
  <1>22. QED
    BY <1>20, <1>21
\* What a change under the client leaves alone: a row that stays keeps its key,
\* and a settlement that comes is newer than all the others.
Steady ==
    /\ list' = list /\ clock <= clock'
    /\ list = "settlements" =>
         /\ \A r \in Rows' : \A s \in Rows : r.id = s.id => r.key = s.key
         /\ \A r \in Rows' : r.key > clock \/ \E s \in Rows : s.id = r.id

LEMMA ChangeKeeps ==
    ASSUME PagesInv, TablesTyped', Steady, Keeps
    PROVE  PagesInv'
  <1>1. RowsInv /\ RowsInv' /\ WalkInv /\ walk \in WalkRow /\ clock \in Nat /\ clock' \in Nat
        /\ list' = list /\ clock <= clock'
    <2>1. RowsInv'
      BY RowsFacts, PTL
    <2>2. QED
      BY <2>1, RowsFacts DEF PagesInv, TablesTyped, Steady
  <1>2. PICK filter \in {walk.filter} :
          walk' = [walk EXCEPT !.kept = @ \intersect Ids(Matching(filter))']
    BY DEF Keeps
  <1>3. /\ walk'.filter = walk.filter /\ filter = walk.filter /\ walk'.cursor = walk.cursor
        /\ walk'.seen = walk.seen /\ walk'.open = walk.open /\ walk'.ended = walk.ended
        /\ walk'.kept = walk.kept \intersect Ids(Matching(filter))'
    BY <1>1, <1>2 DEF WalkRow
  <1>4. Matching(walk.filter)' = Matching(filter)'
    BY <1>3 DEF Matching
  <1>5. walk'.kept = walk.kept \intersect Ids(Matching(walk.filter)')
    BY <1>3, <1>4 DEF Ids
  <1>6. (walk \in WalkRow)'
    BY <1>1, <1>2 DEF WalkRow, NoCursor, Filters
  <1>7. walk.cursor \in Nat /\ \A row \in Rows : row.key \in Nat
    BY <1>1, PagesAssumption DEF WalkRow, RowsInv, NoCursor
  <1>8. /\ \A row \in Rows' : row.key \in Nat
        /\ list # "settlements" => \A row \in Rows' : row.id = row.key
        /\ list # "settlements" => \A row \in Rows : row.id = row.key
    BY <1>1 DEF RowsInv
  <1>9. ASSUME walk.open, NEW row \in Rows', row.id \in walk.seen PROVE row.key >= walk.cursor
    <2>1. CASE list # "settlements"
      BY <1>1, <1>8, <1>9, <2>1 DEF WalkInv
    <2>2. CASE list = "settlements"
      <3>1. walk.cursor <= clock
        BY <1>1, <1>9, <2>2 DEF WalkInv
      <3>2. CASE row.key > clock
        BY <1>1, <1>7, <1>8, <3>1, <3>2
      <3>3. ASSUME NEW s \in Rows, s.id = row.id PROVE row.key >= walk.cursor
        BY <1>1, <1>9, <2>2, <3>3 DEF WalkInv, Steady
      <3>4. QED
        BY <2>2, <3>2, <3>3 DEF Steady
    <2>3. QED
      BY <2>1, <2>2
  <1>10. \A row \in Matching(walk.filter) : row \in Rows
    BY DEF Matching
  <1>11. \A row \in Matching(walk.filter)' : row \in Rows'
    BY DEF Matching
  <1>12. ASSUME walk.open, NEW row \in Matching(walk.filter)', row.id \in walk.kept,
                row.key >= walk.cursor
         PROVE  row.id \in walk.seen
    <2>1. PICK s \in Matching(walk.filter) : s.id = row.id
      BY <1>1, <1>12 DEF WalkInv, Ids
    <2>2. s.key = row.key
      BY <1>8, <1>10, <1>11, <2>1 DEF Steady
    <2>3. QED
      BY <1>1, <1>12, <2>1, <2>2 DEF WalkInv
  <1>13. list = "settlements" /\ walk.open /\ walk.seen # {} => walk.cursor <= clock'
    BY <1>1, <1>7 DEF WalkInv
  <1>14. walk.open /\ list # "settlements" =>
            \A id \in walk.seen : id \in Nat /\ id >= walk.cursor
    BY <1>1 DEF WalkInv
  <1>15. walk.ended => ~walk.open /\ walk'.kept \subseteq walk.seen
    BY <1>1, <1>5 DEF WalkInv
  <1>16. walk'.kept \subseteq Ids(Matching(walk.filter))'
    BY <1>5 DEF Ids
  <1>17. walk'.kept \subseteq walk.kept
    BY <1>5
  <1>18. WalkInv'
    BY <1>1, <1>3, <1>9, <1>12, <1>13, <1>14, <1>15, <1>16, <1>17 DEF WalkInv
  <1>19. QED
    BY <1>6, <1>18 DEF PagesInv

\* Steady, told by the tables.
JobsSteady ==
    \A tx \in DOMAIN jobs' :
        \/ tx \in DOMAIN jobs /\ jobs'[tx].at = jobs[tx].at
        \/ tx \notin DOMAIN jobs /\ jobs'[tx].at = Now

EventsSteady ==
    \A tx \in DOMAIN events' : events'[tx].live /\ tx \notin Known' =>
        \/ /\ tx \in DOMAIN events /\ events[tx].live /\ tx \notin Known
           /\ events'[tx].at = events[tx].at
        \/ (tx \in DOMAIN events => ~events[tx].live) /\ events'[tx].at = Now

SettlementFacts ==
    /\ \A row \in SettlementRows :
                \/ \E tx \in DOMAIN jobs : row.id = <<"job", tx>> /\ row.key = jobs[tx].at
                \/ \E tx \in DOMAIN events :
                     /\ row.id = <<"event", tx>> /\ row.key = events[tx].at
                     /\ events[tx].live /\ tx \notin Known
    /\ \A tx \in DOMAIN jobs : \E row \in SettlementRows : row.id = <<"job", tx>>
    /\ \A tx \in DOMAIN events : events[tx].live /\ tx \notin Known =>
                \E row \in SettlementRows : row.id = <<"event", tx>>

LEMMA SettlementsTold == TablesTyped => SettlementFacts
  BY SettlementRowsFacts DEF SettlementFacts

LEMMA TablesSteady ==
    ASSUME TablesTyped, TablesTyped', list' = list, clock <= clock', JobsSteady, EventsSteady
    PROVE  Steady
  <1> SUFFICES ASSUME list = "settlements"
      PROVE  /\ \A r \in Rows' : \A s \in Rows : r.id = s.id => r.key = s.key
             /\ \A r \in Rows' : r.key > clock \/ \E s \in Rows : s.id = r.id
    BY DEF Steady
  <1>1. Rows = SettlementRows /\ Rows' = SettlementRows'
    BY DEF Rows
  <1>2. SettlementFacts /\ SettlementFacts'
    <2>1. SettlementFacts'
      BY SettlementsTold, PTL
    <2>2. QED
      BY <2>1, SettlementsTold
  <1>3. clock \in Nat /\ Now > clock
    BY DEF TablesTyped, Now
  <1>4. ASSUME NEW r \in SettlementRows'
        PROVE  /\ \A s \in SettlementRows : r.id = s.id => r.key = s.key
               /\ r.key > clock \/ \E s \in SettlementRows : s.id = r.id
    <2>1. ASSUME NEW tx \in DOMAIN jobs', r.id = <<"job", tx>>, r.key = jobs'[tx].at
          PROVE  /\ \A s \in SettlementRows : r.id = s.id => r.key = s.key
                 /\ r.key > clock \/ \E s \in SettlementRows : s.id = r.id
      BY <1>2, <1>3, <2>1 DEF SettlementFacts, JobsSteady
    <2>2. ASSUME NEW tx \in DOMAIN events', r.id = <<"event", tx>>, r.key = events'[tx].at,
                 events'[tx].live, tx \notin Known'
          PROVE  /\ \A s \in SettlementRows : r.id = s.id => r.key = s.key
                 /\ r.key > clock \/ \E s \in SettlementRows : s.id = r.id
      BY <1>2, <1>3, <2>2 DEF SettlementFacts, EventsSteady
    <2>3. QED
      BY <1>2, <2>1, <2>2 DEF SettlementFacts
  <1>5. QED
    BY <1>1, <1>4
\* A change of the other lists' rows.
LEMMA TableChange ==
    ASSUME PagesInv, UNCHANGED <<jobs, events, clock>>, Keeps,
           DOMAIN table' \subseteq 1..MaxKey, table' \in [DOMAIN table' -> TableRows]
    PROVE  PagesInv'
  <1>1. TablesTyped /\ list' = list
    BY DEF PagesInv, Keeps
  <1>2. TablesTyped'
    BY <1>1 DEF TablesTyped
  <1>3. Known' = Known
    BY DEF Known
  <1>4. JobsSteady /\ EventsSteady /\ clock <= clock'
    BY <1>1, <1>3 DEF JobsSteady, EventsSteady, TablesTyped
  <1>5. QED
    BY <1>1, <1>2, <1>4, TablesSteady, ChangeKeeps

LEMMA TableSteps ==
    ASSUME PagesInv, Appear \/ Proceed \/ Vanish
    PROVE  PagesInv'
  <1>1. UNCHANGED <<jobs, events, clock>> /\ Keeps
    BY DEF Appear, Proceed, Vanish
  <1>2. /\ DOMAIN table \subseteq 1..MaxKey /\ table \in [DOMAIN table -> TableRows]
        /\ \A k \in DOMAIN table : table[k] \in TableRows
    BY DEF PagesInv, TablesTyped
  <1>3. CASE Appear
    <2>1. PICK key \in 1..MaxKey :
            table' = [k \in DOMAIN table \union {key} |->
              IF k = key THEN [live |-> TRUE, status |-> Early] ELSE table[k]]
      BY <1>3 DEF Appear
    <2>2. [live |-> TRUE, status |-> Early] \in TableRows
      BY DEF TableRows
    <2>3. QED
      BY <1>1, <1>2, <2>1, <2>2, TableChange
  <1>4. CASE Proceed
    <2>1. PICK key \in LiveKeys : table' = [table EXCEPT ![key].status = Late]
      BY <1>4 DEF Proceed
    <2>2. \A row \in TableRows : [row EXCEPT !.status = Late] \in TableRows
      BY DEF TableRows
    <2>3. DOMAIN table' = DOMAIN table /\ \A k \in DOMAIN table : table'[k] \in TableRows
      BY <1>2, <2>1, <2>2
    <2>4. table' = [k \in DOMAIN table' |-> table'[k]]
      BY <1>2, <2>1
    <2>5. QED
      BY <1>1, <1>2, <2>3, <2>4, TableChange
  <1>5. CASE Vanish
    <2>1. PICK n \in 0..(MaxKey - 1) :
            table' = [key \in DOMAIN table |-> [table[key] EXCEPT !.live = @ /\ key <= n]]
      BY <1>5 DEF Vanish
    <2>2. \A row \in TableRows : \A b \in BOOLEAN : [row EXCEPT !.live = b] \in TableRows
      BY DEF TableRows
    <2>3. \A row \in TableRows : \A key : (row.live /\ key <= n) \in BOOLEAN
      OBVIOUS
    <2>4. \A key \in DOMAIN table : table'[key] \in TableRows
      BY <1>2, <2>1, <2>2, <2>3
    <2>5. QED
      BY <1>1, <1>2, <2>1, <2>4, TableChange
  <1>6. QED
    BY <1>3, <1>4, <1>5

\* A change of the settlements.
LEMMA SettlementChange ==
    ASSUME PagesInv, TablesTyped', JobsSteady, EventsSteady, Keeps, clock <= clock'
    PROVE  PagesInv'
  BY TablesSteady, ChangeKeeps DEF PagesInv, Keeps

LEMMA JobCreated ==
    ASSUME PagesInv, Ticks, Keeps, UNCHANGED <<table, events>>, NEW tx, tx \notin DOMAIN jobs,
           NEW job \in JobRows, job.at = Now, Created(tx, job)
    PROVE  PagesInv'
  <1>1. /\ TablesTyped /\ list' = list /\ clock \in Nat /\ clock' = clock + 1 /\ clock < MaxKey
        /\ MaxKey \in Nat
    BY PagesAssumption DEF PagesInv, Keeps, Ticks, Now, TablesTyped
  <1>2. /\ DOMAIN jobs' = DOMAIN jobs \union {tx} /\ jobs'[tx] = job
        /\ \A t \in DOMAIN jobs : jobs'[t] = jobs[t]
        /\ jobs' = [t \in DOMAIN jobs' |-> jobs'[t]]
    BY DEF Created
  <1>3. \A t \in DOMAIN jobs : jobs[t] \in JobRows /\ jobs[t].at \in Nat /\ jobs[t].at <= clock
    BY <1>1 DEF TablesTyped, JobRows
  <1>4. IsFiniteSet(DOMAIN jobs')
    BY <1>1, <1>2, FS_AddElement DEF TablesTyped
  <1>5. jobs' \in [DOMAIN jobs' -> JobRows]
    BY <1>2, <1>3
  <1>6. \A t \in DOMAIN jobs' : jobs'[t].at <= clock'
    BY <1>1, <1>2, <1>3 DEF Now
  <1>7. \A t \in DOMAIN events : events[t].at <= clock'
    BY <1>1 DEF TablesTyped, EventRows
  <1>8. TablesTyped'
    BY <1>1, <1>4, <1>5, <1>6, <1>7 DEF TablesTyped
  <1>9. JobsSteady
    BY <1>2 DEF JobsSteady
  <1>10. Known \subseteq Known'
    BY <1>2 DEF Known
  <1>11. EventsSteady
    BY <1>10 DEF EventsSteady
  <1>12. QED
    BY <1>1, <1>8, <1>9, <1>11, SettlementChange

LEMMA CreationSteps ==
    ASSUME PagesInv, JobQueued \/ JobRecovered
    PROVE  PagesInv'
  <1>1. Now \in Nat
    BY DEF PagesInv, TablesTyped, Now
  <1>2. CASE JobQueued
    <2>1. PICK tx : tx \notin DOMAIN jobs /\ Created(tx,
            [at |-> Now, hash |-> FALSE, sent |-> FALSE, own |-> TRUE])
      BY <1>2 DEF JobQueued
    <2>2. [at |-> Now, hash |-> FALSE, sent |-> FALSE, own |-> TRUE] \in JobRows
      BY <1>1 DEF JobRows
    <2>3. QED
      BY <1>2, <2>1, <2>2, JobCreated DEF JobQueued
  <1>3. CASE JobRecovered
    <2>1. PICK tx : tx \notin DOMAIN jobs /\ Created(tx,
            [at |-> Now, hash |-> TRUE, sent |-> TRUE, own |-> FALSE])
      BY <1>3 DEF JobRecovered
    <2>2. [at |-> Now, hash |-> TRUE, sent |-> TRUE, own |-> FALSE] \in JobRows
      BY <1>1 DEF JobRows
    <2>3. QED
      BY <1>3, <2>1, <2>2, JobCreated DEF JobRecovered
  <1>4. QED
    BY <1>2, <1>3

LEMMA SubmittedStep ==
    ASSUME PagesInv, JobSubmitted
    PROVE  PagesInv'
  <1>1. TablesTyped /\ list' = list /\ clock \in Nat /\ UNCHANGED <<table, events, clock>> /\ Keeps
    BY DEF PagesInv, JobSubmitted, Keeps, TablesTyped
  <1>2. PICK tx \in DOMAIN jobs \ Known :
          jobs' = [jobs EXCEPT ![tx].hash = TRUE, ![tx].sent = TRUE]
    BY DEF JobSubmitted
  <1>3. \A row \in JobRows : [[row EXCEPT !.hash = TRUE] EXCEPT !.sent = TRUE] \in JobRows
          /\ [[row EXCEPT !.hash = TRUE] EXCEPT !.sent = TRUE].at = row.at
          /\ [[row EXCEPT !.hash = TRUE] EXCEPT !.sent = TRUE].hash
    BY DEF JobRows
  <1>4. jobs \in [DOMAIN jobs -> JobRows] /\ \A t \in DOMAIN jobs : jobs[t] \in JobRows
    BY <1>1 DEF TablesTyped
  <1>5. /\ DOMAIN jobs' = DOMAIN jobs
        /\ jobs' = [t \in DOMAIN jobs |-> jobs'[t]]
        /\ \A t \in DOMAIN jobs : t # tx => jobs'[t] = jobs[t]
        /\ jobs'[tx] = [[jobs[tx] EXCEPT !.hash = TRUE] EXCEPT !.sent = TRUE]
    BY <1>2, <1>4
  <1>6. \A t \in DOMAIN jobs : jobs'[t] \in JobRows /\ jobs'[t].at = jobs[t].at
    BY <1>2, <1>3, <1>4, <1>5
  <1>7. TablesTyped'
    BY <1>1, <1>5, <1>6 DEF TablesTyped
  <1>8. JobsSteady
    BY <1>5, <1>6 DEF JobsSteady
  <1>9. Known \subseteq Known'
    BY <1>5 DEF Known
  <1>10. EventsSteady
    BY <1>1, <1>9 DEF EventsSteady
  <1>11. QED
    BY <1>1, <1>7, <1>8, <1>10, SettlementChange

LEMMA IndexedStep ==
    ASSUME PagesInv, EventIndexed
    PROVE  PagesInv'
  <1>1. /\ TablesTyped /\ list' = list /\ clock \in Nat /\ clock' = clock + 1 /\ clock < MaxKey
        /\ MaxKey \in Nat /\ Keeps /\ UNCHANGED <<table, jobs>>
    BY PagesAssumption DEF PagesInv, EventIndexed, Keeps, Ticks, Now, TablesTyped
  <1>2. PICK tx \in Txs :
          /\ tx \in DOMAIN events => ~events[tx].live
          /\ events' = [t \in DOMAIN events \union {tx} |->
               IF t = tx THEN [at |-> Now, live |-> TRUE] ELSE events[t]]
    BY DEF EventIndexed
  <1>3. /\ DOMAIN events' = DOMAIN events \union {tx}
        /\ events'[tx] = [at |-> Now, live |-> TRUE]
        /\ \A t \in DOMAIN events : t # tx => events'[t] = events[t]
        /\ events' = [t \in DOMAIN events' |-> events'[t]]
    BY <1>2
  <1>4. [at |-> Now, live |-> TRUE] \in EventRows /\ Now \in Nat /\ Now = clock'
    BY <1>1 DEF EventRows, Now
  <1>5. \A t \in DOMAIN events :
          events[t] \in EventRows /\ events[t].at \in Nat /\ events[t].at <= clock
    BY <1>1 DEF TablesTyped, EventRows
  <1>6. IsFiniteSet(DOMAIN events')
    BY <1>1, <1>3, FS_AddElement DEF TablesTyped
  <1>7. events' \in [DOMAIN events' -> EventRows]
    BY <1>3, <1>4, <1>5
  <1>8. \A t \in DOMAIN events' : events'[t].at <= clock'
    BY <1>1, <1>3, <1>4, <1>5
  <1>9. \A t \in DOMAIN jobs : jobs[t].at <= clock'
    BY <1>1 DEF TablesTyped, JobRows
  <1>10. TablesTyped'
    BY <1>1, <1>6, <1>7, <1>8, <1>9 DEF TablesTyped
  <1>11. JobsSteady /\ Known' = Known
    BY <1>1 DEF JobsSteady, Known
  <1>12. EventsSteady
    BY <1>2, <1>3, <1>11 DEF EventsSteady
  <1>13. QED
    BY <1>1, <1>10, <1>11, <1>12, SettlementChange

LEMMA RemovedStep ==
    ASSUME PagesInv, EventRemoved
    PROVE  PagesInv'
  <1>1. TablesTyped /\ list' = list /\ clock \in Nat /\ UNCHANGED <<table, clock>> /\ Keeps
    BY DEF PagesInv, EventRemoved, Keeps, TablesTyped
  <1>2. PICK tx \in DOMAIN events, kept \in BOOLEAN :
         /\ events' = [events EXCEPT ![tx].live = FALSE]
         /\ jobs' = [t \in {u \in DOMAIN jobs : u # tx \/ jobs[u].own} |->
                         [jobs[t] EXCEPT !.hash = @ /\ (t # tx \/ kept)]]
    BY DEF EventRemoved
  <1>3. /\ events \in [DOMAIN events -> EventRows] /\ \A t \in DOMAIN events : events[t] \in EventRows
        /\ \A t \in DOMAIN jobs : jobs[t] \in JobRows
    BY <1>1 DEF TablesTyped
  <1>4. \A row \in EventRows : /\ [row EXCEPT !.live = FALSE] \in EventRows
                               /\ [row EXCEPT !.live = FALSE].at = row.at
                               /\ ~[row EXCEPT !.live = FALSE].live
    BY DEF EventRows
  <1>5. /\ DOMAIN events' = DOMAIN events /\ events' = [t \in DOMAIN events |-> events'[t]]
        /\ \A t \in DOMAIN events : t # tx => events'[t] = events[t]
        /\ events'[tx] = [events[tx] EXCEPT !.live = FALSE]
    BY <1>2, <1>3
  <1>6. /\ ~events'[tx].live
        /\ \A t \in DOMAIN events : events'[t] \in EventRows /\ events'[t].at = events[t].at
    <2> DEFINE row == events[tx]
               gone == [row EXCEPT !.live = FALSE]
    <2>1. row \in EventRows /\ events'[tx] = gone
      BY <1>3, <1>5
    <2>2. gone \in EventRows /\ gone.at = row.at /\ ~gone.live
      BY <1>4, <2>1
    <2> HIDE DEF gone
    <2>3. ~events'[tx].live /\ events'[tx] \in EventRows /\ events'[tx].at = events[tx].at
      BY <2>1, <2>2
    <2>4. \A t \in DOMAIN events : t # tx =>
             events'[t] \in EventRows /\ events'[t].at = events[t].at
      BY <1>3, <1>5
    <2>5. QED
      BY <2>3, <2>4
  <1>7. \A row \in JobRows : \A b \in BOOLEAN :
          [row EXCEPT !.hash = b] \in JobRows /\ [row EXCEPT !.hash = b].at = row.at
          /\ [row EXCEPT !.hash = b].hash = b
    BY DEF JobRows
  <1>8. \A t \in DOMAIN jobs : (jobs[t].hash /\ (t # tx \/ kept)) \in BOOLEAN
    OBVIOUS
  <1>9. /\ DOMAIN jobs' \subseteq DOMAIN jobs /\ jobs' = [t \in DOMAIN jobs' |-> jobs'[t]]
        /\ \A t \in DOMAIN jobs : t # tx => t \in DOMAIN jobs'
        /\ \A t \in DOMAIN jobs' :
             jobs'[t] = [jobs[t] EXCEPT !.hash = jobs[t].hash /\ (t # tx \/ kept)]
    BY <1>2
  <1>10. ASSUME NEW t \in DOMAIN jobs'
         PROVE  /\ jobs'[t] \in JobRows /\ jobs'[t].at = jobs[t].at
                /\ jobs'[t].hash = (jobs[t].hash /\ (t # tx \/ kept))
    <2> DEFINE b == jobs[t].hash /\ (t # tx \/ kept)
    <2>1. jobs[t] \in JobRows /\ b \in BOOLEAN
      BY <1>3, <1>8, <1>9
    <2>2. jobs'[t] = [jobs[t] EXCEPT !.hash = b]
      BY <1>9
    <2> HIDE DEF b
    <2>3. jobs'[t] \in JobRows /\ jobs'[t].at = jobs[t].at /\ jobs'[t].hash = b
      BY <1>7, <2>1, <2>2
    <2>4. QED
      BY <2>3 DEF b
  <1>11. IsFiniteSet(DOMAIN jobs')
    BY <1>1, <1>9, FS_Subset DEF TablesTyped
  <1>12. TablesTyped'
    BY <1>1, <1>5, <1>6, <1>9, <1>10, <1>11 DEF TablesTyped
  <1>13. JobsSteady
    BY <1>9, <1>10 DEF JobsSteady
  <1>14. \A t \in Known : t # tx => t \in Known'
    BY <1>9, <1>10 DEF Known
  <1>15. EventsSteady
    BY <1>5, <1>6, <1>14 DEF EventsSteady
  <1>16. QED
    BY <1>1, <1>12, <1>13, <1>15, SettlementChange

LEMMA InitPages == Init => PagesInv
  <1> SUFFICES ASSUME Init PROVE PagesInv
    OBVIOUS
  <1>1. /\ list \in Lists /\ table = << >> /\ jobs = << >> /\ events = << >> /\ clock = 0
        /\ walk = [open |-> FALSE, ended |-> FALSE, filter |-> Every,
               cursor |-> NoCursor, seen |-> {}, odd |-> FALSE, kept |-> {}]
    BY DEF Init, PagesInit
  <1>2. MaxKey \in Nat /\ NoCursor \in 0..NoCursor
    BY PagesAssumption DEF NoCursor
  <1>3. DOMAIN table = {} /\ DOMAIN jobs = {} /\ DOMAIN events = {}
    BY <1>1
  <1>4. TablesTyped
    BY <1>1, <1>2, <1>3, FS_EmptySet DEF TablesTyped
  <1>5. walk \in WalkRow
    BY <1>1, <1>2 DEF WalkRow, Filters
  <1>6. WalkInv
    BY <1>1 DEF WalkInv
  <1>7. QED
    BY <1>4, <1>5, <1>6 DEF PagesInv

LEMMA NextPages == PagesInv /\ [Next]_vars => PagesInv'
  <1> SUFFICES ASSUME PagesInv, [Next]_vars PROVE PagesInv'
    OBVIOUS
  <1>1. CASE UNCHANGED pageVars
    <2>1. UNCHANGED <<list, table, jobs, events, clock, walk>>
      BY <1>1 DEF pageVars
    <2>2. TablesTyped' /\ Rows' = Rows /\ Matching(walk.filter)' = Matching(walk.filter)
      BY <2>1, SameRows DEF PagesInv, Matching
    <2>3. (walk \in WalkRow)'
      BY <2>1 DEF PagesInv, WalkRow, NoCursor, Filters
    <2>4. WalkInv'
      BY <2>1, <2>2 DEF PagesInv, WalkInv, Ids
    <2>5. QED
      BY <2>2, <2>3, <2>4 DEF PagesInv
  <1>2. CASE PagesNext
    <2>1. ASSUME NEW filter \in {Every, Early, Late}, Start(filter) PROVE PagesInv'
      BY <2>1, StartStep DEF Filters
    <2>2. CASE Fetch
      BY <2>2, FetchStep DEF Fetch
    <2>3. CASE Change
      BY <2>3, TableSteps, CreationSteps, SubmittedStep, IndexedStep, RemovedStep DEF Change
    <2>4. QED
      BY <1>2, <2>1, <2>2, <2>3 DEF PagesNext
  <1>3. QED
    BY <1>1, <1>2 DEF Next, Walks, Claims, vars

LEMMA PagesInvariant == Spec => []PagesInv
  BY InitPages, NextPages, PTL DEF Spec

\* A walk over any list of the explorer, with any limits, shows each row that
\* stays in the filtered list exactly once, although rows come, go, change
\* their status and are indexed again while the client asks for the next page
\* (list_blocks, list_settlements and the other list routes).
THEOREM WalkCorrect == Spec => []WalkIsExact
  <1>1. ASSUME PagesInv PROVE WalkIsExact
    <2>1. WalkSeesEveryRow
      BY <1>1 DEF PagesInv, WalkInv, WalkSeesEveryRow
    <2>2. ASSUME walk.open, NEW row \in After(walk.filter, walk.cursor), row.id \in walk.seen
          PROVE  FALSE
      <3>1. row \in Rows /\ row.key < walk.cursor
        BY <2>2 DEF After, Matching
      <3>2. row.key >= walk.cursor
        BY <1>1, <2>2, <3>1 DEF PagesInv, WalkInv
      <3>3. row.key \in Nat /\ walk.cursor \in Nat
        BY <1>1, <3>1, RowsFacts, PagesAssumption DEF PagesInv, RowsInv, WalkRow, NoCursor
      <3>4. QED
        BY <3>1, <3>2, <3>3
    <2>3. NoRowTwice
      BY <2>2 DEF NoRowTwice, Ids
    <2>4. QED
      BY <2>1, <2>3 DEF WalkIsExact
  <1>2. QED
    BY <1>1, PagesInvariant, PTL
=============================================================================
