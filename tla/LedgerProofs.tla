---------------------------- MODULE LedgerProofs ----------------------------
(***************************************************************************)
(* Value across the two chains, for every value of the constants: the      *)
(* liability of an asset is exactly what was deposited less what was paid, *)
(* the L2 has never withdrawn more than was bridged to it, hence all that  *)
(* can still be claimed is covered; and the contracts implement            *)
(* EscrowLedger.                                                           *)
(***************************************************************************)
EXTENDS LedgerRefinement, ContractsProofs

\* The amounts at some positions of a log.
TotalAt(log, S) == SumFunction([i \in S |-> log[i].amount])

-----------------------------------------------------------------------------
(* Totals.                                                                 *)

LEMMA TotalIsSum ==
    ASSUME NEW log, NEW S, NEW T, IsFiniteSet(T), S \subseteq T,
           \A i \in T : log[i].amount \in Nat
    PROVE  TotalAt(log, S) = SumFunctionOnSet([i \in T |-> log[i].amount], S)
  <1> DEFINE f == [i \in S |-> log[i].amount]
             g == [i \in T |-> log[i].amount]
  <1>1. TotalAt(log, S) = SumFunctionOnSet(f, S)
    <2>1. DOMAIN f = S
      OBVIOUS
    <2>2. TotalAt(log, S) = SumFunctionOnSet(f, DOMAIN f)
      BY DEF TotalAt, SumFunction, SumFunctionOnSet, FoldFunction
    <2>3. QED
      BY <2>1, <2>2
  <1>2. IsFiniteSet(S) /\ \A i \in S : f[i] \in Nat /\ g[i] = f[i]
    BY FS_Subset
  <1> HIDE DEF f, g
  <1>3. SumFunctionOnSet(f, S) = SumFunctionOnSet(g, S)
    BY <1>2, SumAgrees
  <1>4. QED
    BY <1>1, <1>3 DEF g

\* A total of amounts is a natural number.
LEMMA TotalNat ==
    ASSUME NEW log, NEW S, IsFiniteSet(S), \A i \in S : log[i].amount \in Nat
    PROVE  TotalAt(log, S) \in Nat
  <1> DEFINE g == [i \in S |-> log[i].amount]
  <1>1. TotalAt(log, S) = SumFunctionOnSet(g, S)
    BY TotalIsSum
  <1>2. \A i \in S : g[i] \in Nat
    OBVIOUS
  <1> HIDE DEF g
  <1>3. QED
    BY <1>1, <1>2, SumNat

\* Fewer positions, no larger total.
LEMMA TotalMonotone ==
    ASSUME NEW log, NEW T, IsFiniteSet(T), \A i \in T : log[i].amount \in Nat,
           NEW S \in SUBSET T
    PROVE  TotalAt(log, S) <= TotalAt(log, T)
  <1> DEFINE g == [i \in T |-> log[i].amount]
  <1>1. TotalAt(log, S) = SumFunctionOnSet(g, S) /\ TotalAt(log, T) = SumFunctionOnSet(g, T)
    BY TotalIsSum
  <1>2. \A i \in T : g[i] \in Nat
    OBVIOUS
  <1> HIDE DEF g
  <1>3. QED
    BY <1>1, <1>2, SumOfSubset

\* Separate positions add up.
LEMMA TotalSplits ==
    ASSUME NEW log, NEW S, NEW T, IsFiniteSet(S), IsFiniteSet(T), S \cap T = {},
           \A i \in S \cup T : log[i].amount \in Nat
    PROVE  TotalAt(log, S \cup T) = TotalAt(log, S) + TotalAt(log, T)
  <1> DEFINE U == S \cup T
             g == [i \in U |-> log[i].amount]
  <1>1. IsFiniteSet(U) /\ S \subseteq U /\ T \subseteq U
    BY FS_Union
  <1>2. \A i \in U : log[i].amount \in Nat
    OBVIOUS
  <1>3. \A i \in U : g[i] \in Nat
    BY <1>2
  <1> HIDE DEF U
  <1>4. /\ TotalAt(log, S) = SumFunctionOnSet(g, S)
        /\ TotalAt(log, T) = SumFunctionOnSet(g, T)
        /\ TotalAt(log, U) = SumFunctionOnSet(g, U)
    BY <1>1, <1>2, TotalIsSum
  <1> HIDE DEF g
  <1>5. QED
    BY <1>3, <1>4, SumOfUnion DEF U

\* One more position adds its amount.
LEMMA TotalAdds ==
    ASSUME NEW log, NEW S, IsFiniteSet(S), NEW x, x \notin S,
           \A i \in S \cup {x} : log[i].amount \in Nat
    PROVE  TotalAt(log, S \cup {x}) = TotalAt(log, S) + log[x].amount
  <1> DEFINE U == S \cup {x}
             g == [i \in U |-> log[i].amount]
  <1>1. IsFiniteSet(U) /\ S \subseteq U /\ x \in U /\ U \ {x} = S
    BY FS_AddElement
  <1>2. \A i \in U : log[i].amount \in Nat
    OBVIOUS
  <1>3. g[x] = log[x].amount /\ \A i \in U : g[i] \in Nat
    BY <1>1, <1>2
  <1> HIDE DEF U
  <1>4. /\ TotalAt(log, S) = SumFunctionOnSet(g, S)
        /\ TotalAt(log, U) = SumFunctionOnSet(g, U)
    BY <1>1, <1>2, TotalIsSum
  <1> HIDE DEF g
  <1>5. SumFunctionOnSet(g, U) = g[x] + SumFunctionOnSet(g, S)
    BY <1>1, <1>3, SumTakes
  <1>6. TotalAt(log, S) \in Nat /\ g[x] \in Nat
    BY <1>1, <1>3, <1>4, SumNat
  <1>7. QED
    BY <1>3, <1>4, <1>5, <1>6 DEF U

\* Logs that agree at the positions have the same total.
LEMMA TotalSame ==
    ASSUME NEW log, NEW other, NEW S, \A i \in S : other[i] = log[i]
    PROVE  TotalAt(other, S) = TotalAt(log, S)
  <1>1. [i \in S |-> other[i].amount] = [i \in S |-> log[i].amount]
    OBVIOUS
  <1>2. QED
    BY <1>1 DEF TotalAt

\* Positions of a sequence are finitely many.
LEMMA PositionsFinite ==
    ASSUME NEW n \in Nat, NEW S \in SUBSET (1..n)
    PROVE  IsFiniteSet(S)
  <1>1. IsFiniteSet(1..n)
    BY FS_Interval
  <1>2. QED
    BY <1>1, FS_Subset

\* Ethereum units per Zeko unit.
Rate(asset) == IF asset = Native THEN Gwei ELSE 1

LEMMA ConversionLinear ==
    ASSUME NEW asset
    PROVE  /\ Rate(asset) \in Nat
           /\ \A m \in Nat : EthereumAmount(asset, m) \in Nat
           /\ \A m \in Nat : EthereumAmount(asset, m) = m * Rate(asset)
           /\ \A m, n \in Nat : EthereumAmount(asset, m + n)
                                  = EthereumAmount(asset, m) + EthereumAmount(asset, n)
           /\ \A m, n \in Nat : m <= n =>
                  EthereumAmount(asset, m) <= EthereumAmount(asset, n)
  <1>1. CASE asset = Native
    <2>1. Gwei \in Nat /\ Gwei > 0
      BY GuestAssumption
    <2>2. \A m, n \in Nat : (m + n) * Gwei = m * Gwei + n * Gwei
      BY <2>1
    <2>3. \A m, n \in Nat : m <= n => m * Gwei <= n * Gwei
      <3> SUFFICES ASSUME NEW m \in Nat, NEW n \in Nat, m <= n
                   PROVE  m * Gwei <= n * Gwei
        OBVIOUS
      <3>1. n = m + (n - m) /\ n - m \in Nat
        OBVIOUS
      <3>2. n * Gwei = m * Gwei + (n - m) * Gwei
        BY <2>2, <3>1
      <3>3. m * Gwei \in Nat /\ (n - m) * Gwei \in Nat
        BY <2>1, <3>1, ProductIsNat
      <3>4. QED
        BY <3>2, <3>3
    <2>4. \A m \in Nat : m * Gwei \in Nat
      BY <2>1, ProductIsNat
    <2>5. QED
      BY <1>1, <2>1, <2>2, <2>3, <2>4 DEF Rate, EthereumAmount
  <1>2. CASE asset # Native
    BY <1>2 DEF Rate, EthereumAmount
  <1>3. QED
    BY <1>1, <1>2

-----------------------------------------------------------------------------
(* What was deposited, what was paid.                                      *)

DepositsOf(log, asset, n) == {i \in 1..n : log[i].token = asset}

\* Of an asset among the first n deposits.
Deposited(log, asset, n) == TotalAt(log, DepositsOf(log, asset, n))

LEMMA DepositedTypes ==
    ASSUME NEW log \in Seq(Deposits), NEW n \in 0..Len(log), NEW a
    PROVE  /\ IsFiniteSet(DepositsOf(log, a, n))
           /\ \A i \in DepositsOf(log, a, n) : log[i].amount \in Nat
           /\ Deposited(log, a, n) \in Nat
  <1>1. \A i \in 1..Len(log) : log[i] \in Deposits
    BY ElementOfSeq
  <1>2. \A i \in 1..Len(log) : log[i].amount \in Nat
    BY <1>1 DEF Deposits
  <1>3. n \in Nat /\ DepositsOf(log, a, n) \subseteq 1..n /\ 1..n \subseteq 1..Len(log)
    BY LenProperties DEF DepositsOf
  <1>4. \A i \in DepositsOf(log, a, n) : log[i].amount \in Nat
    BY <1>2, <1>3
  <1>5. IsFiniteSet(DepositsOf(log, a, n))
    BY <1>3, PositionsFinite
  <1>6. QED
    BY <1>4, <1>5, TotalNat DEF Deposited

\* Later nonces hold no less.
LEMMA DepositedMonotone ==
    ASSUME NEW log \in Seq(Deposits), NEW a, NEW m \in 0..Len(log), NEW n \in 0..m
    PROVE  Deposited(log, a, n) <= Deposited(log, a, m)
  <1>1. DepositsOf(log, a, n) \subseteq DepositsOf(log, a, m)
    BY LenProperties DEF DepositsOf
  <1>2. QED
    BY <1>1, DepositedTypes, TotalMonotone DEF Deposited

\* A new deposit leaves the older ones alone ...
LEMMA DepositedSame ==
    ASSUME NEW log \in Seq(Deposits), NEW leaf \in Deposits, NEW a, NEW n \in 0..Len(log)
    PROVE  Deposited(Append(log, leaf), a, n) = Deposited(log, a, n)
  <1> DEFINE new == Append(log, leaf)
             S == DepositsOf(log, a, n)
  <1>1. \A i \in 1..n : new[i] = log[i]
    <2>1. \A i \in 1..n : i \in 1..Len(log)
      BY LenProperties
    <2>2. QED
      BY <2>1, AppendProperties
  <1> HIDE DEF new
  <1>2. DepositsOf(new, a, n) = S /\ \A i \in S : new[i] = log[i]
    BY <1>1 DEF DepositsOf
  <1> HIDE DEF S
  <1>3. TotalAt(new, S) = TotalAt(log, S)
    BY <1>2, TotalSame
  <1>4. QED
    BY <1>2, <1>3 DEF Deposited, new, S

\* ... and adds its amount to its asset.
LEMMA DepositedAdds ==
    ASSUME NEW log \in Seq(Deposits), NEW leaf \in Deposits, NEW a
    PROVE  Deposited(Append(log, leaf), a, Len(log) + 1)
               = Deposited(log, a, Len(log)) + (IF a = leaf.token THEN leaf.amount ELSE 0)
  <1> DEFINE n == Len(log)
             k == n + 1
             new == Append(log, leaf)
             S == DepositsOf(new, a, n)
  <1>1. /\ n \in Nat /\ n \in 0..n /\ new \in Seq(Deposits) /\ Len(new) = k /\ new[k] = leaf
        /\ n \in 0..k
    BY LenProperties, AppendProperties
  <1>2. Deposited(log, a, n) = Deposited(new, a, n)
    BY <1>1, DepositedSame
  <1>3. leaf.amount \in Nat
    BY DEF Deposits
  <1> HIDE DEF n, new
  <1>4. DepositsOf(new, a, k) = S \cup (IF a = leaf.token THEN {k} ELSE {})
    <2>1. 1..k = (1..n) \cup {k} /\ k \notin 1..n
      BY <1>1
    <2>2. QED
      BY <1>1, <2>1 DEF DepositsOf
  <1>5. /\ IsFiniteSet(S) /\ \A i \in S : new[i].amount \in Nat
        /\ Deposited(new, a, n) \in Nat
    BY <1>1, DepositedTypes
  <1>6. k \notin S
    BY <1>1 DEF DepositsOf
  <1> HIDE DEF S, k
  <1>7. TotalAt(new, S \cup {k}) = TotalAt(new, S) + leaf.amount
    BY <1>1, <1>3, <1>5, <1>6, TotalAdds
  <1>8. Deposited(new, a, k)
            = Deposited(new, a, n) + (IF a = leaf.token THEN leaf.amount ELSE 0)
    <2>1. CASE a = leaf.token
      BY <1>4, <1>7, <2>1 DEF Deposited, S
    <2>2. CASE a # leaf.token
      BY <1>4, <1>5, <2>2 DEF Deposited, S
    <2>3. QED
      BY <2>1, <2>2
  <1>9. QED
    BY <1>2, <1>8 DEF n, k, new

\* Positions of withdrawals, and the amounts there.
LEMMA WithdrawnTypes ==
    ASSUME NEW log \in Seq(InnerAction), NEW a
    PROVE  /\ WithdrawalsOf(a, log) \subseteq 1..Len(log)
           /\ IsFiniteSet(WithdrawalsOf(a, log))
           /\ \A i \in WithdrawalsOf(a, log) : log[i].amount \in Nat
  <1>1. WithdrawalsOf(a, log) \subseteq 1..Len(log) /\ Len(log) \in Nat
    BY LenProperties DEF WithdrawalsOf
  <1>2. \A act \in InnerAction : act.kind = "withdrawal" => act.amount \in Nat
    BY DEF InnerAction, RawAction
  <1>3. \A i \in 1..Len(log) : log[i] \in InnerAction
    BY ElementOfSeq
  <1>4. \A i \in WithdrawalsOf(a, log) : log[i].amount \in Nat
    BY <1>1, <1>2, <1>3 DEF WithdrawalsOf
  <1>5. QED
    BY <1>1, <1>4, PositionsFinite

LEMMA WithdrawnNat ==
    ASSUME NEW log \in Seq(InnerAction), NEW a
    PROVE  /\ Withdrawn(a, log) = TotalAt(log, WithdrawalsOf(a, log))
           /\ Withdrawn(a, log) \in Nat
  BY WithdrawnTypes, TotalNat DEF Withdrawn, TotalAt

LEMMA CreditedNat ==
    ASSUME TypeInv, NEW consumed \in DOMAIN outerActionStateInfo, NEW a
    PROVE  Credited(a, consumed) \in Nat
  <1> DEFINE S == CreditsOf(a, consumed)
             f == [i \in S |-> consumed[i].deposit.amount]
  <1>1. consumed \in Seq(OuterActions) /\ Len(consumed) \in Nat
    BY LenProperties DEF TypeInv, TypeOK, SettlementTypeOK
  <1>2. S \subseteq 1..Len(consumed)
    BY <1>1 DEF CreditsOf
  <1>3. \A act \in OuterActions : act.kind = "witness" => act.deposit.amount \in Nat
    BY DEF OuterActions, Deposits
  <1>4. \A i \in S : consumed[i] \in OuterActions /\ consumed[i].kind = "witness"
    BY <1>1, <1>2, ElementOfSeq DEF CreditsOf
  <1>5. \A i \in S : f[i] \in Nat
    BY <1>3, <1>4
  <1>6. IsFiniteSet(S)
    BY <1>1, <1>2, PositionsFinite
  <1>7. Credited(a, consumed) = SumFunctionOnSet(f, S)
    <2>1. DOMAIN f = S
      OBVIOUS
    <2>2. Credited(a, consumed) = SumFunctionOnSet(f, DOMAIN f)
      BY DEF Credited, SumFunction, SumFunctionOnSet, FoldFunction
    <2>3. QED
      BY <2>1, <2>2
  <1> HIDE DEF f, S
  <1>8. QED
    BY <1>5, <1>6, <1>7, SumNat

-----------------------------------------------------------------------------
(* The invariant: the liability of an asset is what was deposited less     *)
(* what was claimed, and the L2 has withdrawn no more of an asset than was *)
(* bridged to it.                                                          *)

PaidOf(asset) == WithdrawalsOf(asset, outerState.innerActionState) \cap LedgerPaid

LiabilityExact ==
    \A a \in Assets :
        Liability(a)
            + EthereumAmount(a, TotalAt(outerState.innerActionState, PaidOf(a)))
        = EthereumAmount(a, Deposited(currentDepositState, a, depositNonce))

WithdrawnCovered ==
    \A a \in Assets :
        Withdrawn(a, outerState.innerActionState)
            <= Deposited(currentDepositState, a, bridgedDepositNonce)

\* All the parts of the inductive invariant.
ContractsInv ==
    /\ TypeInv /\ CheckpointsArePrefixes /\ DepositInv
    /\ BatchInv /\ ClaimInv
    /\ LiabilityExact /\ WithdrawnCovered

LEMMA InitLedger == Init => LiabilityExact /\ WithdrawnCovered
  <1> SUFFICES ASSUME Init, NEW a \in Assets
               PROVE  /\ Liability(a) + EthereumAmount(a,
                              TotalAt(outerState.innerActionState, PaidOf(a)))
                          = EthereumAmount(a, Deposited(currentDepositState, a, depositNonce))
                      /\ Withdrawn(a, outerState.innerActionState)
                          <= Deposited(currentDepositState, a, bridgedDepositNonce)
    BY DEF LiabilityExact, WithdrawnCovered
  <1>1. /\ outerState.innerActionState = << >> /\ currentDepositState = << >>
        /\ depositNonce = 0 /\ bridgedDepositNonce = 0 /\ Liability(a) = 0
    BY DEF Init, SettlementInit, InitialOuterState, BridgeInit, Liability, Assets
  <1>2. /\ WithdrawalsOf(a, << >>) = {} /\ PaidOf(a) = {}
        /\ DepositsOf(currentDepositState, a, 0) = {}
    BY <1>1 DEF WithdrawalsOf, PaidOf, DepositsOf
  <1>3. \A log : TotalAt(log, {}) = 0
    <2> SUFFICES ASSUME NEW log PROVE TotalAt(log, {}) = 0
      OBVIOUS
    <2>1. TotalAt(log, {}) = SumFunctionOnSet([i \in {} |-> log[i].amount], {})
      BY TotalIsSum, FS_EmptySet
    <2>2. QED
      BY <2>1, FS_EmptySet, SumUnfolds
  <1>4. Withdrawn(a, << >>) = TotalAt(<< >>, {})
    BY <1>2 DEF Withdrawn, TotalAt
  <1>5. EthereumAmount(a, 0) = 0
    BY GuestAssumption DEF EthereumAmount
  <1>6. TotalAt(outerState.innerActionState, PaidOf(a)) = 0
    BY <1>2, <1>3
  <1>7. /\ Deposited(currentDepositState, a, depositNonce) = 0
        /\ Deposited(currentDepositState, a, bridgedDepositNonce) = 0
    BY <1>1, <1>2, <1>3 DEF Deposited
  <1>8. Withdrawn(a, outerState.innerActionState) = 0
    BY <1>1, <1>3, <1>4
  <1>9. QED
    BY <1>1, <1>5, <1>6, <1>7, <1>8

\* Whatever checkpoint a commit consumed, its deposits were bridged, each once.
LEMMA CreditedBridged ==
    ASSUME TypeInv, CheckpointsArePrefixes, DepositInv,
           NEW consumed \in DOMAIN outerActionStateInfo, NEW a
    PROVE  Credited(a, consumed) <= Deposited(currentDepositState, a, bridgedDepositNonce)
  <1> DEFINE leaves == currentDepositState
             n == bridgedDepositNonce
             S == CreditsOf(a, consumed)
             T == DepositsOf(leaves, a, n)
             f == [i \in S |-> consumed[i].deposit.amount]
             g == [i \in T |-> leaves[i].amount]
             m == [i \in S |-> consumed[i].deposit.nonce]
  <1>1. /\ leaves \in Seq(Deposits) /\ n \in 0..Len(leaves)
        /\ actionState \in Seq(OuterActions) /\ consumed \in Seq(OuterActions)
        /\ IsPrefix(consumed, actionState)
    BY DEF TypeInv, TypeOK, SettlementTypeOK, BridgeTypeOK, Accounts, DepositInv,
           DepositsBridgedOnce, CheckpointsArePrefixes
  <1>2. \A i \in DOMAIN consumed : i \in DOMAIN actionState /\ consumed[i] = actionState[i]
    BY <1>1, PrefixAgrees
  <1>3. \A i \in S : /\ i \in Witnesses(actionState) /\ consumed[i] = actionState[i]
                     /\ consumed[i].deposit.token = a
    BY <1>2 DEF CreditsOf, Witnesses
  <1>4. \A i \in S : /\ consumed[i].deposit.nonce \in 1..n
                     /\ consumed[i].deposit = leaves[consumed[i].deposit.nonce]
    BY <1>3 DEF DepositInv, DepositsBridgedOnce
  <1>5. \A i \in S : m[i] \in T /\ f[i] = g[m[i]]
    BY <1>3, <1>4 DEF DepositsOf
  <1>6. IsFiniteSet(T) /\ \A i \in T : g[i] \in Nat
    BY <1>1, DepositedTypes
  <1>7. \A i, j \in S : m[i] = m[j] => i = j
    <2> SUFFICES ASSUME NEW i \in S, NEW j \in S, i # j PROVE m[i] # m[j]
      OBVIOUS
    <2>1. i \in Nat /\ j \in Nat
      BY <1>1 DEF CreditsOf
    <2>2. actionState[i].deposit.nonce \in Nat /\ actionState[j].deposit.nonce \in Nat
      BY <1>1, <1>3, <1>4
    <2>3. i < j \/ j < i
      BY <2>1
    <2>4. actionState[i].deposit.nonce < actionState[j].deposit.nonce
          \/ actionState[j].deposit.nonce < actionState[i].deposit.nonce
      BY <1>3, <2>3 DEF DepositInv, DepositsBridgedOnce
    <2>5. QED
      BY <1>3, <2>2, <2>4
  <1>8. IsFiniteSet(S)
    <2>1. S \subseteq 1..Len(consumed) /\ Len(consumed) \in Nat
      BY <1>1, LenProperties DEF CreditsOf
    <2>2. QED
      BY <2>1, PositionsFinite
  <1>9. /\ Credited(a, consumed) = SumFunctionOnSet(f, S)
        /\ Deposited(leaves, a, n) = SumFunctionOnSet(g, T)
    <2>1. DOMAIN f = S /\ DOMAIN g = T
      OBVIOUS
    <2>2. /\ Credited(a, consumed) = SumFunctionOnSet(f, DOMAIN f)
          /\ Deposited(leaves, a, n) = SumFunctionOnSet(g, DOMAIN g)
      BY DEF Credited, Deposited, TotalAt, SumFunction, SumFunctionOnSet, FoldFunction
    <2>3. QED
      BY <2>1, <2>2
  <1> HIDE DEF leaves, n, S, T, f, g, m
  <1>10. \A i \in S : f[i] \in Nat /\ f[i] <= g[m[i]]
    BY <1>5, <1>6
  <1>11. SumFunctionOnSet(f, S) <= SumFunctionOnSet(g, T)
    BY <1>5, <1>6, <1>7, <1>8, <1>10, SumInjects
  <1>12. QED
    BY <1>9, <1>11 DEF leaves, n

LEMMA NextWithdrawn ==
    ASSUME TypeInv, CheckpointsArePrefixes, DepositInv, WithdrawnCovered, [Next]_vars
    PROVE  WithdrawnCovered'
  <1>1. /\ currentDepositState \in Seq(Deposits)
        /\ Len(currentDepositState) = depositNonce /\ depositNonce \in Nat
        /\ bridgedDepositNonce \in 0..depositNonce
    BY DEF TypeInv, TypeOK, BridgeTypeOK, Accounts, DepositInv, DepositsBridgedOnce
  <1>2. CASE Settle
    <2>1. PICK actions \in Seq(InnerAction), bridge \in Addresses, slotUpper \in Nat :
               \E consumed : InnerLogGrows(actions, bridge, slotUpper, consumed)
      BY <1>2, SettleInner
    <2>2. PICK consumed \in DOMAIN outerActionStateInfo :
               L2Sound(consumed, outerState'.innerActionState)
      BY <2>1 DEF InnerLogGrows
    <2>3. UNCHANGED <<currentDepositState, bridgedDepositNonce>>
      BY <1>2 DEF Settle, bridgeVars
    <2>4. ASSUME NEW a \in Assets
          PROVE  Withdrawn(a, outerState'.innerActionState)
                     <= Deposited(currentDepositState, a, bridgedDepositNonce)
      <3> DEFINE w == Withdrawn(a, outerState'.innerActionState)
                 c == Credited(a, consumed)
                 d == Deposited(currentDepositState, a, bridgedDepositNonce)
      <3>1. w <= c /\ c <= d
        BY <2>2, CreditedBridged DEF L2Sound
      <3>2. w \in Nat /\ d \in Nat
        <4>1. outerState'.innerActionState \in Seq(InnerAction)
          BY NextTypes DEF TypeInv, TypeOK, SettlementTypeOK, OuterStates
        <4>2. Withdrawn(a, outerState'.innerActionState) \in Nat
          BY <4>1, WithdrawnNat
        <4>3. QED
          BY <1>1, <4>2, DepositedTypes
      <3>3. c \in Nat
        BY CreditedNat
      <3> HIDE DEF w, c, d
      <3>4. w <= d
        BY <3>1, <3>2, <3>3
      <3>5. QED
        BY <3>4 DEF w, d
    <2>5. QED
      BY <2>3, <2>4 DEF WithdrawnCovered
  <1>3. CASE ~Settle /\ BridgeDeposits
    <2>1. UNCHANGED outerState
      BY <1>3, InnerFrame DEF innerVars
    <2>2. PICK data, leaves : BatchShape(data, leaves) /\ SubmitBridgeTransition(data)
      BY <1>3, BridgeBatch
    <2>3. bridgedDepositNonce' = depositNonce /\ UNCHANGED currentDepositState
      BY <2>2, BatchLeaves DEF SubmitBridgeTransition, depositVars
    <2>4. ASSUME NEW a \in Assets
          PROVE  Withdrawn(a, outerState.innerActionState)
                     <= Deposited(currentDepositState, a, depositNonce)
      <3> DEFINE w == Withdrawn(a, outerState.innerActionState)
                 c == Deposited(currentDepositState, a, bridgedDepositNonce)
                 d == Deposited(currentDepositState, a, depositNonce)
      <3>1. depositNonce \in 0..depositNonce
        BY <1>1
      <3>2. w <= c /\ c <= d
        BY <1>1, <3>1, DepositedMonotone DEF WithdrawnCovered
      <3>3. outerState.innerActionState \in Seq(InnerAction)
        BY DEF TypeInv, TypeOK, SettlementTypeOK, OuterStates
      <3>4. w \in Nat /\ c \in Nat /\ d \in Nat
        BY <1>1, <3>1, <3>3, WithdrawnNat, DepositedTypes
      <3> HIDE DEF w, c, d
      <3>5. w <= d
        BY <3>2, <3>4
      <3>6. QED
        BY <3>5 DEF w, d
    <2>5. QED
      BY <2>1, <2>3, <2>4 DEF WithdrawnCovered
  <1>4. CASE ~Settle /\ ~BridgeDeposits /\ Deposit
    <2>1. UNCHANGED <<outerState, bridgedDepositNonce>>
      BY <1>4, InnerFrame
      DEF innerVars, Deposit, DepositETH, SubmitDeposit, transitionVars
    <2>2. PICK leaf \in Deposits : currentDepositState' = Append(currentDepositState, leaf)
      BY <1>4, DepositEffect
    <2>3. \A a : Deposited(currentDepositState', a, bridgedDepositNonce)
                    = Deposited(currentDepositState, a, bridgedDepositNonce)
      BY <1>1, <2>2, DepositedSame
    <2>4. QED
      BY <2>1, <2>3 DEF WithdrawnCovered
  <1>5. CASE ~Settle /\ ~BridgeDeposits /\ ~Deposit
    <2>1. UNCHANGED <<outerState, currentDepositState, bridgedDepositNonce>>
      BY <1>5, InnerFrame, DepositFrame DEF innerVars, depositLogVars
    <2>2. QED
      BY <2>1 DEF WithdrawnCovered
  <1>6. QED
    BY <1>2, <1>3, <1>4, <1>5
-----------------------------------------------------------------------------
(* The liability.                                                          *)

\* Only deposits and claims write the liabilities.
LEMMA LiabilityFrame ==
    ASSUME [Next]_vars, ~Deposit, ~Claim
    PROVE  UNCHANGED <<nativeEscrowLiability, escrowLiabilityByToken>>
  <1>1. CASE Settle \/ Tick
    BY <1>1 DEF Settle, Tick, bridgeVars
  <1>2. CASE BridgeDeposits
    BY <1>2 DEF BridgeDeposits, BridgeRange, SubmitBridgeTransition, custodyVars
  <1>3. CASE Gift
    BY <1>3 DEF Gift, Donate
  <1>4. CASE Administer
    BY <1>4 DEF Administer, Pause, Unpause, SetPaused, SetWithdrawalDelaySlots,
                EmergencyWithdrawToken, bridgeVars, custodyVars
  <1>5. CASE Register
    BY <1>5 DEF Register, ProposeAsset, CancelLastPendingAsset, ActivateAsset,
                ActivateAssetFromBatch, Activate, SetAssetStatus, custodyUnchanged,
                custodyVars
  <1>6. CASE UNCHANGED vars
    BY <1>6 DEF vars, bridgeVars
  <1>7. QED
    BY <1>1, <1>2, <1>3, <1>4, <1>5, <1>6 DEF Next

\* What a claim does to the ledger: it pays one withdrawal not paid before.
ClaimPaysAt(p, action) ==
    /\ p \in DOMAIN outerState.innerActionState \ LedgerPaid
    /\ outerState.innerActionState[p] = action
    /\ action.kind = "withdrawal" /\ action.token \in Assets /\ action.amount \in Nat
    /\ LedgerPaid' = LedgerPaid \cup {p}
    /\ EthereumAmount(action.token, action.amount) <= Liability(action.token)
    /\ \A a \in Assets :
           Liability(a)' = IF a = action.token
                           THEN Liability(a) - EthereumAmount(action.token, action.amount)
                           ELSE Liability(a)

LEMMA ClaimPays ==
    ASSUME TypeInv, BatchInv, ClaimInv, Claim
    PROVE  /\ \E p, action : ClaimPaysAt(p, action)
           /\ UNCHANGED <<outerState, depositNonce, currentDepositState,
                          bridgedDepositNonce>>
  <1>1. PICK sequence \in DOMAIN innerActionBatch, offset \in Nat, action \in InnerAction :
             ClaimShape(sequence, offset, action)
    BY ClaimEffect
  <1> DEFINE index == innerActionBatch[sequence].startIndex + offset
             new == Claimed(sequence, index, action)
             n == Len(claims)
             p == Position(index)
  <1>2. /\ index \in Nat /\ p \in DOMAIN outerState.innerActionState
        /\ outerState.innerActionState[p] = action
    BY <1>1, ClaimedPosition DEF ClaimShape
  <1>3. claims' = Append(claims, new)
    BY <1>1 DEF ClaimShape
  <1>4. new.index = index
    BY DEF Claimed
  <1>5. /\ DOMAIN claims = 1..n /\ DOMAIN claims' = 1..(n + 1) /\ n \in Nat
        /\ \A i \in 1..n : claims'[i] = claims[i] /\ claims[i].index \in Nat
        /\ claims'[n + 1] = new
    <2> DEFINE Claims == [sequence : Nat, index : Nat, token : Assets,
                          recipient : Recipients, amount : Nat, slot : Nat]
    <2>1. claims \in Seq(Claims) /\ claims' \in Seq(Claims) /\ n \in Nat
      <3>1. TypeInv'
        BY NextTypes DEF Next
      <3>2. QED
        BY <3>1, LenProperties DEF TypeInv, TypeOK, BridgeTypeOK
    <2>2. new \in Claims
      <3>1. claims'[n + 1] = new /\ n + 1 \in 1..Len(claims')
        BY <1>3, <2>1, AppendProperties
      <3> HIDE DEF new, Claims
      <3>2. claims'[n + 1] \in Claims
        BY <2>1, <3>1, ElementOfSeq
      <3>3. QED
        BY <3>1, <3>2
    <2>3. \A i \in 1..n : claims[i] \in Claims
      BY <2>1, ElementOfSeq
    <2>4. \A i \in 1..n : claims[i].index \in Nat
      BY <2>3
    <2> HIDE DEF new, Claims
    <2>5. QED
      BY <1>3, <2>1, <2>2, <2>4, AppendProperties, LenProperties
  <1> HIDE DEF new, n, index
  <1>6. \A i \in 1..n : claims[i].index # index
    <2>1. ClaimedOnce'
      BY ClaimClaims DEF ClaimInv
    <2>2. ASSUME NEW i \in 1..n PROVE claims[i].index # index
      <3>1. i \in 1..(n + 1) /\ n + 1 \in 1..(n + 1) /\ i # n + 1
        BY <1>5
      <3>2. claims'[i].index # claims'[n + 1].index
        BY <1>5, <2>1, <3>1 DEF ClaimedOnce
      <3>3. QED
        BY <1>4, <1>5, <3>2
    <2>3. QED
      BY <2>2
  <1>7. p \notin LedgerPaid
    <2>1. \A i \in 1..n : claims[i].index - InitialInnerLength + 1 # p
      <3>1. \A j, k, m \in Nat : j # k => j - m + 1 # k - m + 1
        OBVIOUS
      <3>2. QED
        BY <1>2, <1>5, <1>6, <3>1, SettlementAssumption DEF Position
    <2>2. QED
      BY <1>5, <2>1 DEF LedgerPaid
  <1>8. LedgerPaid' = LedgerPaid \cup {p}
    <2>1. 1..(n + 1) = (1..n) \cup {n + 1}
      BY <1>5
    <2>2. claims'[n + 1].index - InitialInnerLength + 1 = p
      BY <1>4, <1>5 DEF Position
    <2>3. QED
      BY <1>5, <2>1, <2>2 DEF LedgerPaid
  <1>9. ClaimPaysAt(p, action)
    BY <1>1, <1>2, <1>7, <1>8 DEF ClaimShape, ClaimPaysAt
  <1>10. UNCHANGED <<outerState, depositNonce, currentDepositState, bridgedDepositNonce>>
    BY ClaimEffect DEF settlementVars, depositVars, transitionVars
  <1>11. QED
    BY <1>9, <1>10
\* The amounts that were paid are a natural number.
LEMMA PaidTypes ==
    ASSUME TypeInv, NEW a
    PROVE  /\ IsFiniteSet(PaidOf(a))
           /\ \A i \in PaidOf(a) : outerState.innerActionState[i].amount \in Nat
           /\ TotalAt(outerState.innerActionState, PaidOf(a)) \in Nat
  <1> DEFINE inner == outerState.innerActionState
  <1>1. inner \in Seq(InnerAction)
    BY DEF TypeInv, TypeOK, SettlementTypeOK, OuterStates
  <1>2. IsFiniteSet(PaidOf(a)) /\ PaidOf(a) \subseteq WithdrawalsOf(a, inner)
    BY <1>1, WithdrawnTypes, FS_Subset DEF PaidOf
  <1>3. \A i \in PaidOf(a) : inner[i].amount \in Nat
    BY <1>1, <1>2, WithdrawnTypes
  <1>4. QED
    BY <1>2, <1>3, TotalNat

LEMMA ClaimLiability ==
    ASSUME TypeInv, BatchInv, ClaimInv, LiabilityExact, Claim
    PROVE  LiabilityExact'
  <1> DEFINE inner == outerState.innerActionState
  <1>1. PICK p, action : ClaimPaysAt(p, action)
    BY ClaimPays
  <1>2. UNCHANGED <<outerState, depositNonce, currentDepositState>>
    BY ClaimPays
  <1>3. ASSUME NEW a \in Assets
        PROVE  Liability(a)' + EthereumAmount(a, TotalAt(inner, PaidOf(a)'))
                   = EthereumAmount(a, Deposited(currentDepositState, a, depositNonce))
    <2> DEFINE paid == TotalAt(inner, PaidOf(a))
               total == EthereumAmount(a, Deposited(currentDepositState, a, depositNonce))
    <2>1. Liability(a) + EthereumAmount(a, paid) = total
      BY DEF LiabilityExact
    <2>2. paid \in Nat /\ IsFiniteSet(PaidOf(a))
          /\ \A i \in PaidOf(a) : inner[i].amount \in Nat
      BY PaidTypes
    <2>3. PaidOf(a)' = WithdrawalsOf(a, inner) \cap LedgerPaid'
      BY <1>2 DEF PaidOf
    <2>4. /\ p \in DOMAIN inner /\ p \notin LedgerPaid /\ inner[p] = action
          /\ action.kind = "withdrawal" /\ action.amount \in Nat
          /\ LedgerPaid' = LedgerPaid \cup {p}
      BY <1>1 DEF ClaimPaysAt
    <2>5. CASE a = action.token
      <3>1. p \in WithdrawalsOf(a, inner) /\ p \notin PaidOf(a)
        BY <2>4, <2>5 DEF WithdrawalsOf, PaidOf
      <3>2. PaidOf(a)' = PaidOf(a) \cup {p}
        BY <2>3, <2>4, <3>1 DEF PaidOf
      <3> DEFINE S == PaidOf(a)
      <3> HIDE DEF S
      <3>3. TotalAt(inner, S \cup {p}) = TotalAt(inner, S) + inner[p].amount
        BY <2>2, <2>4, <3>1, TotalAdds DEF S
      <3>4. TotalAt(inner, PaidOf(a)') = paid + action.amount
        BY <2>4, <3>2, <3>3 DEF S
      <3>5. EthereumAmount(a, paid + action.amount)
                = EthereumAmount(a, paid) + EthereumAmount(a, action.amount)
        BY <2>2, <2>4, ConversionLinear
      <3>6. /\ Liability(a)' = Liability(a) - EthereumAmount(a, action.amount)
            /\ Liability(a) \in Nat
        <4>1. Liability(a) \in Nat
          BY DEF TypeInv, TypeOK, BridgeTypeOK, Liability, Assets
        <4>2. QED
          BY <1>1, <2>5, <4>1 DEF ClaimPaysAt
      <3>7. /\ EthereumAmount(a, paid) \in Nat /\ EthereumAmount(a, action.amount) \in Nat
        BY <2>2, <2>4, ConversionLinear
      <3>8. \A l, x, y \in Nat : l - y + (x + y) = l + x
        OBVIOUS
      <3> HIDE DEF paid, total
      <3>9. Liability(a)' + EthereumAmount(a, paid + action.amount) = total
        BY <2>1, <3>5, <3>6, <3>7, <3>8
      <3>10. QED
        BY <3>4, <3>9 DEF total
    <2>6. CASE a # action.token
      <3>1. PaidOf(a)' = PaidOf(a)
        BY <2>3, <2>4, <2>6 DEF PaidOf, WithdrawalsOf
      <3>2. Liability(a)' = Liability(a)
        BY <1>1, <2>6 DEF ClaimPaysAt
      <3>3. QED
        BY <2>1, <3>1, <3>2
    <2>7. QED
      BY <2>5, <2>6
  <1>4. QED
    BY <1>2, <1>3 DEF LiabilityExact

LEMMA DepositLiability ==
    ASSUME TypeInv, LiabilityExact, Deposit
    PROVE  LiabilityExact'
  <1> DEFINE inner == outerState.innerActionState
  <1>1. PICK leaf \in Deposits :
             /\ depositNonce' = depositNonce + 1
             /\ currentDepositState' = Append(currentDepositState, leaf)
             /\ \A a \in Assets :
                    Liability(a)' = IF a = leaf.token
                                    THEN Liability(a) + EthereumAmount(a, leaf.amount)
                                    ELSE Liability(a)
    BY DepositEffect
  <1>2. UNCHANGED <<outerState, claims>>
    BY DEF Deposit, DepositETH, SubmitDeposit, settlementVars, withdrawalVars
  <1>3. /\ currentDepositState \in Seq(Deposits)
        /\ Len(currentDepositState) = depositNonce /\ depositNonce \in 0..depositNonce
        /\ leaf.amount \in Nat
    BY DEF TypeInv, TypeOK, BridgeTypeOK, Accounts, Deposits
  <1>4. ASSUME NEW a \in Assets
        PROVE  Liability(a)' + EthereumAmount(a, TotalAt(inner, PaidOf(a)))
                   = EthereumAmount(a,
                         Deposited(currentDepositState', a, depositNonce + 1))
    <2> DEFINE paid == EthereumAmount(a, TotalAt(inner, PaidOf(a)))
               before == Deposited(currentDepositState, a, depositNonce)
               after == Deposited(currentDepositState', a, depositNonce + 1)
    <2>1. Liability(a) + paid = EthereumAmount(a, before)
      BY DEF LiabilityExact
    <2>2. after = before + (IF a = leaf.token THEN leaf.amount ELSE 0)
      BY <1>1, <1>3, DepositedAdds
    <2>3. before \in Nat
      BY <1>3, DepositedTypes
    <2>4. paid \in Nat /\ EthereumAmount(a, leaf.amount) \in Nat
          /\ EthereumAmount(a, before) \in Nat
      BY <1>3, <2>3, PaidTypes, ConversionLinear
    <2>5. Liability(a) \in Nat
      BY DEF TypeInv, TypeOK, BridgeTypeOK, Liability, Assets
    <2>6. EthereumAmount(a, before + leaf.amount)
              = EthereumAmount(a, before) + EthereumAmount(a, leaf.amount)
      BY <1>3, <2>3, ConversionLinear
    <2> HIDE DEF paid, before, after
    <2>7. CASE a = leaf.token
      <3>1. \A l, x, y \in Nat : (l + x) + y = (l + y) + x
        OBVIOUS
      <3>2. Liability(a)' = Liability(a) + EthereumAmount(a, leaf.amount)
        BY <1>1, <2>7
      <3>3. EthereumAmount(a, after)
                = EthereumAmount(a, before) + EthereumAmount(a, leaf.amount)
        BY <2>2, <2>6, <2>7
      <3>4. Liability(a)' + paid = EthereumAmount(a, after)
        BY <2>1, <2>4, <2>5, <3>1, <3>2, <3>3
      <3>5. QED
        BY <3>4 DEF paid, after
    <2>8. CASE a # leaf.token
      <3>1. Liability(a)' = Liability(a) /\ after = before
        BY <1>1, <2>2, <2>3, <2>8
      <3>2. Liability(a)' + paid = EthereumAmount(a, after)
        BY <2>1, <3>1
      <3>3. QED
        BY <3>2 DEF paid, after
    <2>9. QED
      BY <2>7, <2>8
  <1>5. \A a : PaidOf(a)' = PaidOf(a)
    BY <1>2 DEF PaidOf, LedgerPaid
  <1>6. QED
    BY <1>1, <1>2, <1>4, <1>5 DEF LiabilityExact

\* New inner actions leave what was paid alone.
LEMMA SettleLiability ==
    ASSUME TypeInv, ClaimInv, LiabilityExact, Settle
    PROVE  LiabilityExact'
  <1> DEFINE inner == outerState.innerActionState
             after == outerState'.innerActionState
  <1>1. PICK actions \in Seq(InnerAction), bridge \in Addresses, slotUpper \in Nat :
             \E consumed : InnerLogGrows(actions, bridge, slotUpper, consumed)
    BY SettleInner
  <1>2. after = inner \o actions /\ inner \in Seq(InnerAction)
    BY <1>1 DEF InnerLogGrows, TypeInv, TypeOK, SettlementTypeOK, OuterStates
  <1>3. \A p \in DOMAIN inner : p \in DOMAIN after /\ after[p] = inner[p]
    <2>1. /\ DOMAIN inner = 1..Len(inner) /\ DOMAIN after = 1..(Len(inner) + Len(actions))
          /\ Len(inner) \in Nat /\ Len(actions) \in Nat
          /\ \A p \in 1..Len(inner) : after[p] = inner[p]
      BY <1>2, LenProperties, ConcatProperties
    <2>2. \A p \in 1..Len(inner) : p \in 1..(Len(inner) + Len(actions))
      BY <2>1
    <2>3. QED
      BY <2>1, <2>2
  <1>4. UNCHANGED <<claims, depositNonce, currentDepositState, nativeEscrowLiability,
                    escrowLiabilityByToken>>
    BY DEF Settle, bridgeVars
  <1>5. LedgerPaid \subseteq DOMAIN inner /\ LedgerPaid' = LedgerPaid
    BY <1>4 DEF LedgerPaid, ClaimInv, ClaimsMatchInnerLog
  <1> HIDE DEF inner, after
  <1>6. ASSUME NEW a \in Assets
        PROVE  /\ TotalAt(after, PaidOf(a)') = TotalAt(inner, PaidOf(a))
               /\ Liability(a)' = Liability(a)
    <2>1. PaidOf(a)' = PaidOf(a)
      <3>1. PaidOf(a)' = WithdrawalsOf(a, after) \cap LedgerPaid'
        BY DEF PaidOf, after
      <3>2. PaidOf(a) = WithdrawalsOf(a, inner) \cap LedgerPaid
        BY DEF PaidOf, inner
      <3>3. QED
        BY <1>3, <1>5, <3>1, <3>2 DEF WithdrawalsOf
    <2>2. \A i \in PaidOf(a) : after[i] = inner[i]
      BY <1>3, <1>5 DEF PaidOf
    <2>3. QED
      BY <1>4, <2>1, <2>2, TotalSame DEF Liability
  <1>7. QED
    BY <1>4, <1>6 DEF LiabilityExact, inner, after

LEMMA NextLiability ==
    ASSUME TypeInv, BatchInv, ClaimInv, LiabilityExact, [Next]_vars
    PROVE  LiabilityExact'
  <1>1. CASE ~Claim /\ ~Deposit /\ ~Settle
    <2>1. UNCHANGED <<outerState, claims, nativeEscrowLiability, escrowLiabilityByToken>>
      BY <1>1, InnerFrame, ClaimFrame, LiabilityFrame DEF innerVars, withdrawalVars
    <2>2. UNCHANGED <<depositNonce, currentDepositState>>
      <3>1. CASE BridgeDeposits
        BY <3>1 DEF BridgeDeposits, BridgeRange, SubmitBridgeTransition, depositVars
      <3>2. CASE ~BridgeDeposits
        BY <1>1, <3>2, DepositFrame DEF depositLogVars
      <3>3. QED
        BY <3>1, <3>2
    <2>3. \A a \in Assets : PaidOf(a)' = PaidOf(a) /\ Liability(a)' = Liability(a)
      BY <2>1 DEF PaidOf, LedgerPaid, Liability
    <2>4. QED
      BY <2>1, <2>2, <2>3 DEF LiabilityExact
  <1>2. QED
    BY <1>1, ClaimLiability, DepositLiability, SettleLiability

LEMMA InitContracts == Init => ContractsInv
  BY InitTypes, InitCheckpoints, InitDeposits, InitBatches, InitClaims, InitLedger
  DEF ContractsInv

LEMMA NextContracts == ContractsInv /\ [Next]_vars => ContractsInv'
  <1> SUFFICES ASSUME ContractsInv, [Next]_vars PROVE ContractsInv'
    OBVIOUS
  <1>1. /\ TypeInv /\ CheckpointsArePrefixes /\ DepositInv /\ BatchInv /\ ClaimInv
        /\ LiabilityExact /\ WithdrawnCovered
    BY DEF ContractsInv
  <1>2. TypeInv' /\ CheckpointsArePrefixes' /\ DepositInv' /\ BatchInv' /\ ClaimInv'
    BY <1>1, NextTypes, NextCheckpoints, NextDeposits, NextBatches, NextClaims
  <1>3. LiabilityExact' /\ WithdrawnCovered'
    BY <1>1, NextLiability, NextWithdrawn
  <1>4. QED
    BY <1>2, <1>3 DEF ContractsInv
-----------------------------------------------------------------------------
(* Solvency.  A leaf that can still be claimed sits at a position of the   *)
(* inner log that was not paid, and different leaves at different ones.    *)

\* The position of the leaf c[2] of batch c[1].
LeafAt(c) == innerActionBatch[c[1]].startIndex - InitialInnerLength + c[2]

LEMMA CursorNat ==
    ASSUME TypeInv, NEW a \in Assets, NEW w \in Recipients
    PROVE  CursorAt(a, w) \in Nat
  <1>1. nextWithdrawalIndex[w] \in Nat
    BY DEF TypeInv, TypeOK, BridgeTypeOK
  <1>2. \A t \in Tokens : nextTokenWithdrawalIndex[t] \in [Recipients -> Nat]
    BY DEF TypeInv, TypeOK, BridgeTypeOK
  <1>3. \A t \in Tokens : nextTokenWithdrawalIndex[t][w] \in Nat
    BY <1>2
  <1>4. QED
    BY <1>1, <1>3 DEF CursorAt, Assets

LEMMA UnclaimedPosition ==
    ASSUME TypeInv, BatchInv, ClaimInv, NEW a \in Assets, NEW c \in Unclaimed(a)
    PROVE  /\ LeafAt(c) \in WithdrawalsOf(a, outerState.innerActionState) \ PaidOf(a)
           /\ innerActionBatch[c[1]].root[c[2]].action
                  = outerState.innerActionState[LeafAt(c)]
  <1> DEFINE inner == outerState.innerActionState
             b == innerActionBatch[c[1]]
             leaf == b.root[c[2]]
             p == LeafAt(c)
  <1>1. /\ c[1] \in DOMAIN innerActionBatch /\ c[2] \in 1..MaxUint32 /\ c[2] <= b.count
        /\ leaf.action.kind = "withdrawal" /\ leaf.action.token = a
        /\ leaf.index >= CursorAt(leaf.action.token, leaf.action.recipient)
    BY DEF Unclaimed, Cursor, CursorAt
  <1>2. /\ b.startIndex \in Nat /\ b.count \in Nat /\ MaxUint32 \in Nat
        /\ InitialInnerLength \in Nat /\ inner \in Seq(InnerAction)
    BY <1>1, SettlementAssumption
    DEF TypeInv, TypeOK, SettlementTypeOK, InnerBatches, OuterStates
  <1>3. c[2] \in 1..b.count
    BY <1>1, <1>2
  <1>4. /\ b.startIndex >= InitialInnerLength
        /\ b.startIndex + b.count <= outerState.innerActionLength
        /\ outerState.innerActionLength = InitialInnerLength + Len(inner)
        /\ leaf.action = inner[p]
        /\ leaf.index = b.startIndex + c[2] - 1
    BY <1>1, <1>3 DEF BatchInv, BatchesMatchInnerLog, BatchesNumbered, LeafAt
  <1>5. /\ p \in DOMAIN inner /\ p \in Nat
        /\ p = b.startIndex - InitialInnerLength + c[2]
    <2>1. DOMAIN inner = 1..Len(inner) /\ Len(inner) \in Nat
      BY <1>2, LenProperties
    <2> HIDE DEF b, inner
    <2>2. p = b.startIndex - InitialInnerLength + c[2]
      BY DEF LeafAt, b
    <2> HIDE DEF p
    <2>3. QED
      BY <1>2, <1>3, <1>4, <2>1, <2>2
  <1>6. p \in WithdrawalsOf(a, inner)
    BY <1>1, <1>4, <1>5 DEF WithdrawalsOf
  <1>7. p \notin LedgerPaid
    <2> SUFFICES ASSUME NEW j \in DOMAIN claims,
                        claims[j].index - InitialInnerLength + 1 = p
                 PROVE  FALSE
      BY DEF LedgerPaid
    <2>1. /\ claims[j].index \in Nat /\ claims[j].token \in Assets
          /\ claims[j].recipient \in Recipients
      <3> DEFINE Claims == [sequence : Nat, index : Nat, token : Assets,
                            recipient : Recipients, amount : Nat, slot : Nat]
      <3>1. claims \in Seq(Claims)
        BY DEF TypeInv, TypeOK, BridgeTypeOK
      <3>2. \A x \in Claims : x.index \in Nat /\ x.token \in Assets /\ x.recipient \in Recipients
        OBVIOUS
      <3> HIDE DEF Claims
      <3>3. claims[j] \in Claims
        BY <3>1, ElementOfSeq, LenProperties
      <3>4. QED
        BY <3>2, <3>3
    <2>2. inner[p].token = claims[j].token /\ inner[p].recipient = claims[j].recipient
      BY DEF ClaimInv, ClaimsMatchInnerLog
    <2>3. claims[j].index < CursorAt(leaf.action.token, leaf.action.recipient)
      BY <1>4, <2>2 DEF ClaimInv, CursorsPastClaims
    <2>4. CursorAt(leaf.action.token, leaf.action.recipient) \in Nat
      <3>1. CursorAt(claims[j].token, claims[j].recipient) \in Nat
        BY <2>1, CursorNat
      <3>2. QED
        BY <1>4, <2>2, <3>1
    <2>5. claims[j].index = leaf.index
      <3>1. \A i, n, s, k \in Nat : i - n + 1 = s - n + k => i = s + k - 1
        OBVIOUS
      <3>2. c[2] \in Nat /\ b.startIndex \in Nat /\ InitialInnerLength \in Nat
            /\ claims[j].index \in Nat
        BY <1>2, <1>3, <2>1
      <3>3. claims[j].index - InitialInnerLength + 1
                = b.startIndex - InitialInnerLength + c[2]
        BY <1>5
      <3> HIDE DEF p, b, leaf
      <3>4. claims[j].index = b.startIndex + c[2] - 1
        BY <3>1, <3>2, <3>3
      <3>5. QED
        BY <1>4, <3>4
    <2> HIDE DEF leaf
    <2>6. QED
      BY <1>1, <2>1, <2>3, <2>4, <2>5
  <1>8. QED
    BY <1>4, <1>6, <1>7 DEF PaidOf

LEMMA UnclaimedApart ==
    ASSUME TypeInv, BatchInv, NEW a \in Assets, NEW c \in Unclaimed(a), NEW d \in Unclaimed(a),
           LeafAt(c) = LeafAt(d)
    PROVE  c = d
  <1> DEFINE first(x) == innerActionBatch[x[1]].startIndex
             count(x) == innerActionBatch[x[1]].count
  <1>1. ASSUME NEW x \in Unclaimed(a)
        PROVE  /\ x[1] \in DOMAIN innerActionBatch /\ x[1] \in Nat
               /\ x[2] \in Nat /\ 1 <= x[2] /\ x[2] <= count(x)
               /\ first(x) \in Nat /\ count(x) \in Nat /\ x = <<x[1], x[2]>>
               /\ LeafAt(x) = first(x) - InitialInnerLength + x[2]
    <2>1. /\ x \in (DOMAIN innerActionBatch) \X (1..MaxUint32)
          /\ x[2] <= count(x)
      BY DEF Unclaimed
    <2>2. /\ x[1] \in DOMAIN innerActionBatch /\ x[2] \in 1..MaxUint32
          /\ x = <<x[1], x[2]>>
      BY <2>1
    <2>3. x[1] \in Nat
      BY <2>2 DEF TypeInv, TypeOK, SettlementTypeOK
    <2>4. first(x) \in Nat /\ count(x) \in Nat
      BY <2>2 DEF TypeInv, TypeOK, SettlementTypeOK, InnerBatches
    <2>5. x[2] \in Nat /\ 1 <= x[2]
      BY <2>2, SettlementAssumption
    <2>6. QED
      BY <2>1, <2>2, <2>3, <2>4, <2>5 DEF LeafAt
  <1>2. ASSUME NEW x \in Unclaimed(a), NEW y \in Unclaimed(a), x[1] < y[1]
        PROVE  first(x) + count(x) <= first(y)
    BY <1>1, <1>2 DEF BatchInv, BatchesMatchInnerLog
  <1>3. InitialInnerLength \in Nat
    BY SettlementAssumption
  <1> HIDE DEF first, count
  <1>4. ASSUME NEW x \in Unclaimed(a), NEW y \in Unclaimed(a), x[1] < y[1]
        PROVE  LeafAt(x) # LeafAt(y)
    <2>1. first(x) + x[2] < first(y) + y[2]
      BY <1>1, <1>2, <1>4
    <2>2. \A m, n, i, j, k \in Nat : m + i < n + j => m - k + i # n - k + j
      OBVIOUS
    <2>3. /\ first(x) \in Nat /\ first(y) \in Nat /\ x[2] \in Nat /\ y[2] \in Nat
          /\ LeafAt(x) = first(x) - InitialInnerLength + x[2]
          /\ LeafAt(y) = first(y) - InitialInnerLength + y[2]
      BY <1>1
    <2>4. first(x) - InitialInnerLength + x[2] # first(y) - InitialInnerLength + y[2]
      BY <1>3, <2>1, <2>2, <2>3
    <2>5. QED
      BY <2>3, <2>4
  <1>5. c[1] = d[1]
    BY <1>1, <1>4
  <1>6. c[2] = d[2]
    <2>1. first(c) = first(d)
      BY <1>5 DEF first
    <2>2. \A m, k, i, j \in Nat : m - k + i = m - k + j => i = j
      OBVIOUS
    <2>3. QED
      BY <1>1, <1>3, <2>1, <2>2
  <1>7. QED
    BY <1>1, <1>5, <1>6

LEMMA UnclaimedFinite ==
    ASSUME TypeInv, BatchInv, NEW a
    PROVE  IsFiniteSet(Unclaimed(a))
  <1>1. batchSequence \in Nat /\ MaxUint32 \in Nat
    BY SettlementAssumption DEF TypeInv, TypeOK, SettlementTypeOK
  <1>2. IsFiniteSet(1..batchSequence) /\ IsFiniteSet(1..MaxUint32)
    BY <1>1, FS_Interval
  <1>3. IsFiniteSet((1..batchSequence) \X (1..MaxUint32))
    BY <1>2, FS_Product
  <1>4. Unclaimed(a) \subseteq (1..batchSequence) \X (1..MaxUint32)
    <2>1. DOMAIN innerActionBatch \subseteq 1..batchSequence
      BY DEF BatchInv, BatchesNumbered
    <2>2. QED
      BY <2>1 DEF Unclaimed
  <1>5. QED
    BY <1>3, <1>4, FS_Subset
\* All the withdrawals of an asset that were settled and not paid are covered.
LEMMA UnpaidCovered ==
    ASSUME ContractsInv, NEW a \in Assets
    PROVE  LET inner == outerState.innerActionState
               unpaid == TotalAt(inner, WithdrawalsOf(a, inner) \ PaidOf(a))
           IN  unpaid \in Nat /\ EthereumAmount(a, unpaid) <= Liability(a)
  <1> DEFINE inner == outerState.innerActionState
             P == PaidOf(a)
             R == WithdrawalsOf(a, inner) \ P
             paid == TotalAt(inner, P)
             unpaid == TotalAt(inner, R)
             bridged == Deposited(currentDepositState, a, bridgedDepositNonce)
             total == Deposited(currentDepositState, a, depositNonce)
  <1>1. TypeInv /\ LiabilityExact /\ WithdrawnCovered /\ DepositInv
    BY DEF ContractsInv
  <1>2. inner \in Seq(InnerAction)
    BY <1>1 DEF TypeInv, TypeOK, SettlementTypeOK, OuterStates
  <1>3. /\ IsFiniteSet(P) /\ IsFiniteSet(R) /\ P \cap R = {}
        /\ WithdrawalsOf(a, inner) = P \cup R
        /\ \A i \in P \cup R : inner[i].amount \in Nat
    <2>1. P \cap R = {} /\ WithdrawalsOf(a, inner) = P \cup R
      BY DEF PaidOf
    <2>2. QED
      BY <1>2, <2>1, WithdrawnTypes, FS_Subset
  <1>4. paid \in Nat /\ unpaid \in Nat
    BY <1>3, TotalNat
  <1>5. Withdrawn(a, inner) = paid + unpaid
    <2> HIDE DEF P, R
    <2>1. TotalAt(inner, P \cup R) = TotalAt(inner, P) + TotalAt(inner, R)
      BY <1>3, TotalSplits
    <2>2. QED
      BY <1>2, <1>3, <2>1, WithdrawnNat
  <1>6. /\ currentDepositState \in Seq(Deposits)
        /\ Len(currentDepositState) = depositNonce
        /\ depositNonce \in 0..depositNonce /\ bridgedDepositNonce \in 0..depositNonce
    BY <1>1 DEF TypeInv, TypeOK, BridgeTypeOK, Accounts, DepositInv, DepositsBridgedOnce
  <1>7. bridged \in Nat /\ total \in Nat /\ bridged <= total
    BY <1>6, DepositedTypes, DepositedMonotone
  <1>8. Withdrawn(a, inner) <= bridged
    BY <1>1 DEF WithdrawnCovered
  <1>9. Liability(a) + EthereumAmount(a, paid) = EthereumAmount(a, total)
    BY <1>1 DEF LiabilityExact
  <1>10. Liability(a) \in Nat
    BY <1>1 DEF TypeInv, TypeOK, BridgeTypeOK, Liability, Assets
  <1> HIDE DEF inner, paid, unpaid, bridged, total
  <1>11. paid + unpaid <= total /\ paid + unpaid \in Nat
    BY <1>4, <1>5, <1>7, <1>8
  <1>12. EthereumAmount(a, paid) + EthereumAmount(a, unpaid) <= EthereumAmount(a, total)
    <2>1. EthereumAmount(a, paid + unpaid) <= EthereumAmount(a, total)
      BY <1>7, <1>11, ConversionLinear
    <2>2. EthereumAmount(a, paid + unpaid)
              = EthereumAmount(a, paid) + EthereumAmount(a, unpaid)
      BY <1>4, ConversionLinear
    <2>3. QED
      BY <2>1, <2>2
  <1>13. /\ EthereumAmount(a, paid) \in Nat /\ EthereumAmount(a, unpaid) \in Nat
         /\ EthereumAmount(a, total) \in Nat
    BY <1>4, <1>7, ConversionLinear
  <1>14. EthereumAmount(a, unpaid) <= Liability(a)
    BY <1>9, <1>10, <1>12, <1>13
  <1>15. QED
    BY <1>4, <1>14 DEF unpaid, inner

LEMMA CoveredByInvariant == ContractsInv => WithdrawalsCovered
  <1> SUFFICES ASSUME ContractsInv, NEW a \in Assets
               PROVE  SumFunction([c \in Unclaimed(a) |->
                          EthereumAmount(a, innerActionBatch[c[1]].root[c[2]].action.amount)])
                      <= Liability(a)
    BY DEF WithdrawalsCovered
  <1> DEFINE inner == outerState.innerActionState
             U == Unclaimed(a)
             R == WithdrawalsOf(a, inner) \ PaidOf(a)
             amount(c) == innerActionBatch[c[1]].root[c[2]].action.amount
             f == [c \in U |-> amount(c)]
             e == [c \in U |-> EthereumAmount(a, amount(c))]
             g == [i \in R |-> inner[i].amount]
             m == [c \in U |-> LeafAt(c)]
  <1>1. TypeInv /\ BatchInv /\ ClaimInv
    BY DEF ContractsInv
  <1>2. inner \in Seq(InnerAction)
    BY <1>1 DEF TypeInv, TypeOK, SettlementTypeOK, OuterStates
  <1>3. IsFiniteSet(R) /\ \A i \in R : inner[i].amount \in Nat
    BY <1>2, WithdrawnTypes, FS_Subset
  <1>4. IsFiniteSet(U)
    BY <1>1, UnclaimedFinite
  <1>5. \A c \in U : LeafAt(c) \in R /\ amount(c) = inner[LeafAt(c)].amount
    BY <1>1, UnclaimedPosition
  <1>6. \A c, d \in U : LeafAt(c) = LeafAt(d) => c = d
    BY <1>1, UnclaimedApart
  <1> HIDE DEF amount, inner, U, R
  <1>7. \A i \in R : g[i] \in Nat
    BY <1>3
  <1>8. \A c \in U : /\ m[c] \in R /\ f[c] = g[m[c]] /\ f[c] \in Nat
                     /\ e[c] = f[c] * Rate(a)
    BY <1>3, <1>5, ConversionLinear
  <1>9. \A c, d \in U : m[c] = m[d] => c = d
    BY <1>6
  <1>10. /\ SumFunction(e) = SumFunctionOnSet(e, U)
         /\ TotalAt(inner, R) = SumFunctionOnSet(g, R)
    <2>1. DOMAIN e = U /\ DOMAIN g = R
      OBVIOUS
    <2>2. /\ SumFunction(e) = SumFunctionOnSet(e, DOMAIN e)
          /\ SumFunction(g) = SumFunctionOnSet(g, DOMAIN g)
      BY DEF SumFunction, SumFunctionOnSet, FoldFunction
    <2>3. TotalAt(inner, R) = SumFunction(g)
      BY DEF TotalAt
    <2>4. QED
      BY <2>1, <2>2, <2>3
  <1> HIDE DEF f, e, g, m
  <1>11. SumFunctionOnSet(f, U) <= SumFunctionOnSet(g, R)
    <2>1. \A c \in U : f[c] <= g[m[c]]
      BY <1>8
    <2>2. QED
      BY <1>3, <1>4, <1>7, <1>8, <1>9, <2>1, SumInjects
  <1>12. SumFunctionOnSet(e, U) = SumFunctionOnSet(f, U) * Rate(a)
    <2> DEFINE k == Rate(a)
    <2>1. k \in Nat
      BY ConversionLinear
    <2>2. \A c \in U : f[c] \in Nat /\ e[c] = f[c] * k
      BY <1>8
    <2> HIDE DEF k
    <2>3. SumFunctionOnSet(e, U) = SumFunctionOnSet(f, U) * k
      BY <1>4, <2>1, <2>2, SumScales, Zenon
    <2>4. QED
      BY <2>3 DEF k
  <1>13. SumFunctionOnSet(f, U) \in Nat /\ SumFunctionOnSet(g, R) \in Nat
    BY <1>3, <1>4, <1>7, <1>8, SumNat
  <1>14. SumFunction(e) = EthereumAmount(a, SumFunctionOnSet(f, U))
    BY <1>10, <1>12, <1>13, ConversionLinear
  <1>15. EthereumAmount(a, SumFunctionOnSet(f, U))
             <= EthereumAmount(a, SumFunctionOnSet(g, R))
    BY <1>11, <1>13, ConversionLinear
  <1>16. EthereumAmount(a, SumFunctionOnSet(g, R)) <= Liability(a)
    <2>1. EthereumAmount(a, TotalAt(inner, R)) <= Liability(a)
      BY UnpaidCovered DEF inner, R
    <2>2. QED
      BY <1>10, <2>1
  <1>17. SumFunction(e) <= Liability(a)
    <2>1. Liability(a) \in Nat
      BY <1>1 DEF TypeInv, TypeOK, BridgeTypeOK, Liability, Assets
    <2>2. /\ EthereumAmount(a, SumFunctionOnSet(f, U)) \in Nat
          /\ EthereumAmount(a, SumFunctionOnSet(g, R)) \in Nat
      BY <1>13, ConversionLinear
    <2>3. QED
      BY <1>14, <1>15, <1>16, <2>1, <2>2
  <1>18. QED
    BY <1>17 DEF e, U, amount

\* Solvency across the chains, for any assets, recipients, batches and
\* provers: if the circuits let the L2 pay out no more than the deposits of
\* the checkpoint a commit consumed, the liability of every asset covers all
\* the settled withdrawals that can still be claimed.
THEOREM Solvent == Spec => []WithdrawalsCovered
  BY InitContracts, NextContracts, CoveredByInvariant, PTL DEF Spec

\* The liability is exactly what was deposited less what was paid, and the L2
\* never withdrew more of an asset than was bridged to it.
THEOREM LiabilityCorrect == Spec => [](LiabilityExact /\ WithdrawnCovered)
  <1>1. ContractsInv => LiabilityExact /\ WithdrawnCovered
    BY DEF ContractsInv
  <1>2. QED
    BY <1>1, InitContracts, NextContracts, PTL DEF Spec
-----------------------------------------------------------------------------
(* The contracts implement the ledger.                                     *)

\* A log that agrees with a longer one is its beginning.
LEMMA BeginningOf ==
    ASSUME NEW S, NEW s \in Seq(S), NEW t \in Seq(S), Len(s) <= Len(t),
           \A i \in 1..Len(s) : t[i] = s[i]
    PROVE  SubSeq(t, 1, Len(s)) = s
  <1> DEFINE n == Len(s)
             u == SubSeq(t, 1, n)
  <1>1. n \in Nat /\ Len(t) \in Nat
    BY LenProperties
  <1>2. \A i \in 1..n : i \in 1..Len(t)
    BY <1>1
  <1>3. \A i \in 1..n : t[i] \in S
    BY <1>2, ElementOfSeq
  <1>4. u \in Seq(S) /\ Len(u) = n /\ \A i \in 1..n : u[i] = t[i]
    BY <1>1, <1>3, SubSeqProperties
  <1> HIDE DEF u
  <1>5. QED
    BY <1>4, SeqEqual DEF u

\* The accumulator without its nonces.
WithoutNonces(log) ==
    [i \in DOMAIN log |-> [token |-> log[i].token, amount |-> log[i].amount]]

LedgerEntries == [token : Assets, amount : Nat]

LEMMA WithoutNoncesShape ==
    ASSUME NEW log \in Seq(Deposits)
    PROVE  /\ WithoutNonces(log) \in Seq(LedgerEntries)
           /\ Len(WithoutNonces(log)) = Len(log)
           /\ DOMAIN WithoutNonces(log) = 1..Len(log)
           /\ \A i \in 1..Len(log) : /\ WithoutNonces(log)[i].token = log[i].token
                                     /\ WithoutNonces(log)[i].amount = log[i].amount
                                     /\ WithoutNonces(log)[i]
                                          = [token |-> log[i].token, amount |-> log[i].amount]
  <1>1. DOMAIN log = 1..Len(log) /\ Len(log) \in Nat
    BY LenProperties
  <1>2. \A i \in 1..Len(log) : log[i] \in Deposits
    BY ElementOfSeq
  <1>3. \A i \in 1..Len(log) :
            [token |-> log[i].token, amount |-> log[i].amount] \in LedgerEntries
    BY <1>2 DEF Deposits, LedgerEntries
  <1>4. WithoutNonces(log) \in [1..Len(log) -> LedgerEntries]
    BY <1>1, <1>3 DEF WithoutNonces
  <1>5. WithoutNonces(log) \in Seq(LedgerEntries)
    BY <1>1, <1>4, SeqDef
  <1>6. QED
    BY <1>1, <1>4, <1>5, LenProperties DEF WithoutNonces

\* The ledger's sums are this module's.
LEMMA LedgerSum ==
    ASSUME NEW f
    PROVE  Ledger!SumFunction(f) = SumFunction(f)
  BY DEF SumFunction, SumFunctionOnSet, FoldFunctionOnSet, MapThenFoldSet,
         Ledger!SumFunction, Ledger!SumFunctionOnSet, Ledger!FoldFunctionOnSet,
         Ledger!MapThenFoldSet

\* The two ways to add up the first n deposits.
LEMMA SameTotals ==
    ASSUME TypeInv, NEW n \in 0..depositNonce, NEW a
    PROVE  Ledger!DepositedTotal(a, n) = Deposited(currentDepositState, a, n)
  <1> DEFINE log == currentDepositState
             S == DepositsOf(log, a, n)
  <1>1. log \in Seq(Deposits) /\ Len(log) = depositNonce /\ depositNonce \in Nat
    BY DEF TypeInv, TypeOK, BridgeTypeOK, Accounts
  <1>2. LedgerDeposits = WithoutNonces(log)
    BY DEF LedgerDeposits, WithoutNonces
  <1>3. \A i \in 1..n : i \in 1..Len(log)
    BY <1>1
  <1>4. \A i \in 1..n : /\ LedgerDeposits[i].token = log[i].token
                        /\ LedgerDeposits[i].amount = log[i].amount
    BY <1>1, <1>2, <1>3, WithoutNoncesShape
  <1>5. {j \in 1..n : LedgerDeposits[j].token = a} = S
    BY <1>4 DEF DepositsOf
  <1>6. [i \in S |-> LedgerDeposits[i].amount] = [i \in S |-> log[i].amount]
    BY <1>4 DEF DepositsOf
  <1> HIDE DEF S
  <1>7. Ledger!DepositedTotal(a, n) = Ledger!SumFunction([i \in S |-> log[i].amount])
    BY <1>5, <1>6 DEF Ledger!DepositedTotal
  <1>8. QED
    BY <1>7, LedgerSum DEF Deposited, TotalAt, S

LEMMA InitRefines == Init => Ledger!Init
  <1> SUFFICES ASSUME Init PROVE Ledger!Init
    OBVIOUS
  <1>1. /\ currentDepositState = << >> /\ bridgedDepositNonce = 0 /\ claims = << >>
        /\ outerState.innerActionState = << >>
    BY DEF Init, SettlementInit, InitialOuterState, BridgeInit
  <1>2. LedgerDeposits = << >>
    BY <1>1 DEF LedgerDeposits
  <1>3. LedgerPaid = {}
    BY <1>1 DEF LedgerPaid
  <1>4. QED
    BY <1>1, <1>2, <1>3 DEF Ledger!Init

LEMMA DepositRefines ==
    ASSUME ContractsInv, Deposit
    PROVE  Ledger!Deposit
  <1> DEFINE log == currentDepositState
             old == LedgerDeposits
             new == LedgerDeposits'
  <1>1. TypeInv
    BY DEF ContractsInv
  <1>2. PICK leaf \in Deposits :
             currentDepositState' = Append(log, leaf) /\ leaf.amount > 0
    BY <1>1, DepositEffect
  <1>3. log \in Seq(Deposits) /\ Len(log) \in Nat
    BY <1>1, LenProperties DEF TypeInv, TypeOK, BridgeTypeOK
  <1>4. /\ currentDepositState' \in Seq(Deposits)
        /\ Len(currentDepositState') = Len(log) + 1
        /\ \A i \in 1..Len(log) : currentDepositState'[i] = log[i]
        /\ currentDepositState'[Len(log) + 1] = leaf
    BY <1>2, <1>3, AppendProperties
  <1>5. old = WithoutNonces(log) /\ new = WithoutNonces(currentDepositState')
    BY DEF LedgerDeposits, WithoutNonces
  <1>6. /\ old \in Seq(LedgerEntries) /\ Len(old) = Len(log)
        /\ new \in Seq(LedgerEntries) /\ Len(new) = Len(log) + 1
    BY <1>3, <1>4, <1>5, WithoutNoncesShape
  <1>7. \A i \in 1..Len(log) : new[i] = old[i]
    <2>1. \A i \in 1..Len(log) : i \in 1..(Len(log) + 1)
      BY <1>3
    <2>2. ASSUME NEW i \in 1..Len(log) PROVE new[i] = old[i]
      <3>1. old[i] = [token |-> log[i].token, amount |-> log[i].amount]
        BY <1>3, <1>5, WithoutNoncesShape
      <3>2. new[i] = [token |-> currentDepositState'[i].token,
                      amount |-> currentDepositState'[i].amount]
        BY <1>4, <1>5, <2>1, WithoutNoncesShape
      <3>3. QED
        BY <1>4, <3>1, <3>2
    <2>3. QED
      BY <2>2
  <1>8. /\ new[Len(log) + 1].token = leaf.token /\ new[Len(log) + 1].amount = leaf.amount
        /\ leaf.token \in Assets
    <2>1. Len(log) + 1 \in 1..(Len(log) + 1)
      BY <1>3
    <2>2. leaf.token \in Assets
      BY DEF Deposits
    <2>3. QED
      BY <1>4, <1>5, <2>1, <2>2, WithoutNoncesShape
  <1>9. UNCHANGED <<bridgedDepositNonce, outerState, claims>>
    BY DEF Deposit, DepositETH, SubmitDeposit, settlementVars, withdrawalVars, transitionVars
  <1>10. LedgerPaid' = LedgerPaid
    BY <1>9 DEF LedgerPaid
  <1> HIDE DEF old, new, log
  <1>11. SubSeq(new, 1, Len(old)) = old
    <2>1. Len(old) <= Len(new)
      BY <1>3, <1>6
    <2>2. QED
      BY <1>6, <1>7, <2>1, BeginningOf
  <1>12. /\ Len(new) = Len(old) + 1 /\ new[Len(new)].token \in Assets
         /\ new[Len(new)].amount > 0
    BY <1>2, <1>6, <1>8
  <1>13. QED
    BY <1>9, <1>10, <1>11, <1>12 DEF Ledger!Deposit, old, new

LEMMA CreditRefines ==
    ASSUME ContractsInv, BridgeDeposits
    PROVE  Ledger!Credit
  <1>1. TypeInv /\ DepositInv
    BY DEF ContractsInv
  <1>2. PICK d, leaves : BatchShape(d, leaves) /\ SubmitBridgeTransition(d)
    BY <1>1, BridgeBatch
  <1>3. /\ bridgedDepositNonce' = depositNonce
        /\ Len(leaves) = depositNonce - bridgedDepositNonce
    BY <1>1, <1>2, BatchLeaves
  <1>4. bridgedDepositNonce < depositNonce
    <2>1. d.depositCount = depositNonce - bridgedDepositNonce /\ d.depositCount > 0
      BY <1>1, <1>2
      DEF SubmitBridgeTransition, DepositRangeMatches, BridgedNonceMatches, BatchShape,
          TypeInv, TypeOK, BridgeTypeOK
    <2>2. depositNonce \in Nat /\ bridgedDepositNonce \in Nat
      BY <1>1 DEF TypeInv, TypeOK, BridgeTypeOK
    <2>3. QED
      BY <2>1, <2>2
  <1>5. Len(LedgerDeposits) = depositNonce
    <2>1. LedgerDeposits = WithoutNonces(currentDepositState)
      BY DEF LedgerDeposits, WithoutNonces
    <2>2. QED
      BY <1>1, <2>1, WithoutNoncesShape DEF TypeInv, TypeOK, BridgeTypeOK, Accounts
  <1>6. UNCHANGED <<currentDepositState, outerState, claims>>
    <2>1. UNCHANGED outerState
      BY <1>2 DEF SubmitBridgeTransition, AppendOuterWitnesses
    <2>2. QED
      BY <1>2, <2>1 DEF SubmitBridgeTransition, depositVars, withdrawalVars
  <1>7. LedgerDeposits' = LedgerDeposits /\ LedgerPaid' = LedgerPaid
    BY <1>6 DEF LedgerDeposits, LedgerPaid
  <1>8. QED
    BY <1>3, <1>4, <1>5, <1>6, <1>7 DEF Ledger!Credit

LEMMA RequestRefines ==
    ASSUME ContractsInv, Settle
    PROVE  Ledger!Request \/ UNCHANGED Ledger!ledgerVars
  <1> DEFINE inner == outerState.innerActionState
             after == outerState'.innerActionState
  <1>1. /\ TypeInv /\ CheckpointsArePrefixes /\ DepositInv /\ WithdrawnCovered
        /\ [Next]_vars
    BY DEF ContractsInv, Next
  <1>2. PICK actions \in Seq(InnerAction), bridge \in Addresses, slotUpper \in Nat :
             \E consumed : InnerLogGrows(actions, bridge, slotUpper, consumed)
    BY <1>1, SettleInner
  <1>3. after = inner \o actions /\ inner \in Seq(InnerAction)
    BY <1>1, <1>2 DEF InnerLogGrows, TypeInv, TypeOK, SettlementTypeOK, OuterStates
  <1>4. /\ Len(inner) \in Nat /\ Len(actions) \in Nat /\ after \in Seq(InnerAction)
        /\ Len(after) = Len(inner) + Len(actions)
        /\ \A i \in 1..Len(inner) : after[i] = inner[i]
    BY <1>3, LenProperties, ConcatProperties
  <1>5. UNCHANGED <<currentDepositState, bridgedDepositNonce, claims>>
    BY DEF Settle, bridgeVars
  <1>6. LedgerDeposits' = LedgerDeposits /\ LedgerPaid' = LedgerPaid
    BY <1>5 DEF LedgerDeposits, LedgerPaid
  <1>7. \A a \in Assets : Ledger!RequestedTotal(a, after)
                              <= Ledger!DepositedTotal(a, bridgedDepositNonce)
    <2>1. WithdrawnCovered'
      BY <1>1, NextWithdrawn
    <2>2. bridgedDepositNonce \in 0..depositNonce
      BY <1>1 DEF TypeInv, TypeOK, BridgeTypeOK, DepositInv, DepositsBridgedOnce
    <2>3. \A a : Ledger!RequestedTotal(a, after) = Withdrawn(a, after)
      BY LedgerSum DEF Ledger!RequestedTotal, Withdrawn, WithdrawalsOf
    <2>4. ASSUME NEW a \in Assets
          PROVE  Withdrawn(a, after)
                     <= Deposited(currentDepositState, a, bridgedDepositNonce)
      BY <1>5, <2>1 DEF WithdrawnCovered
    <2>5. QED
      BY <1>1, <2>2, <2>3, <2>4, SameTotals
  <1> HIDE DEF inner, after
  <1>8. CASE Len(actions) = 0
    <2>1. after = inner
      BY <1>3, <1>4, <1>8, SeqEqual
    <2>2. QED
      BY <1>5, <1>6, <2>1 DEF Ledger!ledgerVars, inner, after
  <1>9. CASE Len(actions) # 0
    <2>1. Len(after) > Len(inner) /\ Len(inner) <= Len(after)
      BY <1>4, <1>9
    <2>2. SubSeq(after, 1, Len(inner)) = inner
      BY <1>3, <1>4, <2>1, BeginningOf
    <2>3. QED
      BY <1>5, <1>6, <1>7, <2>1, <2>2 DEF Ledger!Request, inner, after
  <1>10. QED
    BY <1>8, <1>9

LEMMA PayRefines ==
    ASSUME ContractsInv, Claim
    PROVE  Ledger!Pay
  <1>1. TypeInv /\ BatchInv /\ ClaimInv
    BY DEF ContractsInv
  <1>2. PICK p, action : ClaimPaysAt(p, action)
    BY <1>1, ClaimPays
  <1>3. UNCHANGED <<outerState, currentDepositState, bridgedDepositNonce>>
    BY <1>1, ClaimPays
  <1>4. LedgerDeposits' = LedgerDeposits
    BY <1>3 DEF LedgerDeposits
  <1>5. QED
    BY <1>2, <1>3, <1>4 DEF ClaimPaysAt, Ledger!Pay

LEMMA StepRefines == ContractsInv /\ [Next]_vars => [Ledger!Next]_(Ledger!ledgerVars)
  <1> SUFFICES ASSUME ContractsInv, [Next]_vars
               PROVE  Ledger!Next \/ UNCHANGED Ledger!ledgerVars
    OBVIOUS
  <1>1. CASE ~Deposit /\ ~BridgeDeposits /\ ~Settle /\ ~Claim
    <2>1. UNCHANGED <<outerState, claims, currentDepositState, bridgedDepositNonce>>
      BY <1>1, InnerFrame, ClaimFrame, DepositFrame
      DEF innerVars, withdrawalVars, depositLogVars, ContractsInv
    <2>2. QED
      BY <2>1 DEF Ledger!ledgerVars, LedgerDeposits, LedgerPaid
  <1>2. QED
    BY <1>1, DepositRefines, CreditRefines, RequestRefines, PayRefines DEF Ledger!Next

\* The contracts implement EscrowLedger, for every value of the constants:
\* each transaction is one step of the ledger or leaves it alone, so deposits
\* reach the L2 in order and together, what the L2 requests is covered by
\* credited deposits, and each request is paid at most once.
THEOREM LedgerImplemented == Spec => ImplementsLedger
  BY InitContracts, NextContracts, InitRefines, StepRefines, PTL
  DEF Spec, ImplementsLedger, Ledger!Spec
=============================================================================
