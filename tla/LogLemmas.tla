----------------------------- MODULE LogLemmas ------------------------------
(***************************************************************************)
(* Facts the proofs cite, about logs, about amounts and about the least    *)
(* and the greatest of a set of numbers.                                   *)
(*                                                                         *)
(* Logs: a chain state is a sequence and its checkpoints are prefixes.     *)
(*                                                                         *)
(* Amounts: sums of natural numbers over finite sets (SumFunctionOnSet of  *)
(* module Functions).  The sum is a recursive function of sets.  That      *)
(* there is such a function and what it computes is shown by induction on  *)
(* subsets: the subsets for which a claim fails have a smallest member,    *)
(* SmallestBad, and the claim holds of everything below it.                *)
(***************************************************************************)
EXTENDS SequencesExt, SequenceTheorems, FiniteSetTheorems, TLAPS

-----------------------------------------------------------------------------
(* Prefixes and bounded sequences.                                         *)

\* A member of Prefixes(s) is a sequence that agrees with s where defined.
LEMMA PrefixesMember ==
    ASSUME NEW S, NEW s \in Seq(S), NEW p \in Prefixes(s)
    PROVE  /\ p \in Seq(S)
           /\ Len(p) <= Len(s)
           /\ \A i \in 1..Len(p) : p[i] = s[i]
  BY SubSeqProperties, LenProperties DEF Prefixes

\* A sequence is one of its own prefixes.
LEMMA WholeIsPrefix ==
    ASSUME NEW S, NEW s \in Seq(S)
    PROVE  s \in Prefixes(s)
  <1>1. Len(s) \in 0..Len(s) /\ SubSeq(s, 1, Len(s)) = s
    BY LenProperties, SubSeqFull
  <1>2. QED
    BY <1>1 DEF Prefixes

\* The bounded sequences TLC enumerates are sequences.
LEMMA BoundedSeqMember ==
    ASSUME NEW S, NEW n, NEW s \in BoundedSeq(S, n)
    PROVE  s \in Seq(S)
  BY DEF BoundedSeq, SeqOf

\* Every sequence is a prefix of itself, and the empty one of every sequence.
LEMMA PrefixReflexive ==
    ASSUME NEW S, NEW s \in Seq(S)
    PROVE  IsPrefix(s, s) /\ IsPrefix(<< >>, s)
  BY DEF IsPrefix

\* A prefix stays one when the log grows.
LEMMA PrefixOfConcat ==
    ASSUME NEW S, NEW u \in Seq(S), NEW s \in Seq(S), NEW t \in Seq(S),
           IsPrefix(u, s)
    PROVE  IsPrefix(u, s \o t)
  BY DEF IsPrefix

\* The same, for a log that grows by one action.
LEMMA PrefixOfAppend ==
    ASSUME NEW S, NEW u \in Seq(S), NEW s \in Seq(S), NEW e \in S,
           IsPrefix(u, s)
    PROVE  IsPrefix(u, Append(s, e))
  BY DEF IsPrefix

\* Appending is concatenation, and what a log is extended from is its prefix.
LEMMA AppendConcat ==
    ASSUME NEW S, NEW s \in Seq(S), NEW e \in S
    PROVE  <<e>> \in Seq(S) /\ Append(s, e) = s \o <<e>>
  OBVIOUS

LEMMA ExtensionHasPrefix ==
    ASSUME NEW S, NEW s \in Seq(S), NEW t \in Seq(S)
    PROVE  IsPrefix(s, s \o t)
  BY PrefixReflexive, PrefixOfConcat

\* A prefix agrees with the log at each of its positions.
LEMMA PrefixAgrees ==
    ASSUME NEW S, NEW s \in Seq(S), NEW t \in Seq(S), IsPrefix(s, t)
    PROVE  \A i \in DOMAIN s : i \in DOMAIN t /\ s[i] = t[i]
  <1>1. Len(s) <= Len(t) /\ Len(s) \in Nat /\ Len(t) \in Nat
        /\ SubSeq(s, 1, Len(s)) = SubSeq(t, 1, Len(s))
    BY LenProperties DEF IsPrefix
  <1>2. \A i \in 1..Len(s) : SubSeq(s, 1, Len(s))[i] = s[i] /\ SubSeq(t, 1, Len(s))[i] = t[i]
    BY <1>1
  <1>3. QED
    BY <1>1, <1>2

\* A longer sequence is no prefix.
LEMMA LongerIsNoPrefix ==
    ASSUME NEW S, NEW s \in Seq(S), NEW t \in Seq(S), IsPrefix(s, t)
    PROVE  Len(s) <= Len(t)
  BY DEF IsPrefix

\* Part of the appended actions gives a prefix of the new log.
LEMMA PartialConcat ==
    ASSUME NEW S, NEW s \in Seq(S), NEW t \in Seq(S), NEW i \in 0..Len(t)
    PROVE  /\ s \o SubSeq(t, 1, i) \in Seq(S)
           /\ Len(s \o SubSeq(t, 1, i)) = Len(s) + i
           /\ IsPrefix(s \o SubSeq(t, 1, i), s \o t)
  <1>1. /\ SubSeq(t, 1, i) \in Seq(S)
        /\ Len(SubSeq(t, 1, i)) = i
        /\ \A j \in 1..i : SubSeq(t, 1, i)[j] = t[j]
    BY SubSeqProperties, LenProperties
  <1>2. QED
    BY <1>1 DEF IsPrefix

\* What was appended is the rest of the concatenation.
LEMMA SuffixOfConcat ==
    ASSUME NEW S, NEW s \in Seq(S), NEW t \in Seq(S)
    PROVE  SubSeq(s \o t, Len(s) + 1, Len(s \o t)) = t
  OBVIOUS

\* Quotient and product of naturals, for slots and unit conversions.
LEMMA QuotientIsNat ==
    ASSUME NEW a \in Nat, NEW b \in Nat \ {0}
    PROVE  a \div b \in Nat
  OBVIOUS

LEMMA ProductIsNat ==
    ASSUME NEW a \in Nat, NEW b \in Nat
    PROVE  a * b \in Nat
  OBVIOUS

-----------------------------------------------------------------------------
(* Sums.                                                                   *)

\* The element that the sum takes out of a set first.
Pick(s) == CHOOSE x \in s : TRUE

\* g[s] is the sum of f over s, for every subset s of T.
Adds(f, T, g) ==
    g = [s \in SUBSET T |->
          IF s = {} THEN 0 ELSE f[Pick(s)] + g[s \ {Pick(s)}]]

\* The element the sum takes next is one of the set.
LEMMA PickMember ==
  ASSUME NEW s, s # {}
  PROVE  Pick(s) \in s
BY DEF Pick

\* A function that adds up as the sum does gives the sum.
LEMMA SumChosen ==
  ASSUME NEW f, NEW S, NEW g, Adds(f, S, g)
  PROVE  \E h : Adds(f, S, h) /\ SumFunctionOnSet(f, S) = h[S]
 <1> DEFINE h == CHOOSE h : Adds(f, S, h)
 <1>1. SumFunctionOnSet(f, S) = h[S]
   BY DEF SumFunctionOnSet, FoldFunctionOnSet, MapThenFoldSet, Adds, Pick
 <1>2. Adds(f, S, h)
   BY Zenon
 <1> QED BY <1>1, <1>2

\* Induction over the subsets of a finite set, without an operator parameter:
\* a set of bad subsets has a smallest member.
LEMMA SmallestBad ==
  ASSUME NEW S, IsFiniteSet(S), NEW D \in SUBSET SUBSET S, D # {}
  PROVE  \E s \in D : \A t \in SUBSET s : t # s => t \notin D
 <1>1. PICK s \in D : \A t \in D : ~(<<t, s>> \in StrictSubsetOrdering(S))
   <2>1. D \subseteq FiniteSubsetsOf(S)
     BY FS_FiniteSubsetsOfFinite
   <2>2. QED
     BY <2>1, FS_StrictSubsetOrderingWellFounded, WFMin
 <1> QED BY <1>1 DEF StrictSubsetOrdering

\* At most one function adds up f over the subsets of a finite set ...
LEMMA AddsUnique ==
  ASSUME NEW f, NEW S, IsFiniteSet(S), NEW g, NEW h, Adds(f, S, g), Adds(f, S, h)
  PROVE  g = h
 <1> DEFINE D == {s \in SUBSET S : g[s] # h[s]}
 <1>1. SUFFICES ASSUME D # {} PROVE FALSE
   <2>1. \A s \in SUBSET S : g[s] = h[s]
     BY <1>1
   <2>2. QED BY <2>1 DEF Adds
 <1>2. PICK s \in D : \A t \in D : ~(<<t, s>> \in StrictSubsetOrdering(S))
   <2>1. D \subseteq FiniteSubsetsOf(S)
     BY FS_FiniteSubsetsOfFinite
   <2>2. QED
     BY <1>1, <2>1, FS_StrictSubsetOrderingWellFounded, WFMin
 <1>3. s \in SUBSET S /\ s # {}
   BY DEF Adds
 <1>4. Pick(s) \in s
   BY <1>3, PickMember
 <1>5. s \ {Pick(s)} \in SUBSET S /\ s \ {Pick(s)} \notin D
   BY <1>2, <1>3, <1>4 DEF StrictSubsetOrdering
 <1>6. /\ g[s] = f[Pick(s)] + g[s \ {Pick(s)}]
       /\ h[s] = f[Pick(s)] + h[s \ {Pick(s)}]
   BY <1>3 DEF Adds
 <1> QED BY <1>5, <1>6

\* ... its restriction adds up f over fewer subsets ...
LEMMA AddsRestricts ==
  ASSUME NEW f, NEW S, NEW g, Adds(f, S, g), NEW T \in SUBSET S
  PROVE  Adds(f, T, [s \in SUBSET T |-> g[s]])
 BY DEF Adds

\* ... and there is one.
LEMMA AddsExists ==
  ASSUME NEW f, NEW S, IsFiniteSet(S)
  PROVE  \E g : Adds(f, S, g)
 <1> DEFINE D == {T \in SUBSET S : ~\E g : Adds(f, T, g)}
 <1>1. SUFFICES ASSUME D # {} PROVE FALSE
   BY <1>1
 <1>2. PICK T \in D : \A t \in D : ~(<<t, T>> \in StrictSubsetOrdering(S))
   <2>1. D \subseteq FiniteSubsetsOf(S)
     BY FS_FiniteSubsetsOfFinite
   <2>2. QED
     BY <1>1, <2>1, FS_StrictSubsetOrderingWellFounded, WFMin
 <1> DEFINE F(U) == CHOOSE g : Adds(f, U, g)
            g == [s \in SUBSET T |->
                    IF s = {} THEN 0
                    ELSE f[Pick(s)] + F(s \ {Pick(s)})[s \ {Pick(s)}]]
 <1>3. ASSUME NEW U \in SUBSET T, U # T PROVE Adds(f, U, F(U))
   <2>1. \E u : Adds(f, U, u)
     BY <1>2, <1>3 DEF StrictSubsetOrdering
   <2>2. QED BY <2>1, Zenon
 <1>4. ASSUME NEW U \in SUBSET T, U # T, NEW V \in SUBSET U
       PROVE  F(V)[V] = F(U)[V]
   <2>1. Adds(f, V, [s \in SUBSET V |-> F(U)[s]])
     BY <1>3, <1>4, AddsRestricts
   <2>2. Adds(f, V, F(V))
     BY <1>3, <1>4
   <2>3. IsFiniteSet(V)
     BY <1>4, FS_Subset
   <2> HIDE DEF F
   <2>4. F(V) = [s \in SUBSET V |-> F(U)[s]]
     BY <2>1, <2>2, <2>3, AddsUnique
   <2>5. QED BY <2>4
 <1>5. ASSUME NEW U \in SUBSET T, U # T
       PROVE  F(U)[U] = g[U]
   <2>1. Adds(f, U, F(U))
     BY <1>3, <1>5
   <2>2. CASE U = {}
     BY <2>1, <2>2 DEF Adds
   <2>3. CASE U # {}
     <3>1. Pick(U) \in U
       BY <2>3, PickMember
     <3>2. F(U)[U] = f[Pick(U)] + F(U)[U \ {Pick(U)}]
       <4> HIDE DEF F
       <4> QED BY <2>1, <2>3 DEF Adds
     <3>3. F(U)[U \ {Pick(U)}] = F(U \ {Pick(U)})[U \ {Pick(U)}]
       <4> HIDE DEF F
       <4> QED BY <1>4, <1>5
     <3>4. g[U] = f[Pick(U)] + F(U \ {Pick(U)})[U \ {Pick(U)}]
       <4> HIDE DEF F
       <4> QED BY <2>3
     <3>5. QED BY <3>2, <3>3, <3>4
   <2>4. QED BY <2>2, <2>3
 <1>6. Adds(f, T, g)
   <2> HIDE DEF F
   <2>1. ASSUME NEW s \in SUBSET T, s # {}
         PROVE  g[s] = f[Pick(s)] + g[s \ {Pick(s)}]
     <3>1. Pick(s) \in s
       BY <2>1, PickMember
     <3>2. s \ {Pick(s)} \in SUBSET T /\ s \ {Pick(s)} # T
       BY <2>1, <3>1
     <3>3. F(s \ {Pick(s)})[s \ {Pick(s)}] = g[s \ {Pick(s)}]
       BY <1>5, <3>2
     <3>4. QED BY <2>1, <3>3
   <2>2. g[{}] = 0
     OBVIOUS
   <2> HIDE DEF g
   <2>3. g = [s \in SUBSET T |-> g[s]]
     BY DEF g
   <2>4. QED BY <2>1, <2>2, <2>3 DEF Adds
 <1> QED BY <1>2, <1>6

\* So the sum is what that function says.
LEMMA SumIs ==
  ASSUME NEW f, NEW S, IsFiniteSet(S), NEW g, Adds(f, S, g)
  PROVE  SumFunctionOnSet(f, S) = g[S]
 BY SumChosen, AddsUnique

\* The equation that defines the sum holds.
LEMMA SumUnfolds ==
  ASSUME NEW f, NEW S, IsFiniteSet(S)
  PROVE  /\ S = {} => SumFunctionOnSet(f, S) = 0
         /\ S # {} => /\ Pick(S) \in S
                      /\ SumFunctionOnSet(f, S)
                           = f[Pick(S)] + SumFunctionOnSet(f, S \ {Pick(S)})
 <1>1. PICK g : Adds(f, S, g)
   BY AddsExists
 <1>2. SumFunctionOnSet(f, S) = g[S]
   BY <1>1, SumIs
 <1>3. CASE S = {}
   BY <1>1, <1>2, <1>3 DEF Adds
 <1>4. CASE S # {}
   <2> DEFINE T == S \ {Pick(S)}
   <2>1. Pick(S) \in S
     BY <1>4, PickMember
   <2>2. Adds(f, T, [s \in SUBSET T |-> g[s]])
     BY <1>1, AddsRestricts
   <2>3. IsFiniteSet(T)
     BY FS_Subset
   <2>4. SumFunctionOnSet(f, T) = g[T]
     <3>1. SumFunctionOnSet(f, T) = [s \in SUBSET T |-> g[s]][T]
       BY <2>2, <2>3, SumIs
     <3> QED BY <3>1
   <2>5. g[S] = f[Pick(S)] + g[T]
     BY <1>1, <1>4 DEF Adds
   <2> QED BY <1>2, <1>4, <2>1, <2>4, <2>5
 <1> QED BY <1>3, <1>4

\* A sum of natural numbers is one.
LEMMA SumNat ==
  ASSUME NEW f, NEW S, IsFiniteSet(S), \A x \in S : f[x] \in Nat
  PROVE  SumFunctionOnSet(f, S) \in Nat
 <1> DEFINE D == {s \in SUBSET S : SumFunctionOnSet(f, s) \notin Nat}
 <1>1. SUFFICES ASSUME D # {} PROVE FALSE
   BY <1>1
 <1>2. PICK s \in D : \A t \in SUBSET s : t # s => t \notin D
   <2>1. D \in SUBSET SUBSET S
     OBVIOUS
   <2> HIDE DEF D
   <2> QED BY <1>1, <2>1, SmallestBad
 <1>3. IsFiniteSet(s)
   BY FS_Subset
 <1>4. s # {} /\ Pick(s) \in s
       /\ SumFunctionOnSet(f, s) = f[Pick(s)] + SumFunctionOnSet(f, s \ {Pick(s)})
   BY <1>3, SumUnfolds
 <1>5. SumFunctionOnSet(f, s \ {Pick(s)}) \in Nat
   BY <1>2, <1>4
 <1> QED BY <1>4, <1>5

\* Any element may be taken out of a sum.
LEMMA SumTakes ==
  ASSUME NEW f, NEW S, IsFiniteSet(S), \A x \in S : f[x] \in Nat, NEW x \in S
  PROVE  SumFunctionOnSet(f, S) = f[x] + SumFunctionOnSet(f, S \ {x})
 <1> DEFINE D == {s \in SUBSET S : \E y \in s :
                    SumFunctionOnSet(f, s) # f[y] + SumFunctionOnSet(f, s \ {y})}
 <1>1. SUFFICES ASSUME D # {} PROVE FALSE
   BY <1>1
 <1>2. PICK s \in D : \A t \in SUBSET s : t # s => t \notin D
   <2>1. D \in SUBSET SUBSET S
     OBVIOUS
   <2> HIDE DEF D
   <2> QED BY <1>1, <2>1, SmallestBad
 <1>3. PICK y \in s : SumFunctionOnSet(f, s) # f[y] + SumFunctionOnSet(f, s \ {y})
   OBVIOUS
 <1> DEFINE z == Pick(s)
            r == s \ {y, z}
 <1>4. IsFiniteSet(s) /\ IsFiniteSet(r) /\ IsFiniteSet(s \ {y}) /\ IsFiniteSet(s \ {z})
   BY FS_Subset
 <1>5. z \in s /\ SumFunctionOnSet(f, s) = f[z] + SumFunctionOnSet(f, s \ {z})
   BY <1>3, <1>4, SumUnfolds
 <1> HIDE DEF z
 <1>6. y # z
   BY <1>3, <1>5
 <1>7. SumFunctionOnSet(f, s \ {z}) = f[y] + SumFunctionOnSet(f, r)
   <2>1. s \ {z} \notin D /\ y \in s \ {z} /\ r = (s \ {z}) \ {y}
     BY <1>2, <1>5, <1>6
   <2> QED BY <2>1
 <1>8. SumFunctionOnSet(f, s \ {y}) = f[z] + SumFunctionOnSet(f, r)
   <2>1. s \ {y} \notin D /\ z \in s \ {y} /\ r = (s \ {y}) \ {z}
     BY <1>2, <1>3, <1>5, <1>6
   <2> QED BY <2>1
 <1>9. SumFunctionOnSet(f, r) \in Nat /\ f[y] \in Nat /\ f[z] \in Nat
   BY <1>3, <1>4, <1>5, SumNat
 <1> QED BY <1>3, <1>5, <1>7, <1>8, <1>9

\* Leaving elements out makes no sum larger.
LEMMA SumOfSubset ==
  ASSUME NEW g, NEW T, IsFiniteSet(T), \A y \in T : g[y] \in Nat, NEW U \in SUBSET T
  PROVE  SumFunctionOnSet(g, U) <= SumFunctionOnSet(g, T)
 <1> DEFINE D == {s \in SUBSET (T \ U) :
                    ~(SumFunctionOnSet(g, U) <= SumFunctionOnSet(g, U \cup s))}
 <1>1. SUFFICES ASSUME D # {} PROVE FALSE
   <2>1. T \ U \notin D /\ U \cup (T \ U) = T
     BY <1>1
   <2> QED BY <2>1
 <1>2. PICK s \in D : \A t \in SUBSET s : t # s => t \notin D
   <2>1. D \in SUBSET SUBSET (T \ U) /\ IsFiniteSet(T \ U)
     BY FS_Subset
   <2> HIDE DEF D
   <2> QED BY <1>1, <2>1, SmallestBad
 <1>3. SumFunctionOnSet(g, U) \in Nat /\ IsFiniteSet(U \cup s)
   <2>1. IsFiniteSet(U) /\ IsFiniteSet(U \cup s)
     BY FS_Subset
   <2> QED BY <2>1, SumNat
 <1>4. PICK z \in s : TRUE
   <2>1. CASE s = {}
     <3>1. U \cup s = U
       BY <2>1
     <3> QED BY <1>3, <3>1
   <2> QED BY <2>1
 <1>5. SumFunctionOnSet(g, U \cup s) = g[z] + SumFunctionOnSet(g, (U \cup s) \ {z})
   <2>1. U \cup s \subseteq T /\ z \in U \cup s
     BY <1>4
   <2>2. \A y \in U \cup s : g[y] \in Nat
     BY <2>1
   <2> QED BY <1>3, <2>1, <2>2, SumTakes
 <1>6. (U \cup s) \ {z} = U \cup (s \ {z}) /\ s \ {z} \notin D
       /\ s \ {z} \in SUBSET (T \ U)
   BY <1>2, <1>4
 <1>7. SumFunctionOnSet(g, U) <= SumFunctionOnSet(g, U \cup (s \ {z}))
   BY <1>6
 <1>8. SumFunctionOnSet(g, U \cup (s \ {z})) \in Nat
   <2>1. IsFiniteSet(U \cup (s \ {z})) /\ \A y \in U \cup (s \ {z}) : g[y] \in Nat
     BY FS_Subset
   <2> QED BY <2>1, SumNat
 <1>9. g[z] \in Nat /\ ~(SumFunctionOnSet(g, U) <= SumFunctionOnSet(g, U \cup s))
   BY <1>4
 <1> HIDE DEF D
 <1> QED BY <1>3, <1>5, <1>6, <1>7, <1>8, <1>9

\* A sum is at most another one into which its elements can be mapped, one to
\* one and to values that are no smaller.
LEMMA SumInjects ==
  ASSUME NEW f, NEW S, IsFiniteSet(S), \A x \in S : f[x] \in Nat,
         NEW g, NEW T, IsFiniteSet(T), \A y \in T : g[y] \in Nat,
         NEW m, \A x \in S : m[x] \in T /\ f[x] <= g[m[x]],
         \A x, y \in S : m[x] = m[y] => x = y
  PROVE  SumFunctionOnSet(f, S) <= SumFunctionOnSet(g, T)
 <1> DEFINE Image(s) == {m[x] : x \in s}
            D == {s \in SUBSET S :
                    ~(SumFunctionOnSet(f, s) <= SumFunctionOnSet(g, Image(s)))}
 <1>0. \A s \in SUBSET S : Image(s) \in SUBSET T
   OBVIOUS
 <1>1. SUFFICES ASSUME D # {} PROVE FALSE
   <2>1. SumFunctionOnSet(f, S) <= SumFunctionOnSet(g, Image(S))
     BY <1>1
   <2>2. Image(S) \in SUBSET T
     BY <1>0
   <2> HIDE DEF Image
   <2>3. SumFunctionOnSet(g, Image(S)) <= SumFunctionOnSet(g, T)
     BY <2>2, SumOfSubset
   <2>4. SumFunctionOnSet(f, S) \in Nat /\ SumFunctionOnSet(g, T) \in Nat
         /\ SumFunctionOnSet(g, Image(S)) \in Nat
     <3>1. IsFiniteSet(Image(S)) /\ \A y \in Image(S) : g[y] \in Nat
       BY <2>2, FS_Subset
     <3> QED BY <3>1, SumNat
   <2> QED BY <2>1, <2>3, <2>4
 <1>2. PICK s \in D : \A t \in SUBSET s : t # s => t \notin D
   <2>1. D \in SUBSET SUBSET S
     OBVIOUS
   <2> HIDE DEF D
   <2> QED BY <1>1, <2>1, SmallestBad
 <1>3. s \in SUBSET S /\ IsFiniteSet(s) /\ Image(s) \in SUBSET T /\ IsFiniteSet(Image(s))
   BY <1>0, FS_Subset
 <1>4. PICK z \in s : TRUE
   <2>1. CASE s = {}
     <3>1. Image(s) = {} /\ IsFiniteSet({})
       BY <2>1, FS_EmptySet
     <3>2. SumFunctionOnSet(f, s) = 0 /\ SumFunctionOnSet(g, Image(s)) = 0
       BY <2>1, <3>1, SumUnfolds
     <3> QED BY <3>2
   <2> QED BY <2>1
 <1>5. Image(s \ {z}) = Image(s) \ {m[z]} /\ m[z] \in Image(s)
   BY <1>3, <1>4
 <1>6. SumFunctionOnSet(f, s) = f[z] + SumFunctionOnSet(f, s \ {z})
   BY <1>3, <1>4, SumTakes
 <1>7. ~(SumFunctionOnSet(f, s) <= SumFunctionOnSet(g, Image(s)))
   OBVIOUS
 <1>8. SumFunctionOnSet(f, s \ {z}) <= SumFunctionOnSet(g, Image(s \ {z}))
   <2>1. s \ {z} \notin D /\ s \ {z} \in SUBSET S
     BY <1>2, <1>3, <1>4
   <2> QED BY <2>1
 <1> HIDE DEF D
 <1> HIDE DEF Image
 <1>9. SumFunctionOnSet(g, Image(s)) = g[m[z]] + SumFunctionOnSet(g, Image(s) \ {m[z]})
   BY <1>3, <1>5, SumTakes
 <1>10. /\ SumFunctionOnSet(f, s \ {z}) \in Nat
        /\ SumFunctionOnSet(g, Image(s) \ {m[z]}) \in Nat
   <2>1. IsFiniteSet(s \ {z}) /\ IsFiniteSet(Image(s) \ {m[z]})
     BY <1>3, FS_Subset
   <2> QED BY <1>3, <2>1, SumNat
 <1>11. f[z] \in Nat /\ g[m[z]] \in Nat /\ f[z] <= g[m[z]]
   BY <1>3, <1>4
 <1>12. SumFunctionOnSet(f, s \ {z}) <= SumFunctionOnSet(g, Image(s) \ {m[z]})
   BY <1>5, <1>8
 <1>13. \A a, b, c, d \in Nat : a <= b /\ c <= d => a + c <= b + d
   OBVIOUS
 <1> QED BY <1>6, <1>7, <1>9, <1>10, <1>11, <1>12, <1>13

\* Functions that agree on a set have the same sum over it.
LEMMA SumAgrees ==
  ASSUME NEW S, IsFiniteSet(S), NEW f, NEW g,
         \A x \in S : f[x] \in Nat /\ g[x] = f[x]
  PROVE  SumFunctionOnSet(f, S) = SumFunctionOnSet(g, S)
 <1> DEFINE m == [x \in S |-> x]
 <1>1. \A x \in S : m[x] = x
   OBVIOUS
 <1> HIDE DEF m
 <1>2. SumFunctionOnSet(f, S) <= SumFunctionOnSet(g, S)
   BY <1>1, SumInjects
 <1>3. SumFunctionOnSet(g, S) <= SumFunctionOnSet(f, S)
   BY <1>1, SumInjects
 <1>4. SumFunctionOnSet(f, S) \in Nat /\ SumFunctionOnSet(g, S) \in Nat
   BY SumNat
 <1> QED BY <1>2, <1>3, <1>4

\* The sum over two sets that have no element in common.
LEMMA SumOfUnion ==
  ASSUME NEW f, NEW S, NEW T, IsFiniteSet(S), IsFiniteSet(T), S \cap T = {},
         \A x \in S \cup T : f[x] \in Nat
  PROVE  SumFunctionOnSet(f, S \cup T)
           = SumFunctionOnSet(f, S) + SumFunctionOnSet(f, T)
 <1> DEFINE D == {s \in SUBSET T : SumFunctionOnSet(f, S \cup s)
                     # SumFunctionOnSet(f, S) + SumFunctionOnSet(f, s)}
 <1>1. SUFFICES ASSUME D # {} PROVE FALSE
   <2>1. T \notin D
     BY <1>1
   <2> QED BY <2>1
 <1>2. PICK s \in D : \A t \in SUBSET s : t # s => t \notin D
   <2>1. D \in SUBSET SUBSET T
     OBVIOUS
   <2> HIDE DEF D
   <2> QED BY <1>1, <2>1, SmallestBad
 <1>3. s \in SUBSET T /\ IsFiniteSet(s) /\ IsFiniteSet(S \cup s)
   BY FS_Subset, FS_Union
 <1>4. SumFunctionOnSet(f, S) \in Nat
   BY SumNat
 <1>5. PICK z \in s : TRUE
   <2>1. CASE s = {}
     <3>1. S \cup s = S /\ SumFunctionOnSet(f, s) = 0
       BY <1>3, <2>1, SumUnfolds
     <3>2. SumFunctionOnSet(f, S \cup s) # SumFunctionOnSet(f, S) + SumFunctionOnSet(f, s)
       OBVIOUS
     <3> HIDE DEF D
     <3> QED BY <1>4, <3>1, <3>2
   <2> QED BY <2>1
 <1>6. /\ SumFunctionOnSet(f, S \cup s) = f[z] + SumFunctionOnSet(f, (S \cup s) \ {z})
       /\ SumFunctionOnSet(f, s) = f[z] + SumFunctionOnSet(f, s \ {z})
   <2>1. \A x \in S \cup s : f[x] \in Nat
     BY <1>3
   <2> QED BY <1>3, <1>5, <2>1, SumTakes
 <1>7. (S \cup s) \ {z} = S \cup (s \ {z}) /\ s \ {z} \notin D
       /\ s \ {z} \in SUBSET T
   BY <1>2, <1>3, <1>5
 <1>8. SumFunctionOnSet(f, S \cup (s \ {z}))
         = SumFunctionOnSet(f, S) + SumFunctionOnSet(f, s \ {z})
   BY <1>7
 <1>9. SumFunctionOnSet(f, s \ {z}) \in Nat /\ f[z] \in Nat
   <2>1. IsFiniteSet(s \ {z}) /\ \A y \in s \ {z} : f[y] \in Nat
     BY <1>3, FS_Subset
   <2> QED BY <1>3, <1>5, <2>1, SumNat
 <1>10. SumFunctionOnSet(f, S \cup s) # SumFunctionOnSet(f, S) + SumFunctionOnSet(f, s)
   OBVIOUS
 <1> HIDE DEF D
 <1> QED BY <1>4, <1>6, <1>7, <1>8, <1>9, <1>10

\* A common factor may be taken out of a sum.
LEMMA SumScales ==
  ASSUME NEW S, IsFiniteSet(S), NEW k \in Nat, NEW f, NEW g,
         \A x \in S : f[x] \in Nat /\ g[x] = f[x] * k
  PROVE  SumFunctionOnSet(g, S) = SumFunctionOnSet(f, S) * k
 <1> DEFINE D == {s \in SUBSET S :
                    SumFunctionOnSet(g, s) # SumFunctionOnSet(f, s) * k}
 <1>1. SUFFICES ASSUME D # {} PROVE FALSE
   BY <1>1
 <1>2. PICK s \in D : \A t \in SUBSET s : t # s => t \notin D
   <2>1. D \in SUBSET SUBSET S
     OBVIOUS
   <2> HIDE DEF D
   <2> QED BY <1>1, <2>1, SmallestBad
 <1>3. s \in SUBSET S /\ IsFiniteSet(s)
   BY FS_Subset
 <1>4. \A x \in S : f[x] * k \in Nat
   OBVIOUS
 <1>5. PICK z \in s : TRUE
   <2>1. CASE s = {}
     <3>1. SumFunctionOnSet(f, s) = 0 /\ SumFunctionOnSet(g, s) = 0
       BY <1>3, <2>1, SumUnfolds
     <3>2. 0 = 0 * k
       OBVIOUS
     <3> QED BY <3>1, <3>2
   <2> QED BY <2>1
 <1>6. /\ SumFunctionOnSet(f, s) = f[z] + SumFunctionOnSet(f, s \ {z})
       /\ SumFunctionOnSet(g, s) = g[z] + SumFunctionOnSet(g, s \ {z})
   <2>1. \A x \in s : f[x] \in Nat /\ g[x] \in Nat
     BY <1>3, <1>4
   <2> QED BY <1>3, <1>5, <2>1, SumTakes
 <1>7. SumFunctionOnSet(g, s \ {z}) = SumFunctionOnSet(f, s \ {z}) * k
   <2>1. s \ {z} \notin D /\ s \ {z} \in SUBSET S
     BY <1>2, <1>3, <1>5
   <2> QED BY <2>1
 <1>8. SumFunctionOnSet(f, s \ {z}) \in Nat /\ f[z] \in Nat /\ g[z] = f[z] * k
   <2>1. IsFiniteSet(s \ {z}) /\ \A y \in s \ {z} : f[y] \in Nat
     BY <1>3, FS_Subset
   <2> QED BY <1>3, <1>5, <2>1, SumNat
 <1>9. \A a, b \in Nat : (a + b) * k = a * k + b * k
   OBVIOUS
 <1>10. SumFunctionOnSet(g, s) # SumFunctionOnSet(f, s) * k
   OBVIOUS
 <1> HIDE DEF D
 <1> QED BY <1>6, <1>7, <1>8, <1>9, <1>10

-----------------------------------------------------------------------------
(* Least and greatest numbers.                                             *)

LEMMA SmallestNat ==
    ASSUME NEW T \in SUBSET Nat, T # {}
    PROVE  \E x \in T : \A y \in T : x <= y
  <1>1. PICK x \in T : \A y \in T : ~(<<y, x>> \in OpToRel(<, Nat))
    BY NatLessThanWellFounded, WFMin
  <1>2. \A y \in T : ~(y < x)
    BY <1>1 DEF OpToRel
  <1>3. QED
    BY <1>2

LEMMA LargestNat ==
    ASSUME NEW n \in Nat, NEW T \in SUBSET (0..n), T # {}
    PROVE  \E x \in T : \A y \in T : x >= y
  <1> DEFINE D == {n - y : y \in T}
  <1>0. \A y \in T : y \in Nat /\ y <= n /\ n - y \in Nat
    OBVIOUS
  <1>1. D \in SUBSET Nat /\ D # {}
    BY <1>0
  <1>2. PICK d \in D : \A e \in D : d <= e
    BY <1>1, SmallestNat
  <1>3. PICK x \in T : d = n - x
    BY <1>2
  <1>4. \A y \in T : n - x <= n - y
    BY <1>2, <1>3
  <1>5. QED
    BY <1>0, <1>4

LEMMA MaxMember ==
    ASSUME NEW n \in Nat, NEW T \in SUBSET (0..n), T # {}
    PROVE  Max(T) \in T /\ \A y \in T : Max(T) >= y
  BY LargestNat DEF Max

LEMMA MinMember ==
    ASSUME NEW T \in SUBSET Nat, T # {}
    PROVE  Min(T) \in T /\ \A y \in T : Min(T) <= y
  BY SmallestNat DEF Min
=============================================================================
