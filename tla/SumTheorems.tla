---------------------------- MODULE SumTheorems ----------------------------
(***************************************************************************)
(* What SumFunction of the community modules computes for a function from  *)
(* a finite set into the naturals: a natural that follows every update of  *)
(* one value.  BalanceLedger states its totals with SumFunction.           *)
(*                                                                         *)
(* SumFunction is a recursive function on the subsets of the domain.  The  *)
(* induction over those subsets is carried out by minimal counterexamples: *)
(* the proper-subset ordering of a finite set is well founded.             *)
(***************************************************************************)
EXTENDS Integers, Functions, FiniteSetTheorems, TLAPS

\* The element with which the sum over s begins.
Pick(s) == CHOOSE x \in s : TRUE

\* g maps every subset of K to the sum of f over it.
IsSum(f, K, g) ==
    g = [s \in SUBSET K |-> IF s = {} THEN 0 ELSE f[Pick(s)] + g[s \ {Pick(s)}]]

\* SumFunction is the value of such a function at the whole domain.
LEMMA SumIsIter ==
    ASSUME NEW f
    PROVE  SumFunction(f) = (CHOOSE g : IsSum(f, DOMAIN f, g))[DOMAIN f]
BY DEF SumFunction, SumFunctionOnSet, FoldFunctionOnSet, MapThenFoldSet, IsSum, Pick

\* The sum over the empty set.
LEMMA SumEmpty ==
    ASSUME NEW f, NEW K, NEW g, IsSum(f, K, g)
    PROVE  g[{}] = 0
BY DEF IsSum

\* The sum over a set, with its first element apart.
LEMMA SumStep ==
    ASSUME NEW f, NEW K, NEW g, IsSum(f, K, g), NEW s \in SUBSET K, s # {}
    PROVE  Pick(s) \in s /\ g[s] = f[Pick(s)] + g[s \ {Pick(s)}]
<1>1. Pick(s) \in s
  BY DEF Pick
<1>2. g[s] = f[Pick(s)] + g[s \ {Pick(s)}]
  BY DEF IsSum
<1>3. QED
  BY <1>1, <1>2

\* A set of subsets of a finite set has a minimal element.
LEMMA MinimalSubset ==
    ASSUME NEW K, IsFiniteSet(K), NEW B \in SUBSET (SUBSET K), B # {}
    PROVE  \E s \in B : \A u \in B : ~(u \subseteq s /\ u # s)
<1>1. IsWellFoundedOn(StrictSubsetOrdering(K), SUBSET K)
  BY FS_FiniteSubsetsOfFinite, FS_StrictSubsetOrderingWellFounded
<1>2. PICK s \in B : \A u \in B : ~(<<u, s>> \in StrictSubsetOrdering(K))
  BY <1>1, WFMin
<1>3. ASSUME NEW u \in B, u \subseteq s, u # s
      PROVE  FALSE
  BY <1>2, <1>3 DEF StrictSubsetOrdering
<1>4. \A u \in B : ~(u \subseteq s /\ u # s)
  BY <1>3
<1>5. QED
  BY <1>4

\* Two sums of one function agree wherever both are defined.
LEMMA SumAgree ==
    ASSUME NEW f, NEW K, NEW L, NEW g, NEW h, IsFiniteSet(K), L \subseteq K,
           IsSum(f, K, g), IsSum(f, L, h)
    PROVE  \A s \in SUBSET L : g[s] = h[s]
<1> DEFINE B == {s \in SUBSET L : g[s] # h[s]}
<1>1. SUFFICES ASSUME B # {} PROVE FALSE
  OBVIOUS
<1>2. B \in SUBSET (SUBSET K)
  OBVIOUS
<1>3. PICK s \in B : \A u \in B : ~(u \subseteq s /\ u # s)
  <2> HIDE DEF B
  <2>1. QED
    BY <1>1, <1>2, MinimalSubset
<1>4. s \in SUBSET L /\ s \in SUBSET K /\ g[s] # h[s]
  BY <1>3
<1>5. s # {}
  BY <1>4, SumEmpty
<1> DEFINE t == s \ {Pick(s)}
<1>6. Pick(s) \in s /\ g[s] = f[Pick(s)] + g[t] /\ h[s] = f[Pick(s)] + h[t]
  BY <1>4, <1>5, SumStep
<1>7. t \in SUBSET L /\ t \subseteq s /\ t # s
  BY <1>4, <1>6
<1>8. g[t] = h[t]
  BY <1>3, <1>7
<1>9. QED
  BY <1>4, <1>6, <1>8

\* The recursion that defines the sum has a solution on every finite set.
LEMMA SumExists ==
    ASSUME NEW f, NEW K, IsFiniteSet(K)
    PROVE  \E g : IsSum(f, K, g)
<1> DEFINE B == {s \in SUBSET K : ~ \E g : IsSum(f, s, g)}
<1>1. SUFFICES ASSUME B # {} PROVE FALSE
  OBVIOUS
<1>2. B \in SUBSET (SUBSET K)
  OBVIOUS
<1>3. PICK s \in B : \A u \in B : ~(u \subseteq s /\ u # s)
  <2> HIDE DEF B
  <2>1. QED
    BY <1>1, <1>2, MinimalSubset
<1>4. s \in SUBSET K /\ ~ \E g : IsSum(f, s, g)
  BY <1>3
<1> DEFINE Sum(u) == CHOOSE g : IsSum(f, u, g)
           Next(t) == t \ {Pick(t)}
           G == [t \in SUBSET s |->
                   IF t = {} THEN 0 ELSE f[Pick(t)] + Sum(Next(t))[Next(t)]]
<1>5. ASSUME NEW u \in SUBSET s, u # s
      PROVE  IsSum(f, u, Sum(u)) /\ IsFiniteSet(u)
  <2>1. u \in SUBSET K /\ u \notin B
    BY <1>3, <1>4, <1>5
  <2>2. \E g : IsSum(f, u, g)
    BY <2>1
  <2>3. QED
    BY <2>1, <2>2, FS_Subset
<1>6. ASSUME NEW u \in SUBSET s, u # s
      PROVE  G[u] = Sum(u)[u]
  <2>1. IsSum(f, u, Sum(u)) /\ IsFiniteSet(u)
    BY <1>5, <1>6
  <2>2. CASE u = {}
    <3> HIDE DEF Sum
    <3>1. Sum(u)[u] = 0
      BY <2>1, <2>2, SumEmpty
    <3>2. QED
      BY <2>2, <3>1
  <2>3. CASE u # {}
    <3>1. Pick(u) \in u /\ Next(u) \in SUBSET u
      BY <2>3 DEF Pick
    <3>2. Next(u) \in SUBSET s /\ Next(u) # s /\ Next(u) \subseteq u
      BY <3>1
    <3>3. IsSum(f, Next(u), Sum(Next(u)))
      BY <1>5, <3>2
    <3> HIDE DEF Sum
    <3>4. Sum(u)[u] = f[Pick(u)] + Sum(u)[Next(u)]
      BY <2>1, <2>3, SumStep
    <3>5. Sum(u)[Next(u)] = Sum(Next(u))[Next(u)]
      <4> HIDE DEF Next
      <4>1. QED
        BY <2>1, <3>2, <3>3, SumAgree
    <3>6. G[u] = f[Pick(u)] + Sum(Next(u))[Next(u)]
      BY <2>3
    <3>7. QED
      BY <3>4, <3>5, <3>6
  <2>4. QED
    BY <2>2, <2>3
<1>7. ASSUME NEW t \in SUBSET s, t # {}
      PROVE  Sum(Next(t))[Next(t)] = G[Next(t)]
  <2>1. Pick(t) \in t
    BY <1>7 DEF Pick
  <2>2. Next(t) \in SUBSET s /\ Next(t) # s
    BY <2>1
  <2> HIDE DEF Sum, Next, G
  <2>3. QED
    BY <1>6, <2>2
<1>8. IsSum(f, s, G)
  <2> DEFINE H == [t \in SUBSET s |-> IF t = {} THEN 0 ELSE f[Pick(t)] + G[t \ {Pick(t)}]]
  <2>1. ASSUME NEW t \in SUBSET s
        PROVE  G[t] = IF t = {} THEN 0 ELSE f[Pick(t)] + G[t \ {Pick(t)}]
    <3>1. G[t] = IF t = {} THEN 0 ELSE f[Pick(t)] + Sum(Next(t))[Next(t)]
      <4> HIDE DEF Sum, Next
      <4>1. QED
        OBVIOUS
    <3>2. t # {} => Sum(Next(t))[Next(t)] = G[t \ {Pick(t)}]
      BY <1>7
    <3> HIDE DEF G, Sum
    <3>3. QED
      BY <3>1, <3>2
  <2>2. G = [t \in SUBSET s |-> G[t]]
    <3> HIDE DEF Sum, Next
    <3>1. QED
      OBVIOUS
  <2> HIDE DEF G
  <2>3. G = H
    BY <2>1, <2>2
  <2>4. QED
    BY <2>3 DEF IsSum
<1>9. QED
  BY <1>4, <1>8

\* SumFunction of a function on a finite set is the value of its sum.
LEMMA SumValue ==
    ASSUME NEW K, IsFiniteSet(K), NEW V, NEW f \in [K -> V]
    PROVE  \E g : IsSum(f, K, g) /\ SumFunction(f) = g[K]
<1>1. IsSum(f, K, CHOOSE g : IsSum(f, K, g))
  BY SumExists
<1>2. SumFunction(f) = (CHOOSE g : IsSum(f, K, g))[K]
  BY SumIsIter
<1>3. QED
  BY <1>1, <1>2

\* A sum of naturals is a natural.
LEMMA SumNat ==
    ASSUME NEW K, IsFiniteSet(K), NEW f \in [K -> Nat]
    PROVE  SumFunction(f) \in Nat
<1>1. PICK g : IsSum(f, K, g) /\ SumFunction(f) = g[K]
  BY SumValue
<1> DEFINE B == {s \in SUBSET K : g[s] \notin Nat}
<1>2. SUFFICES ASSUME B # {} PROVE FALSE
  BY <1>1
<1>3. PICK s \in B : \A u \in B : ~(u \subseteq s /\ u # s)
  <2>1. B \in SUBSET (SUBSET K)
    OBVIOUS
  <2> HIDE DEF B
  <2>2. QED
    BY <1>2, <2>1, MinimalSubset
<1>4. s \in SUBSET K /\ g[s] \notin Nat
  BY <1>3
<1>5. s # {}
  BY <1>1, <1>4, SumEmpty
<1> DEFINE t == s \ {Pick(s)}
<1>6. Pick(s) \in s /\ g[s] = f[Pick(s)] + g[t]
  <2> HIDE DEF B
  <2>1. QED
    BY <1>1, <1>4, <1>5, SumStep
<1>7. g[t] \in Nat
  BY <1>3, <1>4, <1>6
<1>8. f[Pick(s)] \in Nat
  BY <1>4, <1>6
<1>9. QED
  BY <1>4, <1>6, <1>7, <1>8

\* A sum of zeros is zero.
LEMMA SumZero ==
    ASSUME NEW K, IsFiniteSet(K)
    PROVE  SumFunction([k \in K |-> 0]) = 0
<1> DEFINE f == [k \in K |-> 0]
<1>0. f \in [K -> Nat]
  OBVIOUS
<1> HIDE DEF f
<1>1. PICK g : IsSum(f, K, g) /\ SumFunction(f) = g[K]
  BY <1>0, SumValue
<1> DEFINE B == {s \in SUBSET K : g[s] # 0}
<1>2. SUFFICES ASSUME B # {} PROVE FALSE
  BY <1>1 DEF f
<1>3. PICK s \in B : \A u \in B : ~(u \subseteq s /\ u # s)
  <2>1. B \in SUBSET (SUBSET K)
    OBVIOUS
  <2> HIDE DEF B
  <2>2. QED
    BY <1>2, <2>1, MinimalSubset
<1>4. s \in SUBSET K /\ g[s] # 0
  BY <1>3
<1>5. s # {}
  BY <1>1, <1>4, SumEmpty
<1> DEFINE t == s \ {Pick(s)}
<1>6. Pick(s) \in s /\ g[s] = f[Pick(s)] + g[t]
  <2> HIDE DEF B
  <2>1. QED
    BY <1>1, <1>4, <1>5, SumStep
<1>7. g[t] = 0
  BY <1>3, <1>4, <1>6
<1>8. f[Pick(s)] = 0
  BY <1>4, <1>6 DEF f
<1>9. QED
  BY <1>4, <1>6, <1>7, <1>8

\* Changing one value changes the sum by as much.
LEMMA SumUpdate ==
    ASSUME NEW K, IsFiniteSet(K), NEW f \in [K -> Nat], NEW h \in [K -> Nat],
           NEW k \in K, \A j \in K \ {k} : h[j] = f[j]
    PROVE  SumFunction(h) = SumFunction(f) - f[k] + h[k]
<1>1. PICK F : IsSum(f, K, F) /\ SumFunction(f) = F[K]
  BY SumValue
<1>2. PICK H : IsSum(h, K, H) /\ SumFunction(h) = H[K]
  BY SumValue
<1> DEFINE Good(s) == /\ F[s] \in Int /\ H[s] \in Int
                      /\ k \notin s => H[s] = F[s]
                      /\ k \in s => H[s] = F[s] - f[k] + h[k]
           B == {s \in SUBSET K : ~Good(s)}
<1>3. SUFFICES ASSUME B # {} PROVE FALSE
  BY <1>1, <1>2
<1>4. PICK s \in B : \A u \in B : ~(u \subseteq s /\ u # s)
  <2> HIDE DEF Good
  <2>1. B \in SUBSET (SUBSET K)
    OBVIOUS
  <2> HIDE DEF B
  <2>2. QED
    BY <1>3, <2>1, MinimalSubset
<1>5. s \in SUBSET K /\ ~Good(s)
  BY <1>4
<1>6. s # {}
  BY <1>1, <1>2, <1>5, SumEmpty
<1> DEFINE p == Pick(s)
           t == s \ {p}
<1>7. p \in s /\ F[s] = f[p] + F[t]
  <2> HIDE DEF B, Good
  <2>1. QED
    BY <1>1, <1>5, <1>6, SumStep
<1>8. H[s] = h[p] + H[t]
  BY <1>2, <1>5, <1>6, SumStep
<1>9. Good(t)
  <2> HIDE DEF Good
  <2>1. QED
    BY <1>4, <1>5, <1>7
<1>10. p \in K /\ p \notin t /\ (p # k => (k \in s <=> k \in t)) /\ (p = k => k \notin t)
  BY <1>5, <1>7
<1>11. f[p] \in Nat /\ h[p] \in Nat /\ f[k] \in Nat /\ h[k] \in Nat
  BY <1>10
<1> HIDE DEF p, t
<1>12. CASE p = k
  BY <1>5, <1>7, <1>8, <1>9, <1>10, <1>11, <1>12
<1>13. CASE p # k
  <2>1. h[p] = f[p]
    BY <1>10, <1>13
  <2>2. QED
    BY <2>1, <1>5, <1>7, <1>8, <1>9, <1>10, <1>11, <1>13
<1>14. QED
  BY <1>12, <1>13

\* No value exceeds the sum.
LEMMA SumAtLeast ==
    ASSUME NEW K, IsFiniteSet(K), NEW f \in [K -> Nat], NEW k \in K
    PROVE  f[k] <= SumFunction(f)
<1> DEFINE h == [f EXCEPT ![k] = 0]
<1>1. h \in [K -> Nat] /\ h[k] = 0 /\ \A j \in K \ {k} : h[j] = f[j]
  OBVIOUS
<1> HIDE DEF h
<1>2. SumFunction(h) = SumFunction(f) - f[k] + h[k]
  BY <1>1, SumUpdate
<1>3. SumFunction(h) \in Nat /\ SumFunction(f) \in Nat
  BY <1>1, SumNat
<1>4. f[k] \in Nat
  OBVIOUS
<1>5. QED
  BY <1>1, <1>2, <1>3, <1>4

\* Larger values have the larger sum.
LEMMA SumMonotone ==
    ASSUME NEW K, IsFiniteSet(K), NEW f \in [K -> Nat], NEW h \in [K -> Nat],
           \A k \in K : f[k] <= h[k]
    PROVE  SumFunction(f) <= SumFunction(h)
<1>1. PICK F : IsSum(f, K, F) /\ SumFunction(f) = F[K]
  BY SumValue
<1>2. PICK H : IsSum(h, K, H) /\ SumFunction(h) = H[K]
  BY SumValue
<1> DEFINE Good(s) == F[s] \in Nat /\ H[s] \in Nat /\ F[s] <= H[s]
           B == {s \in SUBSET K : ~Good(s)}
<1>3. SUFFICES ASSUME B # {} PROVE FALSE
  BY <1>1, <1>2
<1>4. PICK s \in B : \A u \in B : ~(u \subseteq s /\ u # s)
  <2> HIDE DEF Good
  <2>1. B \in SUBSET (SUBSET K)
    OBVIOUS
  <2> HIDE DEF B
  <2>2. QED
    BY <1>3, <2>1, MinimalSubset
<1>5. s \in SUBSET K /\ ~Good(s)
  BY <1>4
<1>6. s # {}
  BY <1>1, <1>2, <1>5, SumEmpty
<1> DEFINE p == Pick(s)
           t == s \ {p}
<1>7. p \in s /\ F[s] = f[p] + F[t]
  <2> HIDE DEF B, Good
  <2>1. QED
    BY <1>1, <1>5, <1>6, SumStep
<1>8. H[s] = h[p] + H[t]
  BY <1>2, <1>5, <1>6, SumStep
<1>9. Good(t)
  <2> HIDE DEF Good
  <2>1. QED
    BY <1>4, <1>5, <1>7
<1>10. f[p] \in Nat /\ h[p] \in Nat /\ f[p] <= h[p]
  BY <1>5, <1>7
<1> HIDE DEF p, t
<1>11. QED
  BY <1>5, <1>7, <1>8, <1>9, <1>10
=============================================================================
