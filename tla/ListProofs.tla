------------------------------ MODULE ListProofs -----------------------------
(***************************************************************************)
(* What unlinking records from a list leaves, for lists of every length.   *)
(***************************************************************************)
EXTENDS Lists, FiniteSetTheorems, TLAPS

\* g tells where the entries of t stood in s: in the same order, and none of
\* the entries of s that are not in D is missing.
IsTrace(g, t, s, D) ==
    /\ g \in [DOMAIN t -> DOMAIN s]
    /\ \A m, n \in DOMAIN t : m < n => g[m] < g[n]
    /\ \A n \in DOMAIN t : t[n] = s[g[n]] /\ s[g[n]] \notin D
    /\ \A k \in DOMAIN s : s[k] \notin D => \E n \in DOMAIN t : g[n] = k

\* A finite set of places is numbered from 1 in their order.
LEMMA Ranks ==
    ASSUME NEW L \in Nat, NEW K, K \subseteq 1 .. L
    PROVE  /\ Cardinality(K) \in Nat
           /\ \A k \in K : Rank(K, k) \in 1 .. Cardinality(K)
           /\ \A i, k \in K : i < k => Rank(K, i) < Rank(K, k)
           /\ \A n \in 1 .. Cardinality(K) : \E k \in K : Rank(K, k) = n
<1> DEFINE N == Cardinality(K)
           Upto(k) == {j \in K : j <= k}
           rank == [k \in K |-> Rank(K, k)]
<1>1. IsFiniteSet(K) /\ N \in Nat
  <2>1. IsFiniteSet(1 .. L)
    BY FS_Interval
  <2>2. IsFiniteSet(K)
    BY <2>1, FS_Subset
  <2> QED
    BY <2>2, FS_CardinalityType
<1>2. ASSUME NEW k \in K
      PROVE  IsFiniteSet(Upto(k)) /\ Rank(K, k) \in 1 .. N
  <2>1. Upto(k) \subseteq K /\ Upto(k) # {}
    OBVIOUS
  <2>2. IsFiniteSet(Upto(k)) /\ Cardinality(Upto(k)) <= N
    BY <1>1, <2>1, FS_Subset
  <2>3. Cardinality(Upto(k)) \in Nat /\ Cardinality(Upto(k)) # 0
    BY <2>1, <2>2, FS_CardinalityType, FS_EmptySet
  <2> QED
    BY <1>1, <2>2, <2>3 DEF Rank
<1>3. \A k \in K : Rank(K, k) \in Nat /\ Rank(K, k) \in 1 .. N
  <2> HIDE DEF N
  <2>1. \A k \in K : Rank(K, k) \in 1 .. N
    BY <1>2
  <2> QED
    BY <1>1, <2>1
<1>4. ASSUME NEW i \in K, NEW k \in K, i < k
      PROVE  Rank(K, i) < Rank(K, k)
  <2>1. k \in Upto(k)
    OBVIOUS
  <2>2. ASSUME NEW j \in Upto(i) PROVE j \in Upto(k) \ {k}
    BY <1>4
  <2>3. Upto(i) \subseteq Upto(k) \ {k}
    BY <2>2
  <2>4. /\ IsFiniteSet(Upto(k) \ {k})
        /\ Cardinality(Upto(k) \ {k}) = Cardinality(Upto(k)) - 1
    BY <1>2, <2>1, FS_RemoveElement
  <2>5. Cardinality(Upto(i)) <= Cardinality(Upto(k) \ {k})
    BY <2>3, <2>4, FS_Subset
  <2>6. Rank(K, i) \in Nat /\ Rank(K, k) \in Nat
    BY <1>3
  <2> QED
    BY <2>4, <2>5, <2>6 DEF Rank
<1>5. rank \in Injection(K, 1 .. N)
  <2>1. rank \in [K -> 1 .. N]
    BY <1>2
  <2>2. ASSUME NEW i \in K, NEW k \in K, rank[i] = rank[k] PROVE i = k
    <3>1. Rank(K, i) = Rank(K, k) /\ Rank(K, i) \in Nat
      BY <1>3, <2>2
    <3>2. ~(i < k) /\ ~(k < i)
      BY <1>4, <3>1
    <3> QED
      BY <3>2
  <2> QED
    BY <2>1, <2>2 DEF Injection, IsInjective
<1>6. rank \in Surjection(K, 1 .. N)
  <2>1. IsFiniteSet(1 .. N) /\ Cardinality(1 .. N) = N
    BY <1>1, FS_Interval
  <2> HIDE DEF rank
  <2> QED
    BY <1>1, <1>5, <2>1, FS_Injection
<1>7. ASSUME NEW n \in 1 .. N PROVE \E k \in K : Rank(K, k) = n
  BY <1>6 DEF Surjection
<1> QED
  BY <1>1, <1>2, <1>4, <1>7

\* What is left is a list, and it has a trace.
LEMMA WithoutTrace ==
    ASSUME NEW S, NEW s \in Seq(S), NEW D
    PROVE  Without(s, D) \in Seq(S) /\ \E g : IsTrace(g, Without(s, D), s, D)
<1> DEFINE K == {k \in DOMAIN s : s[k] \notin D}
           N == Cardinality(K)
           g == [n \in 1 .. N |-> Nth(K, n)]
           t == [n \in 1 .. N |-> s[Nth(K, n)]]
<1>1. Without(s, D) = t
  BY DEF Without
<1>2. Len(s) \in Nat /\ K \subseteq 1 .. Len(s) /\ DOMAIN s = 1 .. Len(s)
  OBVIOUS
<1>3. \A k \in K : k \in DOMAIN s /\ k \in Nat /\ s[k] \in S /\ s[k] \notin D
  OBVIOUS
<1>4. \A k \in DOMAIN s : s[k] \notin D => k \in K
  OBVIOUS
<1> HIDE DEF K
<1>5. /\ N \in Nat
      /\ \A n \in 1 .. N : \E k \in K : Rank(K, k) = n
      /\ \A k \in K : Rank(K, k) \in 1 .. N
      /\ \A i, k \in K : i < k => Rank(K, i) < Rank(K, k)
  BY <1>2, Ranks
<1> HIDE DEF N
<1>6. \A n \in 1 .. N : g[n] \in K /\ Rank(K, g[n]) = n
  BY <1>5 DEF Nth
<1>7. DOMAIN g = 1 .. N /\ DOMAIN t = 1 .. N /\ \A n \in 1 .. N : t[n] = s[g[n]]
  OBVIOUS
<1>8. g \in [1 .. N -> DOMAIN s]
  BY <1>3, <1>6
<1>9. t \in [1 .. N -> S]
  BY <1>3, <1>6
<1> HIDE DEF g, t
<1>10. t \in Seq(S)
  BY <1>5, <1>9
<1>11. ASSUME NEW m \in 1 .. N, NEW n \in 1 .. N, m < n PROVE g[m] < g[n]
  <2>1. g[m] \in K /\ g[n] \in K /\ Rank(K, g[m]) < Rank(K, g[n])
    BY <1>6, <1>11
  <2>2. g[m] # g[n] /\ ~(g[n] < g[m])
    BY <1>5, <2>1
  <2> QED
    BY <1>3, <2>1, <2>2
<1>12. ASSUME NEW k \in DOMAIN s, s[k] \notin D PROVE \E n \in 1 .. N : g[n] = k
  <2> DEFINE n == Rank(K, k)
  <2>1. k \in K /\ n \in 1 .. N
    BY <1>4, <1>5, <1>12
  <2>2. g[n] \in K /\ Rank(K, g[n]) = Rank(K, k)
    BY <1>6, <2>1
  <2>3. ~(k < g[n]) /\ ~(g[n] < k)
    BY <1>5, <2>1, <2>2
  <2>4. g[n] = k
    BY <1>3, <2>1, <2>2, <2>3
  <2> QED
    BY <2>1, <2>4
<1>13. IsTrace(g, t, s, D)
  BY <1>3, <1>6, <1>7, <1>8, <1>11, <1>12 DEF IsTrace
<1> QED
  BY <1>1, <1>10, <1>13

\* Unlinking leaves the other entries, and each of them once if it was there once.
LEMMA WithoutElems ==
    ASSUME NEW S, NEW s \in Seq(S), NEW D
    PROVE  /\ Without(s, D) \in Seq(S) /\ Elems(Without(s, D)) = Elems(s) \ D
           /\ NoDup(s) => NoDup(Without(s, D))
<1> DEFINE t == Without(s, D)
<1>1. t \in Seq(S)
  BY WithoutTrace
<1>2. PICK g : IsTrace(g, t, s, D)
  BY WithoutTrace
<1> HIDE DEF t
<1>3. /\ \A n \in DOMAIN t : g[n] \in DOMAIN s /\ t[n] = s[g[n]] /\ s[g[n]] \notin D
      /\ \A k \in DOMAIN s : s[k] \notin D => \E n \in DOMAIN t : t[n] = s[k]
  BY <1>2 DEF IsTrace
<1>4. Elems(t) = Elems(s) \ D
  BY <1>3 DEF Elems
<1>5. ASSUME NoDup(s), NEW m \in DOMAIN t, NEW n \in DOMAIN t, t[m] = t[n]
      PROVE  m = n
  <2>1. m \in Nat /\ n \in Nat
    BY <1>1
  <2>2. g[m] = g[n]
    BY <1>3, <1>5 DEF NoDup
  <2>3. g[m] \in Nat /\ ~(m < n) /\ ~(n < m)
    BY <1>2, <2>2 DEF IsTrace
  <2> QED
    BY <2>1, <2>3
<1> QED
  BY <1>1, <1>4, <1>5 DEF NoDup, t
==============================================================================
