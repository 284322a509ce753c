----------------------------- MODULE SchedProofs -----------------------------
(***************************************************************************)
(* The pointer-level scheduler, for any number of tasks, delays and clock  *)
(* readings, and for clients that leave a task alone once it is in runnow  *)
(* (RetireBatched = FALSE).  The inductive invariant says of the main      *)
(* list, of runnow and of the freelist which sequence of entries a walk    *)
(* along next visits, and of prev, tails, hint, marks and heap how they    *)
(* agree with those sequences.  Each C function is then shown to do to the *)
(* pointers what an insertion or a removal does to a sequence, and the     *)
(* line of tasks of TaskQueue is refined step by step.                     *)
(***************************************************************************)
EXTENDS Sched, FiniteSetTheorems, WellFoundedInduction, TLAPS

\* TaskQueue's theorems of the line that the pointers make.
LP == INSTANCE TaskQueueProofs WITH
    queue <- MainChain, batch <- RunChain, due <- list.due

-----------------------------------------------------------------------------
(* Walks *)

\* The entry at a place, NULL beyond either end.
At(s, i) == IF i \in DOMAIN s THEN s[i] ELSE NULL

Once(s) == \A i, j \in DOMAIN s : s[i] = s[j] => i = j

\* From st along nx one meets s, no entry twice, and then NULL.
IsWalk(nx, st, s) ==
    /\ s \in Seq(Tasks) /\ Once(s) /\ st = At(s, 1)
    /\ \A i \in DOMAIN s : nx[s[i]] = At(s, i + 1)

\* pv leads back along s.
IsBack(pv, s) == \A i \in DOMAIN s : pv[s[i]] = At(s, i - 1)

\* Counting up to a bound.
LEMMA UpTo ==
    ASSUME NEW n \in Nat, NEW G, 0 \in G, \A i \in Nat : i < n /\ i \in G => i + 1 \in G
    PROVE  \A i \in 0 .. n : i \in G
<1> DEFINE T == {i \in 0 .. n : i \notin G}
<1>1. SUFFICES ASSUME T # {}  PROVE FALSE
  OBVIOUS
<1>2. T \subseteq Nat
  OBVIOUS
<1> HIDE DEF T
<1>3. PICK x \in T : \A y \in T : ~(<<y, x>> \in OpToRel(<, Nat))
  BY <1>1, <1>2, NatLessThanWellFounded, WFMin
<1>4. \A y \in T : ~(y < x)
  BY <1>2, <1>3 DEF OpToRel
<1> QED
  BY <1>4 DEF T

LEMMA PlacesUpTo ==
    ASSUME NEW n \in Nat
    PROVE  IsFiniteSet(1 .. n) /\ Cardinality(1 .. n) = n
  BY FS_Interval

\* What a sequence holds at its places.
LEMMA AtSeq ==
    ASSUME NEW s \in Seq(Tasks)
    PROVE  /\ Len(s) \in Nat /\ DOMAIN s = 1 .. Len(s)
           /\ \A i \in Int : At(s, i) = IF 1 <= i /\ i <= Len(s) THEN s[i] ELSE NULL
           /\ \A i \in DOMAIN s : s[i] \in Tasks /\ s[i] # NULL /\ s[i] \in Elems(s)
           /\ \A i \in Int : At(s, i) \in Ptr /\ (At(s, i) # NULL <=> i \in DOMAIN s)
<1>1. Len(s) \in Nat /\ DOMAIN s = 1 .. Len(s)
  OBVIOUS
<1>2. \A i \in DOMAIN s : s[i] \in Tasks /\ s[i] # NULL /\ s[i] \in Elems(s)
  BY SchedAssumption DEF Elems
<1> QED
  BY <1>1, <1>2 DEF At, Ptr

\* A walk that meets no entry twice is no longer than there are entries.
LEMMA WalkFits ==
    ASSUME NEW s \in Seq(Tasks), Once(s)
    PROVE  Cardinality(Tasks) \in Nat /\ Len(s) <= Cardinality(Tasks)
<1>1. Cardinality(Tasks) \in Nat /\ Len(s) \in Nat
  BY FS_CardinalityType, SchedAssumption
<1>2. s \in Injection(1 .. Len(s), Tasks)
  <2>1. s \in [1 .. Len(s) -> Tasks] /\ DOMAIN s = 1 .. Len(s)
    OBVIOUS
  <2> QED
    BY <2>1 DEF Injection, IsInjective, Once
<1>3. Cardinality(1 .. Len(s)) <= Cardinality(Tasks)
  BY <1>2, FS_Injection, SchedAssumption
<1>4. Cardinality(1 .. Len(s)) = Len(s)
  BY <1>1, PlacesUpTo
<1> QED
  BY <1>1, <1>3, <1>4

\* One step of a walk.
NextOf(L, start, f) ==
    [k \in 1 .. Cardinality(Tasks) |->
        IF k = 1 THEN start ELSE IF f[k - 1] = NULL THEN NULL ELSE L.next[f[k - 1]]]

\* Chain reads off the sequence that a walk meets.
LEMMA ChainIs ==
    ASSUME NEW L, NEW st, NEW s, IsWalk(L.next, st, s)
    PROVE  Chain(L, st) = s
<1> DEFINE n == Cardinality(Tasks)
           at == CHOOSE f : f = NextOf(L, st, f)
           a == [k \in 1 .. n |-> At(s, k)]
           met == {k \in 1 .. n : at[k] # NULL}
<1>1. s \in Seq(Tasks) /\ Once(s) /\ st = At(s, 1) /\ \A i \in DOMAIN s : L.next[s[i]] = At(s, i + 1)
  BY DEF IsWalk
<1>2. n \in Nat /\ Len(s) <= n /\ Len(s) \in Nat /\ DOMAIN s = 1 .. Len(s)
  BY <1>1, WalkFits
<1>3. Chain(L, st) = [k \in 1 .. Cardinality(met) |-> at[k]]
  BY DEF Chain, NextOf
<1>4. a = NextOf(L, st, a)
  <2> SUFFICES ASSUME NEW k \in 1 .. n
               PROVE  a[k] = IF k = 1 THEN st ELSE IF a[k - 1] = NULL THEN NULL ELSE L.next[a[k - 1]]
    BY DEF NextOf
  <2>1. CASE k = 1
    BY <2>1, <1>1, <1>2
  <2>2. CASE k # 1 /\ k - 1 \in DOMAIN s
    <3>1. k - 1 \in 1 .. n /\ a[k - 1] = s[k - 1] /\ a[k - 1] # NULL
      BY <2>2, <1>1, <1>2, AtSeq DEF At
    <3>2. L.next[s[k - 1]] = At(s, k)
      BY <2>2, <1>1, <1>2, SMTT(30)
    <3> QED
      BY <3>1, <3>2, <2>2
  <2>3. CASE k # 1 /\ k - 1 \notin DOMAIN s
    <3>1. k - 1 \in 1 .. n /\ a[k - 1] = NULL /\ k \notin DOMAIN s
      BY <2>3, <1>2 DEF At
    <3> QED
      BY <3>1, <2>3 DEF At
  <2> QED
    BY <2>1, <2>2, <2>3
<1>5. at = NextOf(L, st, at)
  BY <1>4
<1> HIDE DEF at
<1>6. \A k \in 1 .. n : at[k] = IF k = 1 THEN st ELSE IF at[k - 1] = NULL THEN NULL ELSE L.next[at[k - 1]]
  <2> DEFINE g == NextOf(L, st, at)
  <2>1. \A k \in 1 .. n : g[k] = IF k = 1 THEN st ELSE IF at[k - 1] = NULL THEN NULL ELSE L.next[at[k - 1]]
    BY DEF NextOf
  <2>2. at = g
    BY <1>5
  <2> HIDE DEF g
  <2> QED
    BY <2>1, <2>2
<1>7. \A k \in 1 .. n : a[k] = IF k = 1 THEN st ELSE IF a[k - 1] = NULL THEN NULL ELSE L.next[a[k - 1]]
  <2> DEFINE g == NextOf(L, st, a)
  <2>1. \A k \in 1 .. n : g[k] = IF k = 1 THEN st ELSE IF a[k - 1] = NULL THEN NULL ELSE L.next[a[k - 1]]
    BY DEF NextOf
  <2>2. a = g
    BY <1>4
  <2> HIDE DEF g, a
  <2> QED
    BY <2>1, <2>2
<1>8. \A k \in 1 .. n : at[k] = At(s, k)
  <2> DEFINE G == {i \in Nat : i = 0 \/ i > n \/ at[i] = a[i]}
  <2> HIDE DEF a
  <2>1. 0 \in G
    OBVIOUS
  <2>2. ASSUME NEW i \in Nat, i < n, i \in G  PROVE  i + 1 \in G
    <3>1. i + 1 \in 1 .. n /\ (i + 1) - 1 = i
      BY <2>2, <1>2
    <3>2. CASE i = 0
      BY <3>1, <3>2, <1>6, <1>7
    <3>3. CASE i # 0
      <4>1. at[i] = a[i]
        BY <2>2, <3>3, <1>2
      <4>2. at[i + 1] = IF at[i] = NULL THEN NULL ELSE L.next[at[i]]
        BY <3>1, <3>3, <1>6
      <4>3. a[i + 1] = IF a[i] = NULL THEN NULL ELSE L.next[a[i]]
        BY <3>1, <3>3, <1>7
      <4> QED
        BY <4>1, <4>2, <4>3
    <3> QED
      BY <3>2, <3>3
  <2>3. \A i \in 0 .. n : i \in G
    <3> HIDE DEF G
    <3> QED
      BY <2>1, <2>2, <1>2, UpTo
  <2>4. \A k \in 1 .. n : at[k] = a[k]
    BY <2>3, <1>2
  <2> QED
    BY <2>4 DEF a
<1>9. met = 1 .. Len(s)
  <2>1. \A k \in 1 .. n : At(s, k) # NULL <=> k \in 1 .. Len(s)
    BY <1>1, <1>2, AtSeq
  <2> HIDE DEF a
  <2> QED
    BY <1>2, <1>8, <2>1
<1>10. Cardinality(met) = Len(s)
  BY <1>2, <1>9, PlacesUpTo
<1>11. \A k \in 1 .. Len(s) : at[k] = s[k]
  BY <1>2, <1>8 DEF At
<1> HIDE DEF met
<1>12. [k \in 1 .. Cardinality(met) |-> at[k]] = s
  BY <1>1, <1>2, <1>10, <1>11
<1> QED
  BY <1>3, <1>12

-----------------------------------------------------------------------------
(* Taking an entry out of a walk, and putting one in *)

RemoveNth(s, k) == LP!RemoveNth(s, k)
InsertAfter(s, k, t) == LP!InsertAfter(s, k, t)

\* The place in s of what stands at place i of RemoveNth(s, k).
Stood(i, k) == IF i < k THEN i ELSE i + 1

LEMMA RemovePlaces ==
    ASSUME NEW s \in Seq(Tasks), NEW k \in DOMAIN s
    PROVE  /\ RemoveNth(s, k) \in Seq(Tasks) /\ Len(RemoveNth(s, k)) = Len(s) - 1
           /\ \A i \in 1 .. Len(s) - 1 :
                 /\ Stood(i, k) \in DOMAIN s /\ Stood(i, k) # k
                 /\ RemoveNth(s, k)[i] = s[Stood(i, k)]
           /\ \A i \in Nat : At(RemoveNth(s, k), i) = At(s, Stood(i, k))
           /\ \A j \in DOMAIN s : j # k => \E i \in 1 .. Len(s) - 1 : j = Stood(i, k)
<1> DEFINE r == RemoveNth(s, k)
<1>1. Len(s) \in Nat /\ DOMAIN s = 1 .. Len(s) /\ k \in Nat /\ k >= 1 /\ Len(s) - 1 \in Nat
  OBVIOUS
<1>2. r = [i \in 1 .. Len(s) - 1 |-> IF i < k THEN s[i] ELSE s[i + 1]]
  BY DEF RemoveNth, LP!RemoveNth
<1> HIDE DEF r
<1>3. \A i \in 1 .. Len(s) - 1 : /\ Stood(i, k) \in DOMAIN s /\ Stood(i, k) # k
                                 /\ r[i] = s[Stood(i, k)] /\ r[i] \in Tasks
  BY <1>1, <1>2 DEF Stood
<1>4. r \in Seq(Tasks) /\ Len(r) = Len(s) - 1 /\ DOMAIN r = 1 .. Len(s) - 1
  <2>1. r \in [1 .. Len(s) - 1 -> Tasks]
    BY <1>2, <1>3
  <2>2. r \in Seq(Tasks)
    BY <1>1, <2>1
  <2>3. DOMAIN r = 1 .. Len(s) - 1
    BY <1>2
  <2>4. Len(r) \in Nat /\ DOMAIN r = 1 .. Len(r)
    BY <2>2
  <2>5. Len(r) = Len(s) - 1
    BY <2>3, <2>4, <1>1, PlacesUpTo
  <2> QED
    BY <2>2, <2>3, <2>5
<1>5. ASSUME NEW i \in Nat  PROVE  At(r, i) = At(s, Stood(i, k))
  <2>1. CASE i \in 1 .. Len(s) - 1
    BY <2>1, <1>3, <1>4 DEF At
  <2>2. CASE i \notin 1 .. Len(s) - 1
    <3>1. Stood(i, k) \notin DOMAIN s
      BY <2>2, <1>1 DEF Stood
    <3> QED
      BY <2>2, <3>1, <1>4 DEF At
  <2> QED
    BY <2>1, <2>2
<1>6. ASSUME NEW j \in DOMAIN s, j # k  PROVE  \E i \in 1 .. Len(s) - 1 : j = Stood(i, k)
  <2>1. CASE j < k
    BY <1>1, <2>1 DEF Stood
  <2>2. CASE j > k
    <3>1. j - 1 \in 1 .. Len(s) - 1 /\ j = Stood(j - 1, k)
      BY <1>1, <2>2 DEF Stood
    <3> QED
      BY <3>1
  <2> QED
    BY <1>1, <1>6, <2>1, <2>2
<1> QED
  BY <1>3, <1>4, <1>5, <1>6 DEF r

\* What is left is distinct, and is everything but the entry that was there.
LEMMA RemoveOnce ==
    ASSUME NEW s \in Seq(Tasks), Once(s), NEW k \in DOMAIN s
    PROVE  Once(RemoveNth(s, k)) /\ Elems(RemoveNth(s, k)) = Elems(s) \ {s[k]}
<1> DEFINE r == RemoveNth(s, k)
<1>1. /\ Len(s) \in Nat /\ DOMAIN s = 1 .. Len(s) /\ DOMAIN r = 1 .. Len(s) - 1
      /\ \A i \in DOMAIN r : Stood(i, k) \in DOMAIN s /\ Stood(i, k) # k /\ r[i] = s[Stood(i, k)]
      /\ \A j \in DOMAIN s : j # k => \E i \in DOMAIN r : j = Stood(i, k)
  BY RemovePlaces
<1> HIDE DEF r
<1>2. ASSUME NEW i \in DOMAIN r, NEW j \in DOMAIN r, r[i] = r[j]  PROVE  i = j
  <2>1. Stood(i, k) = Stood(j, k)
    BY <1>1, <1>2 DEF Once
  <2> QED
    BY <2>1, <1>1 DEF Stood
<1>3. Elems(r) = Elems(s) \ {s[k]}
  BY <1>1 DEF Elems, Once
<1> QED
  BY <1>2, <1>3 DEF Once, r

\* Bypassing an entry takes it out of the walk.
LEMMA WalkRemove ==
    ASSUME NEW nx, NEW st, NEW s, IsWalk(nx, st, s), NEW k \in DOMAIN s, NEW ny,
           \A u \in Elems(s) \ {s[k]} : ny[u] = IF u = At(s, k - 1) THEN At(s, k + 1) ELSE nx[u]
    PROVE  IsWalk(ny, IF k = 1 THEN At(s, 2) ELSE st, RemoveNth(s, k))
<1> DEFINE r == RemoveNth(s, k)
<1>1. s \in Seq(Tasks) /\ Once(s) /\ st = At(s, 1) /\ \A i \in DOMAIN s : nx[s[i]] = At(s, i + 1)
  BY DEF IsWalk
<1>2. /\ r \in Seq(Tasks) /\ DOMAIN r = 1 .. Len(s) - 1
      /\ \A i \in DOMAIN r : Stood(i, k) \in DOMAIN s /\ Stood(i, k) # k /\ r[i] = s[Stood(i, k)]
      /\ \A i \in Nat : At(r, i) = At(s, Stood(i, k))
  BY <1>1, RemovePlaces
<1>3. Once(r)
  BY <1>1, RemoveOnce
<1> HIDE DEF r
<1>4. Len(s) \in Nat /\ DOMAIN s = 1 .. Len(s) /\ k \in Nat /\ k >= 1
  BY <1>1
<1>5. (IF k = 1 THEN At(s, 2) ELSE st) = At(r, 1)
  BY <1>1, <1>2, <1>4, SMTT(30) DEF Stood
<1>6. ASSUME NEW i \in DOMAIN r  PROVE  ny[r[i]] = At(r, i + 1)
  <2> DEFINE j == Stood(i, k)
  <2>1. j \in DOMAIN s /\ j # k /\ r[i] = s[j] /\ i \in Nat /\ i >= 1
    BY <1>2
  <2>2. s[j] \in Elems(s) \ {s[k]} /\ s[j] # NULL
    BY <1>1, <2>1, AtSeq DEF Once
  <2>3. nx[s[j]] = At(s, j + 1)
    BY <1>1, <2>1
  <2>4. s[j] = At(s, k - 1) <=> j = k - 1
    BY <1>1, <1>4, <2>1, <2>2 DEF At, Once
  <2>5. At(r, i + 1) = At(s, Stood(i + 1, k))
    BY <1>2, <2>1
  <2>6. CASE j = k - 1
    <3>1. Stood(i + 1, k) = k + 1
      BY <2>1, <2>6, <1>4 DEF Stood
    <3> QED
      BY <2>1, <2>2, <2>4, <2>5, <2>6, <3>1
  <2>7. CASE j # k - 1
    <3>1. Stood(i + 1, k) = j + 1
      BY <2>1, <2>7, <1>4 DEF Stood
    <3> QED
      BY <2>1, <2>2, <2>3, <2>4, <2>5, <2>7, <3>1
  <2> QED
    BY <2>6, <2>7
<1>7. IsWalk(ny, IF k = 1 THEN At(s, 2) ELSE st, r)
  BY <1>2, <1>3, <1>5, <1>6 DEF IsWalk
<1> QED
  BY <1>7 DEF r

LEMMA BackRemove ==
    ASSUME NEW pv, NEW s \in Seq(Tasks), Once(s), IsBack(pv, s), NEW k \in DOMAIN s, NEW pw,
           \A u \in Elems(s) \ {s[k]} : pw[u] = IF u = At(s, k + 1) THEN At(s, k - 1) ELSE pv[u]
    PROVE  IsBack(pw, RemoveNth(s, k))
<1> DEFINE r == RemoveNth(s, k)
<1>2. /\ r \in Seq(Tasks) /\ DOMAIN r = 1 .. Len(s) - 1
      /\ \A i \in DOMAIN r : Stood(i, k) \in DOMAIN s /\ Stood(i, k) # k /\ r[i] = s[Stood(i, k)]
      /\ \A i \in Nat : At(r, i) = At(s, Stood(i, k))
  BY RemovePlaces, SMTT(30)
<1> HIDE DEF r
<1>4. Len(s) \in Nat /\ DOMAIN s = 1 .. Len(s) /\ k \in Nat /\ k >= 1
  OBVIOUS
<1>6. ASSUME NEW i \in DOMAIN r  PROVE  pw[r[i]] = At(r, i - 1)
  <2> DEFINE j == Stood(i, k)
  <2>1. j \in DOMAIN s /\ j # k /\ r[i] = s[j] /\ i \in Nat /\ i >= 1
    BY <1>2
  <2>2. s[j] \in Elems(s) \ {s[k]} /\ s[j] # NULL
    BY <2>1, AtSeq DEF Once
  <2>3. pv[s[j]] = At(s, j - 1)
    BY <2>1 DEF IsBack
  <2>4. s[j] = At(s, k + 1) <=> j = k + 1
    BY <1>4, <2>1, <2>2 DEF At, Once
  <2>5. At(r, i - 1) = At(s, Stood(i - 1, k))
    BY <1>2, <2>1
  <2>6. CASE j = k + 1
    <3>1. Stood(i - 1, k) = k - 1
      BY <2>1, <2>6, <1>4 DEF Stood
    <3> QED
      BY <2>1, <2>2, <2>4, <2>5, <2>6, <3>1
  <2>7. CASE j # k + 1
    <3>1. Stood(i - 1, k) = j - 1
      BY <2>1, <2>7, <1>4 DEF Stood
    <3> QED
      BY <2>1, <2>2, <2>3, <2>4, <2>5, <2>7, <3>1
  <2> QED
    BY <2>6, <2>7
<1> QED
  BY <1>6 DEF IsBack, r

\* The place in s of what stands at place i of InsertAfter(s, k, t).
Came(i, k) == IF i <= k THEN i ELSE i - 1

\* r is s with t behind its k-th entry.
Inserted(r, s, k, t) ==
    /\ r \in Seq(Tasks) /\ Len(r) = Len(s) + 1 /\ DOMAIN r = 1 .. Len(s) + 1
    /\ k + 1 \in DOMAIN r /\ r[k + 1] = t
    /\ \A i \in DOMAIN r : i # k + 1 => Came(i, k) \in DOMAIN s /\ r[i] = s[Came(i, k)]
    /\ \A i \in Nat : i # k + 1 => At(r, i) = At(s, Came(i, k))
    /\ \A j \in DOMAIN s : \E i \in DOMAIN r : i # k + 1 /\ j = Came(i, k)

LEMMA InsertPlaces ==
    ASSUME NEW s \in Seq(Tasks), NEW k \in 0 .. Len(s), NEW t \in Tasks
    PROVE  Inserted(InsertAfter(s, k, t), s, k, t)
<1> DEFINE r == InsertAfter(s, k, t)
<1>1. Len(s) \in Nat /\ DOMAIN s = 1 .. Len(s) /\ k \in Nat /\ k <= Len(s) /\ Len(s) + 1 \in Nat
  OBVIOUS
<1>2. r = [i \in 1 .. Len(s) + 1 |-> IF i <= k THEN s[i] ELSE IF i = k + 1 THEN t ELSE s[i - 1]]
  BY DEF InsertAfter, LP!InsertAfter
<1> HIDE DEF r
<1>3. \A i \in 1 .. Len(s) + 1 : i # k + 1 => Came(i, k) \in DOMAIN s /\ r[i] = s[Came(i, k)]
  BY <1>1, <1>2 DEF Came
<1>4. k + 1 \in 1 .. Len(s) + 1 /\ r[k + 1] = t
  BY <1>1, <1>2
<1>5. r \in Seq(Tasks) /\ Len(r) = Len(s) + 1 /\ DOMAIN r = 1 .. Len(s) + 1
  <2>1. r \in [1 .. Len(s) + 1 -> Tasks]
    BY <1>2, <1>3, <1>4
  <2>2. r \in Seq(Tasks)
    BY <1>1, <2>1
  <2>3. DOMAIN r = 1 .. Len(s) + 1
    BY <1>2
  <2>4. Len(r) \in Nat /\ DOMAIN r = 1 .. Len(r)
    BY <2>2
  <2>5. Len(r) = Len(s) + 1
    BY <2>3, <2>4, <1>1, PlacesUpTo
  <2> QED
    BY <2>2, <2>3, <2>5
<1>6. ASSUME NEW i \in Nat, i # k + 1  PROVE  At(r, i) = At(s, Came(i, k))
  <2>1. CASE i \in 1 .. Len(s) + 1
    BY <2>1, <1>3, <1>5, <1>6 DEF At
  <2>2. CASE i \notin 1 .. Len(s) + 1
    <3>1. Came(i, k) \notin DOMAIN s
      BY <2>2, <1>1, <1>6 DEF Came
    <3> QED
      BY <2>2, <3>1, <1>5 DEF At
  <2> QED
    BY <2>1, <2>2
<1>7. ASSUME NEW j \in DOMAIN s  PROVE  \E i \in 1 .. Len(s) + 1 : i # k + 1 /\ j = Came(i, k)
  <2>1. CASE j <= k
    BY <1>1, <2>1 DEF Came
  <2>2. CASE j > k
    <3>1. j + 1 \in 1 .. Len(s) + 1 /\ j + 1 # k + 1 /\ j = Came(j + 1, k)
      BY <1>1, <2>2 DEF Came
    <3> QED
      BY <3>1
  <2> QED
    BY <1>1, <2>1, <2>2
<1> QED
  BY <1>3, <1>4, <1>5, <1>6, <1>7 DEF r, Inserted

\* A newcomer makes the walk one longer and leaves it distinct.
LEMMA InsertOnce ==
    ASSUME NEW s \in Seq(Tasks), Once(s), NEW k \in 0 .. Len(s), NEW t \in Tasks, t \notin Elems(s)
    PROVE  Once(InsertAfter(s, k, t)) /\ Elems(InsertAfter(s, k, t)) = Elems(s) \cup {t}
<1> DEFINE r == InsertAfter(s, k, t)
<1>0. Inserted(r, s, k, t)
  BY InsertPlaces
<1> HIDE DEF r
<1>1. /\ Len(s) \in Nat /\ DOMAIN s = 1 .. Len(s) /\ DOMAIN r = 1 .. Len(s) + 1 /\ k \in Nat
      /\ k + 1 \in DOMAIN r /\ r[k + 1] = t
      /\ \A i \in DOMAIN r : i # k + 1 => Came(i, k) \in DOMAIN s /\ r[i] = s[Came(i, k)]
      /\ \A j \in DOMAIN s : \E i \in DOMAIN r : i # k + 1 /\ j = Came(i, k)
  BY <1>0 DEF Inserted
<1>2. \A j \in DOMAIN s : s[j] # t
  BY DEF Elems
<1>3. ASSUME NEW i \in DOMAIN r, NEW j \in DOMAIN r, r[i] = r[j]  PROVE  i = j
  <2>1. CASE i = k + 1 \/ j = k + 1
    BY <1>1, <1>2, <1>3, <2>1
  <2>2. CASE i # k + 1 /\ j # k + 1
    <3>1. Came(i, k) = Came(j, k)
      BY <1>1, <1>3, <2>2 DEF Once
    <3> QED
      BY <3>1, <2>2, <1>1 DEF Came
  <2> QED
    BY <2>1, <2>2
<1>4. Elems(r) = Elems(s) \cup {t}
  BY <1>1 DEF Elems
<1> QED
  BY <1>3, <1>4 DEF Once, r

\* Linking an entry in behind the k-th puts it there in the walk.
LEMMA WalkInsert ==
    ASSUME NEW nx, NEW st, NEW s, IsWalk(nx, st, s), NEW k \in 0 .. Len(s),
           NEW t \in Tasks, t \notin Elems(s), NEW ny, ny[t] = At(s, k + 1),
           \A u \in Elems(s) : ny[u] = IF u = At(s, k) THEN t ELSE nx[u]
    PROVE  IsWalk(ny, IF k = 0 THEN t ELSE st, InsertAfter(s, k, t))
<1> DEFINE r == InsertAfter(s, k, t)
<1>1. s \in Seq(Tasks) /\ Once(s) /\ st = At(s, 1) /\ \A i \in DOMAIN s : nx[s[i]] = At(s, i + 1)
  BY DEF IsWalk
<1>0. Inserted(r, s, k, t)
  BY <1>1, InsertPlaces
<1>2. /\ r \in Seq(Tasks) /\ DOMAIN r = 1 .. Len(s) + 1 /\ r[k + 1] = t
      /\ \A i \in DOMAIN r : i # k + 1 => Came(i, k) \in DOMAIN s /\ r[i] = s[Came(i, k)]
      /\ \A i \in Nat : i # k + 1 => At(r, i) = At(s, Came(i, k))
  BY <1>0 DEF Inserted
<1>3. Once(r)
  BY <1>1, InsertOnce
<1> HIDE DEF r
<1>4. Len(s) \in Nat /\ DOMAIN s = 1 .. Len(s) /\ k \in Nat /\ k <= Len(s)
  BY <1>1
<1>t. At(r, k + 1) = t
  BY <1>2, <1>4 DEF At
<1>5. (IF k = 0 THEN t ELSE st) = At(r, 1)
  <2>1. CASE k = 0
    BY <2>1, <1>t
  <2>2. CASE k # 0
    <3>1. At(r, 1) = At(s, Came(1, k)) /\ Came(1, k) = 1
      BY <2>2, <1>2, <1>4 DEF Came
    <3> QED
      BY <2>2, <3>1, <1>1
  <2> QED
    BY <2>1, <2>2
<1>6. ASSUME NEW i \in DOMAIN r  PROVE  ny[r[i]] = At(r, i + 1)
  <2>0. i \in Nat /\ i >= 1 /\ i + 1 \in Nat
    BY <1>2
  <2>1. CASE i = k + 1
    <3>1. At(r, i + 1) = At(s, Came(i + 1, k)) /\ Came(i + 1, k) = k + 1
      BY <2>0, <2>1, <1>2, <1>4 DEF Came
    <3> QED
      BY <2>1, <3>1, <1>2
  <2>2. CASE i # k + 1
    <3> DEFINE j == Came(i, k)
    <3>1. j \in DOMAIN s /\ r[i] = s[j] /\ s[j] \in Elems(s) /\ s[j] # NULL /\ j \in Nat
      BY <1>1, <1>2, <2>2, AtSeq
    <3>2. nx[s[j]] = At(s, j + 1)
      BY <1>1, <3>1
    <3>3. s[j] = At(s, k) <=> j = k
      BY <1>1, <1>4, <3>1 DEF At, Once
    <3>4. CASE j = k
      <4>1. i = k
        BY <2>2, <3>4, <2>0, <1>4 DEF Came
      <4> QED
        BY <4>1, <3>1, <3>3, <3>4, <1>t
    <3>5. CASE j # k
      <4>1. i # k /\ i + 1 # k + 1 /\ Came(i + 1, k) = j + 1
        BY <2>2, <3>5, <2>0, <1>4 DEF Came
      <4> QED
        BY <4>1, <3>1, <3>2, <3>3, <3>5, <2>0, <1>2
    <3> QED
      BY <3>4, <3>5
  <2> QED
    BY <2>1, <2>2
<1>7. IsWalk(ny, IF k = 0 THEN t ELSE st, r)
  BY <1>2, <1>3, <1>5, <1>6 DEF IsWalk
<1> QED
  BY <1>7 DEF r

LEMMA BackInsert ==
    ASSUME NEW pv, NEW s \in Seq(Tasks), Once(s), IsBack(pv, s), NEW k \in 0 .. Len(s),
           NEW t \in Tasks, t \notin Elems(s), NEW pw, pw[t] = At(s, k),
           \A u \in Elems(s) : pw[u] = IF u = At(s, k + 1) THEN t ELSE pv[u]
    PROVE  IsBack(pw, InsertAfter(s, k, t))
<1> DEFINE r == InsertAfter(s, k, t)
<1>0. Inserted(r, s, k, t)
  BY InsertPlaces
<1>2. /\ r \in Seq(Tasks) /\ DOMAIN r = 1 .. Len(s) + 1 /\ r[k + 1] = t
      /\ \A i \in DOMAIN r : i # k + 1 => Came(i, k) \in DOMAIN s /\ r[i] = s[Came(i, k)]
      /\ \A i \in Nat : i # k + 1 => At(r, i) = At(s, Came(i, k))
  BY <1>0 DEF Inserted
<1> HIDE DEF r
<1>4. Len(s) \in Nat /\ DOMAIN s = 1 .. Len(s) /\ k \in Nat /\ k <= Len(s)
  OBVIOUS
<1>t. At(r, k + 1) = t
  BY <1>2, <1>4 DEF At
<1>6. ASSUME NEW i \in DOMAIN r  PROVE  pw[r[i]] = At(r, i - 1)
  <2>0. i \in Nat /\ i >= 1 /\ i - 1 \in Nat
    BY <1>2
  <2>1. CASE i = k + 1
    <3>1. At(r, i - 1) = At(s, Came(i - 1, k)) /\ Came(i - 1, k) = k
      BY <2>0, <2>1, <1>2, <1>4 DEF Came
    <3> QED
      BY <2>1, <3>1, <1>2
  <2>2. CASE i # k + 1
    <3> DEFINE j == Came(i, k)
    <3>1. j \in DOMAIN s /\ r[i] = s[j] /\ s[j] \in Elems(s) /\ s[j] # NULL /\ j \in Nat
      BY <1>2, <2>2, AtSeq
    <3>2. pv[s[j]] = At(s, j - 1)
      BY <3>1 DEF IsBack
    <3>3. s[j] = At(s, k + 1) <=> j = k + 1
      BY <1>4, <3>1 DEF At, Once
    <3>4. CASE j = k + 1
      <4>1. i - 1 = k + 1
        BY <2>2, <3>4, <2>0, <1>4 DEF Came
      <4> QED
        BY <4>1, <3>1, <3>3, <3>4, <1>t
    <3>5. CASE j # k + 1
      <4>1. i - 1 # k + 1 /\ Came(i - 1, k) = j - 1
        BY <2>2, <3>5, <2>0, <1>4 DEF Came
      <4> QED
        BY <4>1, <3>1, <3>2, <3>3, <3>5, <2>0, <1>2
    <3> QED
      BY <3>4, <3>5
  <2> QED
    BY <2>1, <2>2
<1> QED
  BY <1>6 DEF IsBack, r

\* A walk goes by the pointers of the entries it meets.
LEMMA WalkFrame ==
    ASSUME NEW nx, NEW st, NEW s, IsWalk(nx, st, s), NEW ny, \A u \in Elems(s) : ny[u] = nx[u]
    PROVE  IsWalk(ny, st, s)
<1>1. \A i \in DOMAIN s : s[i] \in Elems(s)
  BY DEF Elems
<1> QED
  BY <1>1 DEF IsWalk

LEMMA BackFrame ==
    ASSUME NEW pv, NEW s, IsBack(pv, s), NEW pw, \A u \in Elems(s) : pw[u] = pv[u]
    PROVE  IsBack(pw, s)
<1>1. \A i \in DOMAIN s : s[i] \in Elems(s)
  BY DEF Elems
<1> QED
  BY <1>1 DEF IsBack

\* The two ends of a sequence.
LEMMA EndsOfSeq ==
    ASSUME NEW s \in Seq(Tasks)
    PROVE  /\ s = <<>> <=> At(s, 1) = NULL
           /\ s = <<>> <=> Len(s) = 0
           /\ s # <<>> => /\ 1 \in DOMAIN s /\ Head(s) = s[1] /\ At(s, 1) = s[1]
                          /\ Tail(s) = RemoveNth(s, 1)
           /\ \A t \in Tasks : Append(s, t) = InsertAfter(s, Len(s), t)
<1>1. Len(s) \in Nat /\ DOMAIN s = 1 .. Len(s) /\ (s = <<>> <=> Len(s) = 0)
  OBVIOUS
<1>2. \A i \in DOMAIN s : s[i] # NULL
  BY AtSeq
<1>3. s = <<>> <=> At(s, 1) = NULL
  BY <1>1, <1>2 DEF At
<1>4. ASSUME s # <<>>
      PROVE  1 \in DOMAIN s /\ Head(s) = s[1] /\ At(s, 1) = s[1] /\ Tail(s) = RemoveNth(s, 1)
  <2>1. 1 \in DOMAIN s /\ Head(s) = s[1] /\ At(s, 1) = s[1]
    BY <1>1, <1>4 DEF At
  <2>2. Tail(s) = [i \in 1 .. Len(s) - 1 |-> s[i + 1]]
    <3>1. Tail(s) \in Seq(Tasks) /\ Len(Tail(s)) = Len(s) - 1
      BY <1>4
    <3>2. \A i \in 1 .. Len(s) - 1 : Tail(s)[i] = s[i + 1]
      BY <1>4
    <3> DEFINE q == Tail(s)
    <3>3. DOMAIN q = 1 .. Len(s) - 1
      BY <3>1, <1>1
    <3>0. q \in Seq(Tasks)
      BY <3>1
    <3> HIDE DEF q
    <3>4. q = [i \in DOMAIN q |-> q[i]]
      BY <3>0
    <3>5. \A i \in 1 .. Len(s) - 1 : q[i] = s[i + 1]
      BY <3>2 DEF q
    <3>6. q = [i \in 1 .. Len(s) - 1 |-> s[i + 1]]
      BY <3>3, <3>4, <3>5
    <3> QED
      BY <3>6 DEF q
  <2>3. RemoveNth(s, 1) = [i \in 1 .. Len(s) - 1 |-> s[i + 1]]
    BY <1>1 DEF RemoveNth, LP!RemoveNth
  <2> QED
    BY <2>1, <2>2, <2>3
<1>5. ASSUME NEW t \in Tasks  PROVE  Append(s, t) = InsertAfter(s, Len(s), t)
  <2> DEFINE q == Append(s, t)
  <2>1. /\ q \in Seq(Tasks) /\ Len(q) = Len(s) + 1
        /\ \A i \in 1 .. Len(s) + 1 : q[i] = IF i = Len(s) + 1 THEN t ELSE s[i]
    OBVIOUS
  <2> HIDE DEF q
  <2>2. DOMAIN q = 1 .. Len(s) + 1 /\ q = [i \in DOMAIN q |-> q[i]]
    BY <2>1, <1>1
  <2>3. \A i \in 1 .. Len(s) + 1 :
            q[i] = IF i <= Len(s) THEN s[i] ELSE IF i = Len(s) + 1 THEN t ELSE s[i - 1]
    BY <2>1, <1>1
  <2>4. q = [i \in 1 .. Len(s) + 1 |->
            IF i <= Len(s) THEN s[i] ELSE IF i = Len(s) + 1 THEN t ELSE s[i - 1]]
    BY <2>2, <2>3
  <2> QED
    BY <2>4 DEF InsertAfter, LP!InsertAfter, q
<1> QED
  BY <1>1, <1>3, <1>4, <1>5

\* The last entry after a removal and after an insertion.
LEMMA LastEntry ==
    ASSUME NEW s \in Seq(Tasks)
    PROVE  /\ \A k \in DOMAIN s : At(RemoveNth(s, k), Len(RemoveNth(s, k)))
                 = IF At(s, k + 1) = NULL THEN At(s, k - 1) ELSE At(s, Len(s))
           /\ \A k \in 0 .. Len(s), t \in Tasks :
                 At(InsertAfter(s, k, t), Len(InsertAfter(s, k, t)))
                    = IF k = Len(s) THEN t ELSE At(s, Len(s))
<1>1. /\ Len(s) \in Nat /\ DOMAIN s = 1 .. Len(s)
      /\ \A i \in Int : At(s, i) # NULL <=> i \in DOMAIN s
  BY AtSeq
<1>2. ASSUME NEW k \in DOMAIN s
      PROVE  At(RemoveNth(s, k), Len(RemoveNth(s, k)))
               = IF At(s, k + 1) = NULL THEN At(s, k - 1) ELSE At(s, Len(s))
  <2> DEFINE r == RemoveNth(s, k)
  <2>1. Len(r) = Len(s) - 1 /\ \A i \in Nat : At(r, i) = At(s, Stood(i, k))
    BY RemovePlaces
  <2> HIDE DEF r
  <2>2. At(r, Len(r)) = At(s, Stood(Len(s) - 1, k)) /\ k \in Nat /\ k + 1 \in Int /\ k >= 1
    BY <2>1, <1>1
  <2>3. CASE k = Len(s)
    <3>1. Stood(Len(s) - 1, k) = k - 1 /\ At(s, k + 1) = NULL
      BY <2>2, <2>3, <1>1 DEF Stood
    <3> QED
      BY <2>2, <3>1 DEF r
  <2>4. CASE k # Len(s)
    <3>0. k <= Len(s) - 1 /\ ~(Len(s) - 1 < k) /\ (Len(s) - 1) + 1 = Len(s) /\ k + 1 \in DOMAIN s
      BY <2>2, <2>4, <1>1
    <3>1. Stood(Len(s) - 1, k) = Len(s) /\ At(s, k + 1) # NULL
      BY <3>0, <2>2, <1>1 DEF Stood
    <3> QED
      BY <2>2, <3>1 DEF r
  <2> QED
    BY <2>3, <2>4
<1>3. ASSUME NEW k \in 0 .. Len(s), NEW t \in Tasks
      PROVE  At(InsertAfter(s, k, t), Len(InsertAfter(s, k, t)))
               = IF k = Len(s) THEN t ELSE At(s, Len(s))
  <2> DEFINE r == InsertAfter(s, k, t)
  <2>1. Inserted(r, s, k, t)
    BY InsertPlaces
  <2> HIDE DEF r
  <2>2. CASE k = Len(s)
    <3>1. At(r, Len(r)) = t
      BY <2>1, <2>2 DEF Inserted, At
    <3> QED
      BY <3>1, <2>2 DEF r
  <2>3. CASE k # Len(s)
    <3>j. Len(s) \in Nat
      BY <1>1
    <3>k. k \in Nat /\ k < Len(s) /\ Len(s) \in Nat
      BY <3>j, <2>3
    <3>0. Len(s) + 1 \in Nat /\ Len(s) + 1 # k + 1 /\ ~(Len(s) + 1 <= k) /\ (Len(s) + 1) - 1 = Len(s)
      BY <3>k
    <3>c. Came(Len(s) + 1, k) = Len(s)
      BY <3>0 DEF Came
    <3>1. At(r, Len(r)) = At(s, Came(Len(s) + 1, k))
      BY <2>1, <3>0 DEF Inserted
    <3> QED
      BY <3>1, <3>c, <2>3 DEF r
  <2> QED
    BY <2>2, <2>3
<1> QED
  BY <1>2, <1>3

-----------------------------------------------------------------------------
(* Where a walk stops *)

\* A set of places that is not empty has a first one.
LEMMA FirstPlace ==
    ASSUME NEW K, K \subseteq Nat, K # {}
    PROVE  \E k \in K : \A j \in K : k <= j
<1>1. PICK k \in K : \A j \in K : ~(<<j, k>> \in OpToRel(<, Nat))
  BY NatLessThanWellFounded, WFMin
<1>2. \A j \in K : ~(j < k)
  BY <1>1 DEF OpToRel
<1> QED
  BY <1>2

LEMMA StopAtIs ==
    ASSUME NEW s, NEW K, K \subseteq Nat
    PROVE  \/ K = {} /\ StopAt(s, K) = NULL
           \/ \E k \in K : StopAt(s, K) = s[k] /\ \A j \in K : k <= j
<1>1. CASE K = {}
  BY <1>1 DEF StopAt
<1>2. CASE K # {}
  <2> DEFINE c == CHOOSE k \in K : \A j \in K : k <= j
  <2>1. c \in K /\ \A j \in K : c <= j
    BY <1>2, FirstPlace
  <2> QED
    BY <1>2, <2>1 DEF StopAt
<1> QED
  BY <1>1, <1>2

\* What is left of s from place i on.
From(s, i) == [j \in 1 .. Len(s) - i + 1 |-> s[i + j - 1]]

\* A walk that starts at an entry meets what is left from there.
LEMMA WalkFrom ==
    ASSUME NEW nx, NEW st, NEW s, IsWalk(nx, st, s), NEW i \in DOMAIN s
    PROVE  IsWalk(nx, s[i], From(s, i))
<1> DEFINE f == From(s, i)
           n == Len(s) - i + 1
<1>1. s \in Seq(Tasks) /\ Once(s) /\ \A j \in DOMAIN s : nx[s[j]] = At(s, j + 1)
  BY DEF IsWalk
<1>2. Len(s) \in Nat /\ DOMAIN s = 1 .. Len(s) /\ i \in Nat /\ i >= 1 /\ i <= Len(s) /\ n \in Nat
  BY <1>1
<1>3. f = [j \in 1 .. n |-> s[i + j - 1]]
  BY DEF From
<1>4. \A j \in 1 .. n : i + j - 1 \in DOMAIN s /\ f[j] = s[i + j - 1] /\ f[j] \in Tasks
  BY <1>1, <1>2, <1>3
<1>5. DOMAIN f = 1 .. n
  BY <1>3
<1>6. f \in Seq(Tasks)
  <2>1. f \in [1 .. n -> Tasks]
    BY <1>3, <1>4
  <2> HIDE DEF f, n
  <2> QED
    BY <1>2, <2>1
<1>7. Once(f)
  BY <1>1, <1>2, <1>4, <1>5, SMTT(30) DEF Once
<1>8. s[i] = At(f, 1)
  BY <1>2, <1>4, <1>5 DEF At
<1>9. ASSUME NEW j \in DOMAIN f  PROVE  nx[f[j]] = At(f, j + 1)
  <2>1. j \in 1 .. n /\ i + j - 1 \in DOMAIN s /\ f[j] = s[i + j - 1] /\ (i + j - 1) + 1 = i + j
    BY <1>2, <1>4, <1>5
  <2>2. nx[f[j]] = At(s, i + j)
    BY <1>1, <2>1
  <2>3. At(s, i + j) = At(f, j + 1)
    <3>1. CASE j + 1 \in 1 .. n
      <4>1. f[j + 1] = s[i + j] /\ i + j \in DOMAIN s
        BY <3>1, <1>2, <1>4, <2>1, SMTT(30)
      <4> QED
        BY <4>1, <3>1, <1>5 DEF At
    <3>2. CASE j + 1 \notin 1 .. n
      <4>1. i + j \notin DOMAIN s
        BY <3>2, <1>2, <2>1
      <4> QED
        BY <4>1, <3>2, <1>5 DEF At
    <3> QED
      BY <3>1, <3>2
  <2> QED
    BY <2>2, <2>3
<1> HIDE DEF f
<1>10. IsWalk(nx, s[i], f)
  BY <1>6, <1>7, <1>8, <1>9 DEF IsWalk
<1> QED
  BY <1>10 DEF f

\* k entries of s are due no later than w, and they come first.
Splits(due, s, k, w) ==
    /\ k \in 0 .. Len(s)
    /\ \A i \in 1 .. k : NotAfter(due[s[i]], w)
    /\ \A i \in k + 1 .. Len(s) : ~NotAfter(due[s[i]], w)

InOrder(due, s) == \A i, j \in DOMAIN s : i < j => NotAfter(due[s[i]], due[s[j]])

\* The order on due times is transitive.
LEMMA DueOrder ==
    ASSUME NEW a \in DueTime, NEW b \in DueTime, NEW c \in DueTime, NotAfter(a, b), NotAfter(b, c)
    PROVE  NotAfter(a, c)
  BY MicrosAssumption DEF NotAfter, DueTime

\* c is the first entry of s that is due later than w.
StopsAt(L, s, w, c) == \E k \in Nat : Splits(L.due, s, k, w) /\ c = At(s, k + 1)

\* The insertion walk stops behind all that are due no later than w, if none of
\* those it skips is due later.
LEMMA WalkPastIs ==
    ASSUME NEW L, NEW st, NEW s, IsWalk(L.next, st, s), NEW w \in DueTime,
           L.due \in [Tasks -> DueTime], InOrder(L.due, s), NEW i \in DOMAIN s,
           i = 1 \/ NotAfter(L.due[s[i]], w)
    PROVE  StopsAt(L, s, w, WalkPast(L, w, s[i]))
<1> DEFINE f == From(s, i)
           D(x) == L.due[x]
           K == {j \in DOMAIN f : ~NotAfter(D(f[j]), w)}
<1>1. s \in Seq(Tasks) /\ Len(s) \in Nat /\ DOMAIN s = 1 .. Len(s) /\ i \in Nat /\ i >= 1 /\ i <= Len(s)
  BY DEF IsWalk
<1>2. \A j \in DOMAIN s : D(s[j]) \in DueTime
  BY <1>1
<1>3. \A m, n \in DOMAIN s : m < n => NotAfter(D(s[m]), D(s[n]))
  BY DEF InOrder
<1>4. WalkPast(L, w, s[i]) = StopAt(f, K)
  <2>1. Chain(L, s[i]) = f
    BY WalkFrom, ChainIs
  <2> QED
    BY <2>1 DEF WalkPast
<1>5. DOMAIN f = 1 .. Len(s) - i + 1 /\ \A j \in DOMAIN f : i + j - 1 \in DOMAIN s /\ f[j] = s[i + j - 1]
  BY <1>1 DEF From
<1>6. K \subseteq Nat
  BY <1>5
<1>7. ASSUME NEW m \in DOMAIN s, m < i  PROVE  NotAfter(D(s[m]), w)
  <2>1. NotAfter(D(s[m]), D(s[i])) /\ NotAfter(D(s[i]), w)
    BY <1>1, <1>3, <1>7
  <2> QED
    BY <2>1, <1>2, DueOrder
<1> HIDE DEF f, D
<1>8. CASE K = {}
  <2>1. StopAt(f, K) = NULL
    BY <1>8 DEF StopAt
  <2>2. ASSUME NEW m \in 1 .. Len(s)  PROVE  NotAfter(D(s[m]), w)
    <3>1. CASE m < i
      BY <3>1, <1>1, <1>7
    <3>2. CASE m >= i
      <4>1. m - i + 1 \in DOMAIN f /\ i + (m - i + 1) - 1 = m
        BY <3>2, <1>1, <1>5
      <4>2. f[m - i + 1] = s[m]
        BY <4>1, <1>5
      <4> QED
        BY <1>8, <4>1, <4>2
    <3> QED
      BY <1>1, <3>1, <3>2
  <2>3. Splits(L.due, s, Len(s), w)
    BY <1>1, <2>2 DEF Splits, D
  <2>4. At(s, Len(s) + 1) = NULL
    BY <1>1 DEF At
  <2> QED
    BY <1>1, <1>4, <2>1, <2>3, <2>4 DEF StopsAt
<1>9. ASSUME NEW j \in K, StopAt(f, K) = f[j], \A h \in K : j <= h
      PROVE  StopsAt(L, s, w, WalkPast(L, w, s[i]))
  <2> DEFINE k == i + j - 2
  <2>1. /\ j \in Nat /\ j >= 1 /\ k \in Nat /\ k + 1 = i + j - 1 /\ k + 1 \in DOMAIN s
        /\ f[j] = s[k + 1] /\ ~NotAfter(D(s[k + 1]), w) /\ k \in 0 .. Len(s)
    BY <1>1, <1>5
  <2>2. ASSUME NEW m \in 1 .. k  PROVE  NotAfter(D(s[m]), w)
    <3>1. CASE m < i
      BY <3>1, <1>1, <1>7, <2>1
    <3>2. CASE m >= i
      <4>1. m - i + 1 \in DOMAIN f /\ i + (m - i + 1) - 1 = m /\ m - i + 1 < j /\ m - i + 1 \in Nat
        BY <3>2, <1>1, <1>5, <2>1, SMTT(30)
      <4>2. f[m - i + 1] = s[m]
        BY <4>1, <1>5
      <4>3. m - i + 1 \notin K
        BY <4>1, <1>9, <2>1
      <4> QED
        BY <4>1, <4>2, <4>3
    <3> QED
      BY <1>1, <2>1, <3>1, <3>2
  <2>3. ASSUME NEW m \in k + 1 .. Len(s), NotAfter(D(s[m]), w)  PROVE  FALSE
    <3>1. m \in DOMAIN s /\ (m = k + 1 \/ k + 1 < m)
      BY <1>1, <2>1
    <3>2. m # k + 1
      BY <2>1, <2>3
    <3>3. NotAfter(D(s[k + 1]), D(s[m]))
      BY <1>3, <2>1, <3>1, <3>2
    <3> QED
      BY <1>2, <2>1, <2>3, <3>1, <3>3, DueOrder
  <2>4. Splits(L.due, s, k, w)
    BY <2>1, <2>2, <2>3 DEF Splits, D
  <2>5. At(s, k + 1) = f[j]
    BY <2>1 DEF At
  <2> QED
    BY <1>4, <1>9, <2>1, <2>4, <2>5 DEF StopsAt
<1> HIDE DEF K
<1> QED
  BY <1>6, <1>8, <1>9, StopAtIs

-----------------------------------------------------------------------------
(* The heap: the lists it holds, and how its marks agree with them *)

\* m, r and p are the main list, runnow and the freelist.
ListsOK(L, m, r, p) ==
    /\ IsWalk(L.next, L.head, m) /\ IsBack(L.prev, m) /\ L.tail = At(m, Len(m))
    /\ IsWalk(L.next, L.rhead, r) /\ (r # <<>> => L.rtail = At(r, Len(r)))
    /\ IsWalk(L.next, L.pool, p)

\* h are the entries that clients own.  What is scheduled is theirs and will be
\* called; what is on the freelist is nobody's.
MarksOK(L, m, r, p, h) ==
    /\ Elems(m) \cap Elems(r) = {}
    /\ Elems(m) \cup Elems(r) \subseteq h /\ h \subseteq L.heap
    /\ Elems(p) = L.heap \ h
    /\ \A t \in Tasks : L.linked[t] <=> t \in Elems(m) \cup Elems(r)
    /\ \A t \in Elems(m) \cup Elems(r) : L.callback[t]
    /\ L.insertHint # NULL => L.insertHint \in Elems(m)

Shape(L, m, r, p, h) == L \in ListType /\ ListsOK(L, m, r, p) /\ MarksOK(L, m, r, p, h)

\* What the parts of a shape are.
LEMMA ShapeTypes ==
    ASSUME NEW L, NEW m, NEW r, NEW p, NEW h, Shape(L, m, r, p, h)
    PROVE  /\ m \in Seq(Tasks) /\ r \in Seq(Tasks) /\ p \in Seq(Tasks)
           /\ Once(m) /\ Once(r) /\ Once(p)
           /\ Elems(m) \subseteq Tasks /\ Elems(r) \subseteq Tasks /\ Elems(p) \subseteq Tasks
           /\ Elems(m) \cap Elems(p) = {} /\ Elems(r) \cap Elems(p) = {}
           /\ L.next \in [Tasks -> Ptr] /\ L.prev \in [Tasks -> Ptr]
           /\ L.linked \in [Tasks -> BOOLEAN] /\ L.callback \in [Tasks -> BOOLEAN]
           /\ L.due \in [Tasks -> DueTime] /\ L.heap \subseteq Tasks
           /\ L.head \in Ptr /\ L.tail \in Ptr /\ L.rhead \in Ptr /\ L.rtail \in Ptr
           /\ L.pool \in Ptr /\ L.insertHint \in Ptr
<1>1. m \in Seq(Tasks) /\ r \in Seq(Tasks) /\ p \in Seq(Tasks) /\ Once(m) /\ Once(r) /\ Once(p)
  BY DEF Shape, ListsOK, IsWalk
<1>2. Elems(m) \subseteq Tasks /\ Elems(r) \subseteq Tasks /\ Elems(p) \subseteq Tasks
  BY <1>1 DEF Elems
<1>3. Elems(m) \cap Elems(p) = {} /\ Elems(r) \cap Elems(p) = {}
  BY DEF Shape, MarksOK
<1>4. /\ L.next \in [Tasks -> Ptr] /\ L.prev \in [Tasks -> Ptr]
      /\ L.linked \in [Tasks -> BOOLEAN] /\ L.callback \in [Tasks -> BOOLEAN]
      /\ L.due \in [Tasks -> DueTime] /\ L.heap \subseteq Tasks
      /\ L.head \in Ptr /\ L.tail \in Ptr /\ L.rhead \in Ptr /\ L.rtail \in Ptr
      /\ L.pool \in Ptr /\ L.insertHint \in Ptr
  BY DEF Shape, ListType
<1> QED
  BY <1>1, <1>2, <1>3, <1>4

\* The lists change only in the entries whose pointers change.
LEMMA ListsFrame ==
    ASSUME NEW L, NEW K, NEW m, NEW r, NEW p, ListsOK(L, m, r, p),
           \A u \in Elems(m) \cup Elems(r) \cup Elems(p) : K.next[u] = L.next[u],
           \A u \in Elems(m) : K.prev[u] = L.prev[u],
           K.head = L.head, K.tail = L.tail, K.rhead = L.rhead, K.rtail = L.rtail, K.pool = L.pool
    PROVE  ListsOK(K, m, r, p)
<1>1. IsWalk(K.next, L.head, m) /\ IsWalk(K.next, L.rhead, r) /\ IsWalk(K.next, L.pool, p)
  BY WalkFrame DEF ListsOK
<1>2. IsBack(K.prev, m)
  BY BackFrame DEF ListsOK
<1> QED
  BY <1>1, <1>2 DEF ListsOK

\* malloc: an entry that is in no list.
LEMMA CreateShape ==
    ASSUME NEW L, NEW m, NEW r, NEW p, NEW h, Shape(L, m, r, p, h),
           NEW t \in Tasks, t \notin L.heap
    PROVE  Shape(CreateTask(L, t), m, r, p, h \cup {t}) /\ CreateTask(L, t).due = L.due
<1> DEFINE K == CreateTask(L, t)
<1>1. K \in ListType
  BY DEF Shape, ListType, CreateTask, Ptr
<1>2. /\ K.head = L.head /\ K.tail = L.tail /\ K.rhead = L.rhead /\ K.rtail = L.rtail
      /\ K.pool = L.pool /\ K.insertHint = L.insertHint /\ K.heap = L.heap \cup {t}
      /\ K.due = L.due
  BY DEF Shape, ListType, CreateTask
<1>3. /\ \A u \in Tasks \ {t} : K.next[u] = L.next[u] /\ K.prev[u] = L.prev[u]
      /\ \A u \in Tasks \ {t} : K.linked[u] = L.linked[u] /\ K.callback[u] = L.callback[u]
      /\ K.linked[t] = FALSE
  BY ShapeTypes DEF CreateTask, Shape, ListType
<1>4. /\ Elems(m) \subseteq Tasks \ {t} /\ Elems(r) \subseteq Tasks \ {t} /\ Elems(p) \subseteq Tasks \ {t}
      /\ t \notin h
  <2>1. Elems(m) \subseteq Tasks /\ Elems(r) \subseteq Tasks /\ Elems(p) \subseteq Tasks
    BY ShapeTypes
  <2> QED
    BY <2>1 DEF Shape, MarksOK
<1> HIDE DEF K
<1>5. ListsOK(K, m, r, p)
  BY <1>2, <1>3, <1>4, ListsFrame DEF Shape
<1>6. \A u \in Tasks : K.linked[u] <=> u \in Elems(m) \cup Elems(r)
  BY <1>3, <1>4 DEF Shape, MarksOK
<1>7. \A u \in Elems(m) \cup Elems(r) : K.callback[u]
  BY <1>3, <1>4 DEF Shape, MarksOK
<1>8. MarksOK(K, m, r, p, h \cup {t})
  BY <1>2, <1>4, <1>6, <1>7 DEF Shape, MarksOK
<1> QED
  BY <1>1, <1>2, <1>5, <1>8 DEF Shape, K

\* GetTask from the freelist: its first entry.
LEMMA PopShape ==
    ASSUME NEW L, NEW m, NEW r, NEW p, NEW h, Shape(L, m, r, p, h), L.pool # NULL
    PROVE  /\ p # <<>> /\ Shape(PopPool(L), m, r, RemoveNth(p, 1), h \cup {L.pool})
           /\ PopPool(L).due = L.due
<1> DEFINE K == PopPool(L)
           t == L.pool
           q == RemoveNth(p, 1)
<1>1. p \in Seq(Tasks) /\ Once(p) /\ IsWalk(L.next, L.pool, p) /\ L.pool = At(p, 1)
  BY ShapeTypes DEF Shape, ListsOK, IsWalk
<1>2. p # <<>> /\ 1 \in DOMAIN p /\ t = p[1] /\ t \in Tasks /\ t \in Elems(p)
  BY <1>1, EndsOfSeq, AtSeq
<1>3. L.next[t] = At(p, 2)
  BY <1>1, <1>2 DEF IsWalk
<1>4. K \in ListType
  BY <1>2, ShapeTypes DEF Shape, ListType, PopPool, Ptr
<1>5. /\ K.head = L.head /\ K.tail = L.tail /\ K.rhead = L.rhead /\ K.rtail = L.rtail
      /\ K.pool = L.next[t] /\ K.insertHint = L.insertHint /\ K.heap = L.heap
      /\ K.prev = L.prev /\ K.linked = L.linked /\ K.callback = L.callback /\ K.due = L.due
  BY DEF Shape, ListType, PopPool
<1>6. \A u \in Tasks \ {t} : K.next[u] = L.next[u]
  BY ShapeTypes DEF PopPool, Shape, ListType
<1> HIDE DEF K, t
<1>7. t \notin Elems(m) \cup Elems(r) /\ Elems(m) \cup Elems(r) \subseteq Tasks \ {t} /\ t \in L.heap
  <2>1. Elems(m) \subseteq Tasks /\ Elems(r) \subseteq Tasks
    BY ShapeTypes
  <2> QED
    BY <2>1, <1>2 DEF Shape, MarksOK
<1>8. IsWalk(K.next, L.next[t], q)
  <2>1. \A u \in Elems(p) \ {p[1]} : K.next[u] = IF u = At(p, 1 - 1) THEN At(p, 1 + 1) ELSE L.next[u]
    <3>1. At(p, 1 - 1) = NULL /\ Elems(p) \subseteq Tasks /\ NULL \notin Elems(p)
      BY <1>1, AtSeq, ShapeTypes, SchedAssumption
    <3> QED
      BY <3>1, <1>2, <1>6
  <2>2. IsWalk(K.next, At(p, 2), q)
    BY <1>1, <1>2, <2>1, WalkRemove
  <2> QED
    BY <2>2, <1>3
<1>9. Elems(q) = Elems(p) \ {t}
  BY <1>1, <1>2, RemoveOnce
<1> HIDE DEF q
<1>10. ListsOK(K, m, r, q)
  <2>1. IsWalk(K.next, L.head, m) /\ IsWalk(K.next, L.rhead, r)
    BY <1>6, <1>7, WalkFrame DEF Shape, ListsOK
  <2> QED
    BY <2>1, <1>5, <1>8 DEF Shape, ListsOK
<1>11. MarksOK(K, m, r, q, h \cup {t})
  BY <1>5, <1>7, <1>9 DEF Shape, MarksOK
<1> QED
  BY <1>2, <1>4, <1>5, <1>10, <1>11 DEF Shape, K, q, t

\* RemoveTaskFromList takes an entry of the main list out of it.
LEMMA UnlinkShape ==
    ASSUME NEW L, NEW m, NEW r, NEW p, NEW h, Shape(L, m, r, p, h), NEW k \in DOMAIN m
    PROVE  /\ RemoveTaskFromList(L, m[k]) = Unlink(L, m[k])
           /\ Shape(Unlink(L, m[k]), RemoveNth(m, k), r, p, h)
           /\ Unlink(L, m[k]).due = L.due /\ Unlink(L, m[k]).callback = L.callback
<1> DEFINE t == m[k]
           K == Unlink(L, t)
           q == RemoveNth(m, k)
           a == At(m, k - 1)
           b == At(m, k + 1)
<1>1. /\ m \in Seq(Tasks) /\ Once(m)
      /\ Elems(m) \subseteq Tasks /\ Elems(r) \subseteq Tasks /\ Elems(p) \subseteq Tasks
      /\ Elems(m) \cap Elems(p) = {} /\ Elems(r) \cap Elems(p) = {}
      /\ L.next \in [Tasks -> Ptr] /\ L.prev \in [Tasks -> Ptr] /\ L.linked \in [Tasks -> BOOLEAN]
  BY ShapeTypes
<1>2. ListsOK(L, m, r, p) /\ MarksOK(L, m, r, p, h) /\ L \in ListType
  BY DEF Shape
<1>3. /\ Len(m) \in Nat /\ DOMAIN m = 1 .. Len(m) /\ k \in Nat /\ t \in Tasks /\ t \in Elems(m)
      /\ a \in Ptr /\ b \in Ptr /\ (a # NULL <=> k - 1 \in DOMAIN m) /\ (b # NULL <=> k + 1 \in DOMAIN m)
      /\ (a # NULL => a \in Elems(m))
  BY <1>1, AtSeq DEF At
<1>4. L.prev[t] = a /\ L.next[t] = b
  BY <1>2 DEF ListsOK, IsWalk, IsBack
<1>5. L.linked[t]
  BY <1>2, <1>3 DEF MarksOK
<1>6. /\ K.insertHint = IF L.insertHint = t THEN NULL ELSE L.insertHint
      /\ K.head = IF a = NULL THEN b ELSE L.head
      /\ K.tail = IF b = NULL THEN a ELSE L.tail
      /\ K.rhead = L.rhead /\ K.rtail = L.rtail /\ K.pool = L.pool /\ K.heap = L.heap
      /\ K.due = L.due /\ K.callback = L.callback
      /\ K.next = [u \in Tasks |-> IF u = t THEN NULL ELSE IF u = a THEN b ELSE L.next[u]]
      /\ K.prev = [u \in Tasks |-> IF u = t THEN NULL ELSE IF u = b THEN a ELSE L.prev[u]]
      /\ K.linked = [L.linked EXCEPT ![t] = FALSE]
  BY <1>2, <1>4 DEF Unlink, ListType
<1>7. K \in ListType
  <2>1. /\ K.next \in [Tasks -> Ptr] /\ K.prev \in [Tasks -> Ptr] /\ K.linked \in [Tasks -> BOOLEAN]
        /\ K.insertHint \in Ptr /\ K.head \in Ptr /\ K.tail \in Ptr
    <3> NULL \in Ptr
      BY DEF Ptr
    <3>1. L.insertHint \in Ptr /\ L.head \in Ptr /\ L.tail \in Ptr
      BY ShapeTypes
    <3> HIDE DEF K, a, b, t
    <3> QED
      BY <3>1, <1>1, <1>3, <1>6
  <2> QED
    BY <2>1, <1>2 DEF ListType, Unlink
<1> HIDE DEF K
<1>8. IsWalk(K.next, K.head, q)
  <2>1. \A u \in Elems(m) \ {m[k]} : K.next[u] = IF u = At(m, k - 1) THEN At(m, k + 1) ELSE L.next[u]
    BY <1>1, <1>6
  <2>2. K.head = IF k = 1 THEN At(m, 2) ELSE L.head
    BY <1>3, <1>6
  <2>3. IsWalk(L.next, L.head, m)
    BY <1>2 DEF ListsOK
  <2> QED
    BY <2>1, <2>2, <2>3, WalkRemove
<1>9. IsBack(K.prev, q)
  <2>1. \A u \in Elems(m) \ {m[k]} : K.prev[u] = IF u = At(m, k + 1) THEN At(m, k - 1) ELSE L.prev[u]
    BY <1>1, <1>6
  <2>2. IsBack(L.prev, m)
    BY <1>2 DEF ListsOK
  <2> QED
    BY <1>1, <2>1, <2>2, BackRemove
<1>10. K.tail = At(q, Len(q))
  BY <1>1, <1>2, <1>6, LastEntry DEF ListsOK
<1>11. IsWalk(K.next, K.rhead, r) /\ IsWalk(K.next, K.pool, p)
  <2>1. Elems(m) \cap Elems(r) = {}
    BY <1>2 DEF MarksOK
  <2>2. \A u \in Elems(r) \cup Elems(p) : u \in Tasks /\ u # t /\ u # a
    BY <1>1, <1>3, <2>1, SchedAssumption
  <2>3. \A u \in Elems(r) \cup Elems(p) : K.next[u] = L.next[u]
    BY <1>6, <2>2
  <2>4. IsWalk(L.next, L.rhead, r) /\ IsWalk(L.next, L.pool, p)
    BY <1>2 DEF ListsOK
  <2>5. IsWalk(K.next, L.rhead, r) /\ IsWalk(K.next, L.pool, p)
    BY <2>3, <2>4, WalkFrame
  <2>6. K.rhead = L.rhead /\ K.pool = L.pool
    BY <1>6
  <2> QED
    BY <2>5, <2>6
<1>12. Elems(q) = Elems(m) \ {t}
  BY <1>1, RemoveOnce
<1> HIDE DEF q
<1>13. ListsOK(K, q, r, p)
  BY <1>2, <1>6, <1>8, <1>9, <1>10, <1>11 DEF ListsOK
<1>14. MarksOK(K, q, r, p, h)
  <2>1. \A u \in Tasks : K.linked[u] <=> u \in Elems(q) \cup Elems(r)
    <3>1. t \notin Elems(q) \cup Elems(r)
      BY <1>2, <1>3, <1>12 DEF MarksOK
    <3>2. K.linked[t] = FALSE /\ \A u \in Tasks \ {t} : K.linked[u] = L.linked[u]
      BY <1>1, <1>3, <1>6
    <3>3. \A u \in Tasks \ {t} : L.linked[u] <=> u \in Elems(q) \cup Elems(r)
      BY <1>2, <1>12 DEF MarksOK
    <3> QED
      BY <3>1, <3>2, <3>3
  <2>2. K.insertHint # NULL => K.insertHint \in Elems(q)
    BY <1>2, <1>6, <1>12 DEF MarksOK
  <2> QED
    BY <1>2, <1>6, <1>12, <2>1, <2>2 DEF MarksOK
<1> QED
  BY <1>5, <1>6, <1>7, <1>13, <1>14 DEF Shape, RemoveTaskFromList, K, q, t

\* What RemoveTask does once the entry is in no list.
Pushed(R, t) == [R EXCEPT !.callback[t] = FALSE, !.next[t] = R.pool, !.pool = t]

LEMMA PushShape ==
    ASSUME NEW L, NEW m, NEW r, NEW p, NEW h, Shape(L, m, r, p, h),
           NEW t \in h, t \notin Elems(m) \cup Elems(r)
    PROVE  Shape(Pushed(L, t), m, r, InsertAfter(p, 0, t), h \ {t}) /\ Pushed(L, t).due = L.due
<1> DEFINE K == Pushed(L, t)
           q == InsertAfter(p, 0, t)
<1>1. /\ p \in Seq(Tasks) /\ Once(p)
      /\ Elems(m) \subseteq Tasks /\ Elems(r) \subseteq Tasks /\ Elems(p) \subseteq Tasks
      /\ L.next \in [Tasks -> Ptr] /\ L.callback \in [Tasks -> BOOLEAN] /\ L.pool \in Ptr
      /\ L.heap \subseteq Tasks
  BY ShapeTypes
<1>2. ListsOK(L, m, r, p) /\ MarksOK(L, m, r, p, h) /\ L \in ListType
  BY DEF Shape
<1>3. t \in Tasks /\ t \notin Elems(p) /\ t \in L.heap
  BY <1>1, <1>2 DEF MarksOK
<1>4. /\ K.head = L.head /\ K.tail = L.tail /\ K.rhead = L.rhead /\ K.rtail = L.rtail
      /\ K.pool = t /\ K.insertHint = L.insertHint /\ K.heap = L.heap
      /\ K.prev = L.prev /\ K.linked = L.linked /\ K.due = L.due
      /\ K.next = [L.next EXCEPT ![t] = L.pool] /\ K.callback = [L.callback EXCEPT ![t] = FALSE]
  BY <1>2 DEF ListType, Pushed
<1>5. K \in ListType
  BY <1>2, <1>3 DEF ListType, Pushed, Ptr
<1> HIDE DEF K
<1>6. K.next[t] = L.pool /\ \A u \in Tasks \ {t} : K.next[u] = L.next[u] /\ K.callback[u] = L.callback[u]
  BY <1>1, <1>3, <1>4
<1>7. IsWalk(K.next, t, q)
  <2>1. IsWalk(L.next, L.pool, p) /\ L.pool = At(p, 1)
    BY <1>2 DEF ListsOK, IsWalk
  <2>2. At(p, 0) = NULL /\ 0 \in 0 .. Len(p)
    BY <1>1, AtSeq
  <2>3. K.next[t] = At(p, 0 + 1)
    BY <1>6, <2>1
  <2>4. \A u \in Elems(p) : K.next[u] = IF u = At(p, 0) THEN t ELSE L.next[u]
    BY <1>1, <1>3, <1>6, <2>2, SchedAssumption
  <2>5. IsWalk(K.next, IF 0 = 0 THEN t ELSE L.pool, q)
    BY <1>3, <2>1, <2>2, <2>3, <2>4, WalkInsert
  <2> QED
    BY <2>5
<1>8. Elems(q) = Elems(p) \cup {t}
  <2>1. 0 \in 0 .. Len(p)
    BY <1>1
  <2> QED
    BY <1>1, <1>3, <2>1, InsertOnce
<1> HIDE DEF q
<1>9. IsWalk(K.next, L.head, m) /\ IsWalk(K.next, L.rhead, r)
  BY <1>1, <1>2, <1>6, WalkFrame DEF ListsOK
<1>10. ListsOK(K, m, r, q)
  BY <1>2, <1>4, <1>7, <1>9 DEF ListsOK
<1>11. \A u \in Elems(m) \cup Elems(r) : K.callback[u]
  BY <1>1, <1>2, <1>6 DEF MarksOK
<1>12. MarksOK(K, m, r, q, h \ {t})
  BY <1>2, <1>3, <1>4, <1>8, <1>11 DEF MarksOK
<1> QED
  BY <1>4, <1>5, <1>10, <1>12 DEF Shape, K, q

\* What DeleteTask does once the entry is in no list.
Unpooled(R, t) ==
    IF R.pool = t THEN [R EXCEPT !.pool = R.next[t]]
    ELSE IF PoolPred(R, t) # NULL THEN [R EXCEPT !.next[PoolPred(R, t)] = R.next[t]] ELSE R

Freed(Q, t) ==
    [Q EXCEPT !.insertHint = IF @ = t THEN NULL ELSE @,
              !.heap = @ \ {t}, !.next[t] = NULL, !.prev[t] = NULL, !.callback[t] = FALSE]

\* The fields of the freed heap, q being the freelist entry in front of t, if any.
LEMMA FreedFields ==
    ASSUME NEW R \in ListType, NEW t \in Tasks, R.insertHint # t, NEW q \in Ptr, PoolPred(R, t) = q,
           NEW K, K = Freed(Unpooled(R, t), t)
    PROVE  /\ K \in ListType
           /\ K.head = R.head /\ K.tail = R.tail /\ K.rhead = R.rhead /\ K.rtail = R.rtail
           /\ K.insertHint = R.insertHint /\ K.heap = R.heap \ {t} /\ K.due = R.due
           /\ K.linked = R.linked /\ K.pool = IF R.pool = t THEN R.next[t] ELSE R.pool
           /\ \A u \in Tasks \ {t} : /\ K.prev[u] = R.prev[u] /\ K.callback[u] = R.callback[u]
                                     /\ K.next[u] = IF R.pool # t /\ u = q THEN R.next[t] ELSE R.next[u]
<1> DEFINE Q == Unpooled(R, t)
<1>1. /\ Q \in ListType
      /\ Q.head = R.head /\ Q.tail = R.tail /\ Q.rhead = R.rhead /\ Q.rtail = R.rtail
      /\ Q.insertHint = R.insertHint /\ Q.heap = R.heap /\ Q.due = R.due
      /\ Q.linked = R.linked /\ Q.pool = IF R.pool = t THEN R.next[t] ELSE R.pool
      /\ Q.prev = R.prev /\ Q.callback = R.callback
      /\ \A u \in Tasks \ {t} : Q.next[u] = IF R.pool # t /\ u = q THEN R.next[t] ELSE R.next[u]
  <2>0. R.next \in [Tasks -> Ptr] /\ R.next[t] \in Ptr
    BY DEF ListType
  <2>1. CASE R.pool = t
    <3>1. Q = [R EXCEPT !.pool = R.next[t]]
      BY <2>1 DEF Unpooled
    <3> QED
      BY <3>1, <2>0, <2>1 DEF ListType
  <2>2. CASE R.pool # t /\ q # NULL
    <3>1. Q = [R EXCEPT !.next[q] = R.next[t]] /\ q \in Tasks
      BY <2>2 DEF Unpooled, Ptr
    <3>2. Q.next = [R.next EXCEPT ![q] = R.next[t]]
      BY <3>1 DEF ListType
    <3>3. \A u \in Tasks \ {t} : Q.next[u] = IF R.pool # t /\ u = q THEN R.next[t] ELSE R.next[u]
      BY <3>1, <3>2, <2>0, <2>2
    <3> QED
      BY <3>1, <3>3, <2>0, <2>2 DEF ListType
  <2>3. CASE R.pool # t /\ q = NULL
    <3>1. Q = R /\ t # q /\ q \notin Tasks
      BY <2>3, SchedAssumption DEF Unpooled
    <3> QED
      BY <3>1, <2>3
  <2> QED
    BY <2>1, <2>2, <2>3
<1> HIDE DEF Q
<1>2. K = Freed(Q, t) /\ NULL \in Ptr
  BY DEF Q, Ptr
<1>3. /\ K.head = Q.head /\ K.tail = Q.tail /\ K.rhead = Q.rhead /\ K.rtail = Q.rtail
      /\ K.insertHint = Q.insertHint /\ K.heap = Q.heap \ {t} /\ K.due = Q.due
      /\ K.linked = Q.linked /\ K.pool = Q.pool
      /\ K.next = [Q.next EXCEPT ![t] = NULL] /\ K.prev = [Q.prev EXCEPT ![t] = NULL]
      /\ K.callback = [Q.callback EXCEPT ![t] = FALSE]
  <2>1. Q \in ListType /\ Q.insertHint # t
    BY <1>1
  <2>2. K = [Q EXCEPT !.insertHint = Q.insertHint, !.heap = Q.heap \ {t},
                      !.next = [Q.next EXCEPT ![t] = NULL], !.prev = [Q.prev EXCEPT ![t] = NULL],
                      !.callback = [Q.callback EXCEPT ![t] = FALSE]]
    BY <1>2, <2>1 DEF Freed, ListType
  <2> DEFINE x == [Q.next EXCEPT ![t] = NULL]
             y == [Q.prev EXCEPT ![t] = NULL]
             z == [Q.callback EXCEPT ![t] = FALSE]
             w == Q.heap \ {t}
             h == Q.insertHint
  <2>3. K = [Q EXCEPT !.insertHint = h, !.heap = w, !.next = x, !.prev = y, !.callback = z]
    BY <2>2
  <2> HIDE DEF x, y, z, w, h
  <2>4. /\ K.head = Q.head /\ K.tail = Q.tail /\ K.rhead = Q.rhead /\ K.rtail = Q.rtail
        /\ K.insertHint = h /\ K.heap = w /\ K.due = Q.due
        /\ K.linked = Q.linked /\ K.pool = Q.pool /\ K.next = x /\ K.prev = y /\ K.callback = z
    BY <2>1, <2>3 DEF ListType
  <2> QED
    BY <2>4 DEF x, y, z, w, h
<1>4. K \in ListType
  <2>1. Q \in ListType /\ Q.insertHint # t
    BY <1>1
  <2>2. /\ Q.next \in [Tasks -> Ptr] /\ Q.prev \in [Tasks -> Ptr] /\ Q.callback \in [Tasks -> BOOLEAN]
        /\ Q.heap \in SUBSET Tasks
    BY <2>1 DEF ListType
  <2>3. /\ [Q.next EXCEPT ![t] = NULL] \in [Tasks -> Ptr] /\ [Q.prev EXCEPT ![t] = NULL] \in [Tasks -> Ptr]
        /\ [Q.callback EXCEPT ![t] = FALSE] \in [Tasks -> BOOLEAN] /\ Q.heap \ {t} \in SUBSET Tasks
    BY <2>2, <1>2
  <2>4. K = [Q EXCEPT !.insertHint = Q.insertHint, !.heap = Q.heap \ {t},
                      !.next = [Q.next EXCEPT ![t] = NULL], !.prev = [Q.prev EXCEPT ![t] = NULL],
                      !.callback = [Q.callback EXCEPT ![t] = FALSE]]
    BY <1>2, <2>1 DEF Freed, ListType
  <2> DEFINE x == [Q.next EXCEPT ![t] = NULL]
             y == [Q.prev EXCEPT ![t] = NULL]
             z == [Q.callback EXCEPT ![t] = FALSE]
             g == Q.heap \ {t}
  <2>5. x \in [Tasks -> Ptr] /\ y \in [Tasks -> Ptr] /\ z \in [Tasks -> BOOLEAN] /\ g \in SUBSET Tasks
    BY <2>3
  <2>6. K = [Q EXCEPT !.insertHint = Q.insertHint, !.heap = g, !.next = x, !.prev = y, !.callback = z]
    BY <2>4
  <2> HIDE DEF x, y, z, g
  <2> QED
    BY <2>1, <2>5, <2>6 DEF ListType
<1>5. \A u \in Tasks \ {t} : K.next[u] = Q.next[u] /\ K.prev[u] = Q.prev[u] /\ K.callback[u] = Q.callback[u]
  BY <1>1, <1>3 DEF ListType
<1> QED
  BY <1>1, <1>3, <1>4, <1>5

\* The freelist entry whose link DeleteTask finds.
LEMMA PoolPredIs ==
    ASSUME NEW L, NEW p, IsWalk(L.next, L.pool, p), NEW t \in Tasks
    PROVE  /\ t \notin Elems(p) => PoolPred(L, t) = NULL /\ L.pool # t
           /\ \A k \in DOMAIN p : p[k] = t => PoolPred(L, t) = At(p, k - 1) /\ (L.pool = t <=> k = 1)
<1> DEFINE N(j) == L.next[p[j]]
           F == {j \in DOMAIN p : N(j) = t}
<1>1. PoolPred(L, t) = StopAt(p, F)
  BY ChainIs DEF PoolPred
<1>2. p \in Seq(Tasks) /\ Once(p) /\ L.pool = At(p, 1) /\ \A j \in DOMAIN p : N(j) = At(p, j + 1)
  BY DEF IsWalk
<1>3. /\ Len(p) \in Nat /\ DOMAIN p = 1 .. Len(p) /\ t # NULL
      /\ \A i \in Int : At(p, i) = t <=> i \in DOMAIN p /\ p[i] = t
  BY <1>2, AtSeq, SchedAssumption DEF At
<1>4. F \subseteq Nat
  BY <1>3
<1> HIDE DEF N
<1>5. ASSUME t \notin Elems(p)  PROVE  PoolPred(L, t) = NULL /\ L.pool # t
  <2>1. \A i \in DOMAIN p : p[i] # t
    BY <1>5 DEF Elems
  <2>2. F = {}
    BY <2>1, <1>2, <1>3
  <2>3. L.pool # t
    BY <2>1, <1>2, <1>3
  <2> QED
    BY <1>1, <2>2, <2>3 DEF StopAt
<1>6. ASSUME NEW k \in DOMAIN p, p[k] = t
      PROVE  PoolPred(L, t) = At(p, k - 1) /\ (L.pool = t <=> k = 1)
  <2>0. k \in Nat /\ k >= 1 /\ k <= Len(p) /\ k - 1 \in Int
    BY <1>3
  <2>1. \A j \in Int : At(p, j) = t <=> j = k
    BY <1>2, <1>3, <1>6 DEF Once
  <2>2. L.pool = t <=> k = 1
    BY <1>2, <2>1
  <2>3. F = {j \in DOMAIN p : j + 1 = k}
    BY <1>2, <1>3, <2>1
  <2>4. CASE k = 1
    <3>1. F = {} /\ k - 1 \notin DOMAIN p
      BY <2>3, <2>4, <1>3
    <3> QED
      BY <3>1, <2>2, <1>1 DEF StopAt, At
  <2>5. CASE k # 1
    <3>1. k - 1 \in F /\ k - 1 \in DOMAIN p /\ \A j \in F : j = k - 1
      BY <2>0, <2>3, <2>5, <1>3
    <3> HIDE DEF F
    <3>2. StopAt(p, F) = p[k - 1]
      <4>1. F = {} \/ \E x \in F : StopAt(p, F) = p[x]
        BY <1>4, StopAtIs
      <4>2. PICK x \in F : StopAt(p, F) = p[x]
        BY <3>1, <4>1
      <4> QED
        BY <3>1, <4>2
    <3> QED
      BY <3>1, <3>2, <2>2, <1>1 DEF At
  <2> QED
    BY <2>4, <2>5
<1> QED
  BY <1>5, <1>6

\* free of an entry that its owner gives up.
LEMMA FreeOwnedShape ==
    ASSUME NEW L, NEW m, NEW r, NEW p, NEW h, Shape(L, m, r, p, h),
           NEW t \in h, t \notin Elems(m) \cup Elems(r), NEW K, K = Freed(Unpooled(L, t), t)
    PROVE  Shape(K, m, r, p, h \ {t}) /\ K.due = L.due
<1>1. /\ p \in Seq(Tasks) /\ L.heap \subseteq Tasks
      /\ Elems(m) \subseteq Tasks /\ Elems(r) \subseteq Tasks /\ Elems(p) \subseteq Tasks
  BY ShapeTypes
<1>2. ListsOK(L, m, r, p) /\ MarksOK(L, m, r, p, h) /\ L \in ListType
  BY DEF Shape
<1>3. t \in Tasks /\ t \notin Elems(p) /\ t \in L.heap /\ L.insertHint # t
  BY <1>1, <1>2, SchedAssumption DEF MarksOK
<1>4. PoolPred(L, t) = NULL /\ L.pool # t /\ NULL \in Ptr
  BY <1>2, <1>3, PoolPredIs DEF ListsOK, Ptr
<1>5. /\ K \in ListType
      /\ K.head = L.head /\ K.tail = L.tail /\ K.rhead = L.rhead /\ K.rtail = L.rtail
      /\ K.insertHint = L.insertHint /\ K.heap = L.heap \ {t} /\ K.due = L.due
      /\ K.linked = L.linked /\ K.pool = L.pool
      /\ \A u \in Tasks \ {t} : K.next[u] = L.next[u] /\ K.prev[u] = L.prev[u] /\ K.callback[u] = L.callback[u]
  BY <1>2, <1>3, <1>4, FreedFields, SchedAssumption
<1>6. Elems(m) \subseteq Tasks \ {t} /\ Elems(r) \subseteq Tasks \ {t} /\ Elems(p) \subseteq Tasks \ {t}
  BY <1>1, <1>3
<1>7. ListsOK(K, m, r, p)
  <2>1. \A u \in Elems(m) \cup Elems(r) \cup Elems(p) : K.next[u] = L.next[u] /\ K.prev[u] = L.prev[u]
    BY <1>5, <1>6
  <2> QED
    BY <2>1, <1>2, <1>5, ListsFrame
<1>8. \A u \in Elems(m) \cup Elems(r) : K.callback[u]
  BY <1>2, <1>5, <1>6 DEF MarksOK
<1>9. MarksOK(K, m, r, p, h \ {t})
  BY <1>2, <1>3, <1>5, <1>8 DEF MarksOK
<1> QED
  BY <1>5, <1>7, <1>9 DEF Shape

\* free of an entry that was retired earlier.
LEMMA FreeRetiredShape ==
    ASSUME NEW L, NEW m, NEW r, NEW p, NEW h, Shape(L, m, r, p, h),
           NEW k \in DOMAIN p, NEW t, t = p[k], NEW K, K = Freed(Unpooled(L, t), t)
    PROVE  Shape(K, m, r, RemoveNth(p, k), h) /\ K.due = L.due
<1> DEFINE q == RemoveNth(p, k)
<1>1. /\ p \in Seq(Tasks) /\ Once(p) /\ L.heap \subseteq Tasks
      /\ Elems(m) \subseteq Tasks /\ Elems(r) \subseteq Tasks /\ Elems(p) \subseteq Tasks
      /\ Elems(m) \cap Elems(p) = {} /\ Elems(r) \cap Elems(p) = {}
  BY ShapeTypes
<1>2. ListsOK(L, m, r, p) /\ MarksOK(L, m, r, p, h) /\ L \in ListType
  BY DEF Shape
<1>3. t \in Tasks /\ t \in Elems(p) /\ t # NULL /\ k \in Nat /\ k - 1 \in Int
  BY <1>1, AtSeq
<1>4. t \notin h /\ t \in L.heap /\ t \notin Elems(m) \cup Elems(r) /\ L.insertHint # t
  BY <1>1, <1>2, <1>3 DEF MarksOK
<1>5. /\ PoolPred(L, t) = At(p, k - 1) /\ (L.pool = t <=> k = 1) /\ At(p, k - 1) \in Ptr
      /\ (At(p, k - 1) # NULL => At(p, k - 1) \in Elems(p))
  <2>1. IsWalk(L.next, L.pool, p)
    BY <1>2 DEF ListsOK
  <2>2. At(p, k - 1) \in Ptr /\ (At(p, k - 1) # NULL => At(p, k - 1) \in Elems(p))
    BY <1>1, <1>3, AtSeq DEF At
  <2> QED
    BY <2>1, <2>2, <1>3, PoolPredIs
<1>6. /\ K \in ListType
      /\ K.head = L.head /\ K.tail = L.tail /\ K.rhead = L.rhead /\ K.rtail = L.rtail
      /\ K.insertHint = L.insertHint /\ K.heap = L.heap \ {t} /\ K.due = L.due
      /\ K.linked = L.linked /\ K.pool = IF k = 1 THEN L.next[t] ELSE L.pool
      /\ \A u \in Tasks \ {t} : /\ K.prev[u] = L.prev[u] /\ K.callback[u] = L.callback[u]
                                /\ K.next[u] = IF k # 1 /\ u = At(p, k - 1) THEN L.next[t] ELSE L.next[u]
  BY <1>2, <1>3, <1>4, <1>5, FreedFields
<1>7. L.next[t] = At(p, k + 1)
  BY <1>2 DEF ListsOK, IsWalk
<1>8. IsWalk(K.next, K.pool, q)
  <2>1. At(p, 0) = NULL
    BY <1>1, AtSeq
  <2>2. \A u \in Elems(p) \ {p[k]} : K.next[u] = IF u = At(p, k - 1) THEN At(p, k + 1) ELSE L.next[u]
    <3>1. \A u \in Elems(p) \ {p[k]} : u \in Tasks \ {t} /\ u # NULL
      BY <1>1, SchedAssumption
    <3>2. CASE k = 1
      BY <3>1, <3>2, <2>1, <1>6
    <3>3. CASE k # 1
      BY <3>1, <3>3, <1>6, <1>7
    <3> QED
      BY <3>2, <3>3
  <2>3. IsWalk(L.next, L.pool, p)
    BY <1>2 DEF ListsOK
  <2>4. IsWalk(K.next, IF k = 1 THEN At(p, 2) ELSE L.pool, q)
    BY <2>2, <2>3, WalkRemove
  <2>5. K.pool = IF k = 1 THEN At(p, 2) ELSE L.pool
    BY <1>6, <1>7
  <2> QED
    BY <2>4, <2>5
<1>9. Elems(q) = Elems(p) \ {t}
  BY <1>1, RemoveOnce
<1> HIDE DEF q
<1>10. \A u \in Elems(m) \cup Elems(r) : u \in Tasks \ {t} /\ K.next[u] = L.next[u] /\ K.prev[u] = L.prev[u]
  <2>1. \A u \in Elems(m) \cup Elems(r) : u \in Tasks \ {t} /\ u # At(p, k - 1)
    BY <1>1, <1>4, <1>5, SchedAssumption
  <2> QED
    BY <2>1, <1>6
<1>11. ListsOK(K, m, r, q)
  <2>1. IsWalk(L.next, L.head, m) /\ IsBack(L.prev, m) /\ IsWalk(L.next, L.rhead, r)
    BY <1>2 DEF ListsOK
  <2>2. IsWalk(K.next, L.head, m) /\ IsWalk(K.next, L.rhead, r)
    BY <2>1, <1>10, WalkFrame
  <2>3. IsBack(K.prev, m)
    BY <2>1, <1>10, BackFrame
  <2> QED
    BY <2>2, <2>3, <1>2, <1>6, <1>8 DEF ListsOK
<1>12. \A u \in Elems(m) \cup Elems(r) : K.callback[u]
  BY <1>2, <1>6, <1>10 DEF MarksOK
<1>13. MarksOK(K, m, r, q, h)
  BY <1>2, <1>4, <1>6, <1>9, <1>12 DEF MarksOK
<1> QED
  BY <1>6, <1>11, <1>13 DEF Shape, q

-----------------------------------------------------------------------------
(* AddTaskDelay *)

\* The splice puts t behind the first k entries of the main list.
Spliced(K, A, m, k, t) ==
    /\ K \in ListType
    /\ K.next[t] = At(m, k + 1) /\ K.prev[t] = At(m, k)
    /\ \A u \in Tasks \ {t} : /\ K.next[u] = IF u = At(m, k) THEN t ELSE A.next[u]
                              /\ K.prev[u] = IF u = At(m, k + 1) THEN t ELSE A.prev[u]
    /\ K.head = IF k = 0 THEN t ELSE A.head
    /\ K.tail = IF k = Len(m) THEN t ELSE A.tail
    /\ K.rhead = A.rhead /\ K.rtail = A.rtail /\ K.pool = A.pool /\ K.heap = A.heap
    /\ K.linked = A.linked /\ K.callback = A.callback /\ K.due = A.due

LEMMA SpliceIs ==
    ASSUME NEW A \in ListType, NEW m, IsWalk(A.next, A.head, m), IsBack(A.prev, m),
           A.tail = At(m, Len(m)), NEW t \in Tasks, t \notin Elems(m),
           A.next[t] = NULL, A.prev[t] = NULL, NEW k \in 0 .. Len(m)
    PROVE  Spliced(Splice(A, t, At(m, k + 1)), A, m, k, t)
<1> DEFINE c == At(m, k + 1)
           b == At(m, k)
           K == Splice(A, t, c)
<1>1. /\ m \in Seq(Tasks) /\ Once(m) /\ A.head = At(m, 1)
      /\ A.next \in [Tasks -> Ptr] /\ A.prev \in [Tasks -> Ptr]
  BY DEF IsWalk, ListType
<1>2. /\ Len(m) \in Nat /\ DOMAIN m = 1 .. Len(m) /\ k \in Nat /\ k <= Len(m)
      /\ \A i \in Int : At(m, i) \in Ptr /\ (At(m, i) # NULL <=> i \in DOMAIN m)
      /\ \A i \in DOMAIN m : At(m, i) = m[i] /\ m[i] \in Tasks /\ m[i] # t /\ m[i] # NULL
  <2>1. \A i \in DOMAIN m : m[i] \in Elems(m)
    BY DEF Elems
  <2> QED
    BY <1>1, <2>1, AtSeq DEF At
<1>a. /\ k + 1 \in Int /\ k \in Int /\ (k + 1) - 1 = k
      /\ (k \in DOMAIN m <=> k # 0) /\ (k + 1 \in DOMAIN m <=> k # Len(m))
  <2> DEFINE n == Len(m)
  <2>1. n \in Nat /\ DOMAIN m = 1 .. n /\ k \in Nat /\ k <= n
    BY <1>2
  <2> HIDE DEF n
  <2>2. k + 1 \in Int /\ k \in Int /\ (k + 1) - 1 = k
    BY <2>1
  <2>3. (k \in DOMAIN m <=> k # 0) /\ (k + 1 \in DOMAIN m <=> k # n)
    BY <2>1
  <2> QED
    BY <2>2, <2>3 DEF n
<1>3. b \in Ptr /\ c \in Ptr /\ b # t /\ c # t /\ t # NULL /\ (b # NULL <=> k # 0) /\ (c # NULL <=> k # Len(m))
  <2>1. k + 1 \in Int /\ k \in Int /\ (k \in DOMAIN m <=> k # 0) /\ (k + 1 \in DOMAIN m <=> k # Len(m))
    BY <1>a
  <2>2. b # t
    BY <2>1, <1>2, SchedAssumption
  <2>3. c # t
    BY <2>1, <1>2, SchedAssumption
  <2>4. (b # NULL <=> k # 0) /\ (c # NULL <=> k # Len(m))
    BY <2>1, <1>2
  <2> QED
    BY <2>1, <2>2, <2>3, <2>4, <1>2, SchedAssumption
<1>4. c # NULL => (c = A.head <=> k = 0)
  <2> SUFFICES ASSUME c # NULL  PROVE  c = A.head <=> k = 0
    OBVIOUS
  <2>a. k + 1 \in DOMAIN m
    BY <1>a, <1>3
  <2>1. k + 1 \in DOMAIN m /\ 1 \in DOMAIN m
    <3>1. Len(m) \in Nat /\ DOMAIN m = 1 .. Len(m) /\ k \in Nat
      BY <1>2
    <3> QED
      BY <2>a, <3>1
  <2>2. c = m[k + 1] /\ A.head = m[1]
    BY <2>1, <1>1, <1>2
  <2> QED
    BY <2>1, <2>2, <1>1, <1>2 DEF Once
<1>5. c # NULL => A.prev[c] = b /\ c \in Tasks
  <2> SUFFICES ASSUME c # NULL  PROVE  A.prev[c] = b /\ c \in Tasks
    OBVIOUS
  <2>0. k # Len(m)
    BY <1>3
  <2>1. k + 1 \in DOMAIN m /\ (k + 1) - 1 = k
    BY <2>0, <1>a
  <2>2. c = m[k + 1] /\ c \in Tasks
    BY <2>1, <1>2
  <2> QED
    BY <2>1, <2>2 DEF IsBack
<1>6. A.head = NULL <=> Len(m) = 0
  <2>1. 1 \in Int /\ (1 \in DOMAIN m <=> Len(m) # 0)
    BY <1>2
  <2> QED
    BY <2>1, <1>1, <1>2
<1>t. A.tail = IF k = Len(m) THEN b ELSE A.tail
  OBVIOUS
<1> HIDE DEF b, c
<1>7. CASE A.head = NULL
  <2>1. k = 0 /\ k = Len(m) /\ b = NULL /\ c = NULL
    BY <1>2, <1>3, <1>6, <1>7
  <2>2. K = [A EXCEPT !.head = t, !.tail = t]
    BY <1>7 DEF Splice
  <2>3. K \in ListType
    BY <2>2 DEF ListType, Ptr
  <2>4. /\ K.next = A.next /\ K.prev = A.prev /\ K.head = t /\ K.tail = t
        /\ K.rhead = A.rhead /\ K.rtail = A.rtail /\ K.pool = A.pool /\ K.heap = A.heap
        /\ K.linked = A.linked /\ K.callback = A.callback /\ K.due = A.due
    BY <2>2 DEF ListType
  <2>5. \A u \in Tasks : u # NULL
    BY SchedAssumption
  <2> QED
    BY <2>1, <2>3, <2>4, <2>5 DEF Spliced, b, c
<1>8. CASE A.head # NULL /\ c = A.head
  <2>1. k = 0 /\ k # Len(m) /\ b = NULL /\ c \in Tasks
    BY <1>3, <1>4, <1>5, <1>8
  <2>2. K = [A EXCEPT !.prev[c] = t, !.next[t] = c, !.head = t]
    BY <1>8 DEF Splice
  <2>3. K \in ListType
    <3> DEFINE pv == [A.prev EXCEPT ![c] = t]
               nx == [A.next EXCEPT ![t] = c]
    <3>1. pv \in [Tasks -> Ptr] /\ nx \in [Tasks -> Ptr] /\ t \in Ptr
      BY <2>1, <1>1 DEF Ptr
    <3>2. K = [A EXCEPT !.prev = pv, !.next = nx, !.head = t]
      BY <2>2 DEF ListType
    <3> HIDE DEF pv, nx
    <3> QED
      BY <3>1, <3>2 DEF ListType
  <2>4. /\ K.next = [A.next EXCEPT ![t] = c] /\ K.prev = [A.prev EXCEPT ![c] = t] /\ K.head = t /\ K.tail = A.tail
        /\ K.rhead = A.rhead /\ K.rtail = A.rtail /\ K.pool = A.pool /\ K.heap = A.heap
        /\ K.linked = A.linked /\ K.callback = A.callback /\ K.due = A.due
    BY <2>2 DEF ListType
  <2>5. \A u \in Tasks : u # NULL
    BY SchedAssumption
  <2>6. /\ K.next[t] = c /\ K.prev[t] = b
        /\ \A u \in Tasks \ {t} : /\ K.next[u] = IF u = b THEN t ELSE A.next[u]
                                  /\ K.prev[u] = IF u = c THEN t ELSE A.prev[u]
    BY <2>1, <2>4, <2>5, <1>1, <1>3
  <2> QED
    BY <2>1, <2>3, <2>4, <2>6 DEF Spliced, b, c
<1>9. CASE A.head # NULL /\ c # A.head /\ c = NULL
  <2>1. k # 0 /\ k = Len(m) /\ b \in Tasks /\ A.tail = b
    BY <1>2, <1>3, <1>6, <1>9, <1>t DEF Ptr
  <2>2. K = [A EXCEPT !.next[b] = t, !.prev[t] = b, !.tail = t]
    BY <1>9, <2>1 DEF Splice
  <2>3. K \in ListType
    <3> DEFINE pv == [A.prev EXCEPT ![t] = b]
               nx == [A.next EXCEPT ![b] = t]
    <3>1. pv \in [Tasks -> Ptr] /\ nx \in [Tasks -> Ptr] /\ t \in Ptr
      BY <2>1, <1>1 DEF Ptr
    <3>2. K = [A EXCEPT !.prev = pv, !.next = nx, !.tail = t]
      BY <2>2 DEF ListType
    <3> HIDE DEF pv, nx
    <3> QED
      BY <3>1, <3>2 DEF ListType
  <2>4. /\ K.next = [A.next EXCEPT ![b] = t] /\ K.prev = [A.prev EXCEPT ![t] = b] /\ K.head = A.head /\ K.tail = t
        /\ K.rhead = A.rhead /\ K.rtail = A.rtail /\ K.pool = A.pool /\ K.heap = A.heap
        /\ K.linked = A.linked /\ K.callback = A.callback /\ K.due = A.due
    BY <2>2 DEF ListType
  <2>5. \A u \in Tasks : u # NULL
    BY SchedAssumption
  <2>6. /\ K.next[t] = c /\ K.prev[t] = b
        /\ \A u \in Tasks \ {t} : /\ K.next[u] = IF u = b THEN t ELSE A.next[u]
                                  /\ K.prev[u] = IF u = c THEN t ELSE A.prev[u]
    BY <2>1, <2>4, <2>5, <1>1, <1>3, <1>9
  <2> QED
    BY <2>1, <2>3, <2>4, <2>6 DEF Spliced, b, c
<1>10. CASE A.head # NULL /\ c # A.head /\ c # NULL
  <2>1. k # 0 /\ k # Len(m) /\ b \in Tasks /\ c \in Tasks /\ A.prev[c] = b
    <3>1. k # 0 /\ k # Len(m)
      BY <1>3, <1>4, <1>10
    <3> QED
      BY <3>1, <1>3, <1>5, <1>10 DEF Ptr
  <2> DEFINE pv == [A.prev EXCEPT ![t] = b, ![c] = t]
             nx == [A.next EXCEPT ![t] = c, ![b] = t]
  <2>2. K = [A EXCEPT !.prev = pv, !.next = nx]
    BY <1>10, <2>1 DEF Splice
  <2>3. pv \in [Tasks -> Ptr] /\ nx \in [Tasks -> Ptr]
    BY <2>1, <1>1 DEF Ptr
  <2>6. /\ nx[t] = c /\ pv[t] = b
        /\ \A u \in Tasks \ {t} : /\ nx[u] = IF u = b THEN t ELSE A.next[u]
                                  /\ pv[u] = IF u = c THEN t ELSE A.prev[u]
    BY <2>1, <1>1, <1>3
  <2> HIDE DEF pv, nx
  <2>4. /\ K.next = nx /\ K.prev = pv /\ K.head = A.head /\ K.tail = A.tail
        /\ K.rhead = A.rhead /\ K.rtail = A.rtail /\ K.pool = A.pool /\ K.heap = A.heap
        /\ K.linked = A.linked /\ K.callback = A.callback /\ K.due = A.due
    BY <2>2 DEF ListType
  <2>5. K \in ListType
    BY <2>2, <2>3 DEF ListType
  <2> QED
    BY <2>1, <2>4, <2>5, <2>6 DEF Spliced, b, c
<1> QED
  BY <1>7, <1>8, <1>9, <1>10 DEF b, c

\* Where AddTaskDelay puts an entry, with the hint or without it.
LEMMA InsertPointIs ==
    ASSUME NEW A, NEW m, IsWalk(A.next, A.head, m), A.due \in [Tasks -> DueTime],
           InOrder(A.due, m), A.insertHint # NULL => A.insertHint \in Elems(m), NEW w \in DueTime
    PROVE  StopsAt(A, m, w, InsertPoint(A, w))
<1>1. m \in Seq(Tasks) /\ A.head = At(m, 1)
  BY DEF IsWalk
<1> DEFINE usable == /\ A.insertHint # NULL
                     /\ A.linked[A.insertHint]
                     /\ NotAfter(A.due[A.insertHint], w)
<1>2. InsertPoint(A, w) = WalkPast(A, w, IF usable THEN A.insertHint ELSE A.head)
  BY DEF InsertPoint
<1>3. CASE usable
  <2>1. PICK i \in DOMAIN m : m[i] = A.insertHint
    BY <1>3 DEF Elems
  <2>2. NotAfter(A.due[m[i]], w)
    BY <2>1, <1>3
  <2>3. StopsAt(A, m, w, WalkPast(A, w, m[i]))
    BY <2>2, WalkPastIs
  <2> QED
    BY <1>2, <1>3, <2>1, <2>3
<1>4. CASE ~usable /\ m # <<>>
  <2>1. 1 \in DOMAIN m /\ A.head = m[1]
    BY <1>1, <1>4, EndsOfSeq
  <2>2. StopsAt(A, m, w, WalkPast(A, w, m[1]))
    BY <2>1, WalkPastIs
  <2>3. InsertPoint(A, w) = WalkPast(A, w, m[1])
    BY <1>2, <1>4, <2>1
  <2> QED
    BY <2>2, <2>3
<1>5. CASE ~usable /\ m = <<>>
  <2>1. A.head = NULL /\ Len(m) = 0 /\ DOMAIN m = {}
    <3>1. A.head = NULL
      BY <1>1, <1>5, EndsOfSeq
    <3> QED
      BY <3>1, <1>5
  <2>2. Chain(A, A.head) = m
    BY ChainIs
  <2>3. InsertPoint(A, w) = NULL
    <3> DEFINE F == {j \in DOMAIN m : ~NotAfter(A.due[m[j]], w)}
    <3>1. F = {}
      BY <2>1
    <3>2. WalkPast(A, w, A.head) = StopAt(m, F)
      BY <2>2 DEF WalkPast
    <3>3. InsertPoint(A, w) = WalkPast(A, w, A.head)
      BY <1>2, <1>5
    <3> QED
      BY <3>1, <3>2, <3>3 DEF StopAt
  <2>4. Splits(A.due, m, 0, w) /\ At(m, 0 + 1) = NULL
    BY <2>1 DEF Splits, At
  <2> QED
    BY <2>3, <2>4 DEF StopsAt
<1> QED
  BY <1>3, <1>4, <1>5

\* The entry as AddTaskDelay fills it in, in no list yet.
Filled(L, t, w) ==
    [L EXCEPT !.callback[t] = TRUE, !.due[t] = w, !.next[t] = NULL, !.prev[t] = NULL, !.linked[t] = TRUE]

IsFilled(A, L, t, w) ==
    /\ A \in ListType
    /\ A.head = L.head /\ A.tail = L.tail /\ A.rhead = L.rhead /\ A.rtail = L.rtail
    /\ A.pool = L.pool /\ A.insertHint = L.insertHint /\ A.heap = L.heap
    /\ A.due = [L.due EXCEPT ![t] = w]
    /\ A.next[t] = NULL /\ A.prev[t] = NULL /\ A.linked[t] = TRUE /\ A.callback[t] = TRUE
    /\ \A u \in Tasks \ {t} : /\ A.next[u] = L.next[u] /\ A.prev[u] = L.prev[u]
                              /\ A.linked[u] = L.linked[u] /\ A.callback[u] = L.callback[u]

LEMMA FilledFields ==
    ASSUME NEW L \in ListType, NEW t \in Tasks, NEW w \in DueTime
    PROVE  IsFilled(Filled(L, t, w), L, t, w)
<1> DEFINE A == Filled(L, t, w)
<1>1. /\ L.next \in [Tasks -> Ptr] /\ L.prev \in [Tasks -> Ptr] /\ L.linked \in [Tasks -> BOOLEAN]
      /\ L.callback \in [Tasks -> BOOLEAN] /\ L.due \in [Tasks -> DueTime]
  BY DEF ListType
<1> DEFINE nx == [L.next EXCEPT ![t] = NULL]
           pv == [L.prev EXCEPT ![t] = NULL]
           lk == [L.linked EXCEPT ![t] = TRUE]
           cb == [L.callback EXCEPT ![t] = TRUE]
           du == [L.due EXCEPT ![t] = w]
<1>2. /\ nx \in [Tasks -> Ptr] /\ pv \in [Tasks -> Ptr] /\ lk \in [Tasks -> BOOLEAN]
      /\ cb \in [Tasks -> BOOLEAN] /\ du \in [Tasks -> DueTime]
  BY <1>1 DEF Ptr
<1>3. /\ nx[t] = NULL /\ pv[t] = NULL /\ lk[t] = TRUE /\ cb[t] = TRUE
      /\ \A u \in Tasks \ {t} : /\ nx[u] = L.next[u] /\ pv[u] = L.prev[u]
                                /\ lk[u] = L.linked[u] /\ cb[u] = L.callback[u]
  BY <1>1
<1>4. A = [L EXCEPT !.callback = cb, !.due = du, !.next = nx, !.prev = pv, !.linked = lk]
  BY DEF Filled, ListType
<1>5. du = [L.due EXCEPT ![t] = w]
  OBVIOUS
<1> HIDE DEF nx, pv, lk, cb, du
<1>6. A \in ListType
  BY <1>2, <1>4 DEF ListType
<1>7. /\ A.head = L.head /\ A.tail = L.tail /\ A.rhead = L.rhead /\ A.rtail = L.rtail
      /\ A.pool = L.pool /\ A.insertHint = L.insertHint /\ A.heap = L.heap
      /\ A.due = du /\ A.next = nx /\ A.prev = pv /\ A.linked = lk /\ A.callback = cb
  BY <1>4 DEF ListType
<1> QED
  BY <1>3, <1>5, <1>6, <1>7 DEF IsFilled

\* AddTaskDelay puts the entry behind all that are due no later.
LEMMA ArmShape ==
    ASSUME NEW L, NEW m, NEW r, NEW p, NEW h, Shape(L, m, r, p, h), NEW t \in h, ~L.linked[t],
           NEW w \in DueTime, InOrder(L.due, m), NEW N, N = AddTaskDelay(L, t, w)
    PROVE  /\ N.due = [L.due EXCEPT ![t] = w]
           /\ \E k \in Nat : Splits(L.due, m, k, w) /\ Shape(N, InsertAfter(m, k, t), r, p, h)
<1> DEFINE A == Filled(L, t, w)
<1>1. /\ m \in Seq(Tasks) /\ Once(m) /\ L.heap \subseteq Tasks /\ L.due \in [Tasks -> DueTime]
      /\ Elems(m) \subseteq Tasks /\ Elems(r) \subseteq Tasks /\ Elems(p) \subseteq Tasks
      /\ Elems(m) \cap Elems(p) = {} /\ Elems(r) \cap Elems(p) = {}
  BY ShapeTypes
<1>2. ListsOK(L, m, r, p) /\ MarksOK(L, m, r, p, h) /\ L \in ListType
  BY DEF Shape
<1>3. /\ t \in Tasks /\ t \notin Elems(p) /\ t \notin Elems(m) /\ t \notin Elems(r)
      /\ t \in L.heap /\ t # NULL
  BY <1>1, <1>2, SchedAssumption DEF MarksOK
<1>4. /\ A \in ListType
      /\ A.head = L.head /\ A.tail = L.tail /\ A.rhead = L.rhead /\ A.rtail = L.rtail
      /\ A.pool = L.pool /\ A.insertHint = L.insertHint /\ A.heap = L.heap
      /\ A.due = [L.due EXCEPT ![t] = w]
      /\ A.next[t] = NULL /\ A.prev[t] = NULL /\ A.linked[t] = TRUE /\ A.callback[t] = TRUE
      /\ \A u \in Tasks \ {t} : /\ A.next[u] = L.next[u] /\ A.prev[u] = L.prev[u]
                                /\ A.linked[u] = L.linked[u] /\ A.callback[u] = L.callback[u]
  <2>1. IsFilled(A, L, t, w)
    BY <1>2, <1>3, FilledFields
  <2> HIDE DEF A
  <2> QED
    BY <2>1 DEF IsFilled
<1>5. N = [Splice(A, t, InsertPoint(A, w)) EXCEPT !.insertHint = t]
  BY DEF AddTaskDelay, Filled
<1> HIDE DEF A
<1>6. ListsOK(A, m, r, p)
  <2>1. \A u \in Elems(m) \cup Elems(r) \cup Elems(p) : A.next[u] = L.next[u] /\ A.prev[u] = L.prev[u]
    BY <1>1, <1>3, <1>4
  <2> QED
    BY <2>1, <1>2, <1>4, ListsFrame
<1>7. \A i \in DOMAIN m : m[i] \in Tasks /\ m[i] # t /\ A.due[m[i]] = L.due[m[i]]
  <2>1. \A i \in DOMAIN m : m[i] \in Elems(m)
    BY DEF Elems
  <2>2. \A i \in DOMAIN m : m[i] \in Tasks /\ m[i] # t
    BY <2>1, <1>1, <1>3
  <2> QED
    BY <2>2, <1>1, <1>4
<1>8. A.due \in [Tasks -> DueTime] /\ InOrder(A.due, m)
  <2>1. InOrder(A.due, m)
    BY <1>7 DEF InOrder
  <2> QED
    BY <2>1, <1>1, <1>4
<1>9. StopsAt(A, m, w, InsertPoint(A, w))
  <2>1. IsWalk(A.next, A.head, m)
    BY <1>6 DEF ListsOK
  <2>2. A.insertHint # NULL => A.insertHint \in Elems(m)
    BY <1>2, <1>4 DEF MarksOK
  <2> QED
    BY <2>1, <2>2, <1>8, InsertPointIs
<1>10. PICK k \in Nat : Splits(A.due, m, k, w) /\ InsertPoint(A, w) = At(m, k + 1)
  BY <1>9 DEF StopsAt
<1>11. k \in 0 .. Len(m) /\ Splits(L.due, m, k, w)
  <2>1. Len(m) \in Nat /\ DOMAIN m = 1 .. Len(m)
    BY <1>1
  <2>2. k \in 0 .. Len(m)
    BY <1>10 DEF Splits
  <2>3. \A i \in 1 .. k : i \in DOMAIN m
    BY <2>1, <2>2
  <2>4. \A i \in k + 1 .. Len(m) : i \in DOMAIN m
    BY <2>1, <2>2
  <2> QED
    BY <2>2, <2>3, <2>4, <1>7, <1>10 DEF Splits
<1> DEFINE K == Splice(A, t, At(m, k + 1))
           q == InsertAfter(m, k, t)
<1>12. Spliced(K, A, m, k, t)
  <2>1. IsWalk(A.next, A.head, m) /\ IsBack(A.prev, m) /\ A.tail = At(m, Len(m))
    BY <1>6 DEF ListsOK
  <2> QED
    BY <2>1, <1>3, <1>4, <1>11, SpliceIs
<1> HIDE DEF K
<1>13. N = [K EXCEPT !.insertHint = t]
  BY <1>5, <1>10 DEF K
<1>14. /\ N \in ListType /\ N.insertHint = t
       /\ N.next = K.next /\ N.prev = K.prev /\ N.head = K.head /\ N.tail = K.tail
       /\ N.rhead = K.rhead /\ N.rtail = K.rtail /\ N.pool = K.pool /\ N.heap = K.heap
       /\ N.linked = K.linked /\ N.callback = K.callback /\ N.due = K.due
  <2>1. K \in ListType /\ t \in Ptr
    BY <1>3, <1>12 DEF Spliced, Ptr
  <2> QED
    BY <2>1, <1>13 DEF ListType
<1>15. /\ N.next[t] = At(m, k + 1) /\ N.prev[t] = At(m, k)
       /\ \A u \in Tasks \ {t} : /\ N.next[u] = IF u = At(m, k) THEN t ELSE L.next[u]
                                 /\ N.prev[u] = IF u = At(m, k + 1) THEN t ELSE L.prev[u]
  BY <1>4, <1>12, <1>14 DEF Spliced
<1>16. /\ N.head = IF k = 0 THEN t ELSE L.head
       /\ N.tail = IF k = Len(m) THEN t ELSE L.tail
       /\ N.rhead = L.rhead /\ N.rtail = L.rtail /\ N.pool = L.pool /\ N.heap = L.heap
       /\ N.linked = A.linked /\ N.callback = A.callback /\ N.due = [L.due EXCEPT ![t] = w]
  BY <1>4, <1>12, <1>14 DEF Spliced
<1>17. IsWalk(N.next, N.head, q) /\ IsBack(N.prev, q) /\ N.tail = At(q, Len(q))
  <2>1. IsWalk(L.next, L.head, m) /\ IsBack(L.prev, m) /\ L.tail = At(m, Len(m))
    BY <1>2 DEF ListsOK
  <2>2. Elems(m) \subseteq Tasks \ {t}
    BY <1>1, <1>3
  <2>3. \A u \in Elems(m) : /\ N.next[u] = IF u = At(m, k) THEN t ELSE L.next[u]
                            /\ N.prev[u] = IF u = At(m, k + 1) THEN t ELSE L.prev[u]
    BY <2>2, <1>15
  <2>4. IsWalk(N.next, IF k = 0 THEN t ELSE L.head, q)
    BY <2>1, <2>3, <1>3, <1>11, <1>15, WalkInsert
  <2>5. IsBack(N.prev, q)
    BY <2>1, <2>3, <1>1, <1>3, <1>11, <1>15, BackInsert
  <2>6. At(q, Len(q)) = IF k = Len(m) THEN t ELSE At(m, Len(m))
    BY <1>1, <1>3, <1>11, LastEntry
  <2> QED
    BY <2>1, <2>4, <2>5, <2>6, <1>16
<1>18. IsWalk(N.next, N.rhead, r) /\ IsWalk(N.next, N.pool, p)
  <2>1. At(m, k) # NULL => At(m, k) \in Elems(m)
    BY DEF At, Elems
  <2>2. Elems(m) \cap Elems(r) = {}
    BY <1>2 DEF MarksOK
  <2>3. \A u \in Elems(r) \cup Elems(p) : u \in Tasks \ {t} /\ u # At(m, k)
    BY <2>1, <2>2, <1>1, <1>3, SchedAssumption
  <2>4. \A u \in Elems(r) \cup Elems(p) : N.next[u] = L.next[u]
    BY <2>3, <1>15
  <2>5. IsWalk(L.next, L.rhead, r) /\ IsWalk(L.next, L.pool, p)
    BY <1>2 DEF ListsOK
  <2>6. IsWalk(N.next, L.rhead, r) /\ IsWalk(N.next, L.pool, p)
    BY <2>4, <2>5, WalkFrame
  <2> QED
    BY <2>6, <1>16
<1>19. Elems(q) = Elems(m) \cup {t}
  BY <1>1, <1>3, <1>11, InsertOnce
<1> HIDE DEF q
<1>20. ListsOK(N, q, r, p)
  BY <1>2, <1>16, <1>17, <1>18 DEF ListsOK
<1>21. MarksOK(N, q, r, p, h)
  <2>1. \A u \in Tasks : N.linked[u] <=> u \in Elems(q) \cup Elems(r)
    <3>1. \A u \in Tasks \ {t} : N.linked[u] <=> u \in Elems(m) \cup Elems(r)
      BY <1>2, <1>4, <1>16 DEF MarksOK
    <3>2. N.linked[t]
      BY <1>4, <1>16
    <3> QED
      BY <3>1, <3>2, <1>19
  <2>2. \A u \in Elems(q) \cup Elems(r) : N.callback[u]
    <3>1. \A u \in Elems(m) \cup Elems(r) : u \in Tasks \ {t} /\ L.callback[u]
      BY <1>1, <1>2, <1>3 DEF MarksOK
    <3> QED
      BY <3>1, <1>4, <1>16, <1>19
  <2> QED
    BY <2>1, <2>2, <1>2, <1>3, <1>14, <1>16, <1>19 DEF MarksOK
<1>22. Shape(N, q, r, p, h)
  BY <1>14, <1>20, <1>21 DEF Shape
<1> QED
  BY <1>10, <1>11, <1>16, <1>22 DEF q

-----------------------------------------------------------------------------
(* runnow *)

\* t is linked behind the last entry of runnow.
Tailed(K, L, r, t) ==
    /\ K \in ListType
    /\ K.head = L.head /\ K.tail = L.tail /\ K.pool = L.pool /\ K.insertHint = L.insertHint
    /\ K.heap = L.heap /\ K.due = L.due /\ K.callback = L.callback
    /\ K.rhead = (IF Len(r) = 0 THEN t ELSE L.rhead) /\ K.rtail = t
    /\ K.next[t] = NULL /\ K.linked[t] = TRUE
    /\ \A u \in Tasks \ {t} : /\ K.next[u] = IF u = At(r, Len(r)) THEN t ELSE L.next[u]
                              /\ K.prev[u] = L.prev[u] /\ K.linked[u] = L.linked[u]

LEMMA TailFields ==
    ASSUME NEW L \in ListType, NEW t \in Tasks, NEW r \in Seq(Tasks), t \notin Elems(r),
           L.rhead = At(r, 1), r # <<>> => L.rtail = At(r, Len(r))
    PROVE  Tailed(AddTaskToTail(L, t), L, r, t)
<1> DEFINE K == AddTaskToTail(L, t)
           b == At(r, Len(r))
<1>1. /\ L.next \in [Tasks -> Ptr] /\ L.prev \in [Tasks -> Ptr] /\ L.linked \in [Tasks -> BOOLEAN]
      /\ t \in Ptr /\ NULL \in Ptr
  BY DEF ListType, Ptr
<1>2. (L.rhead = NULL <=> Len(r) = 0) /\ (L.rhead = NULL <=> r = <<>>)
  BY EndsOfSeq
<1>3. CASE L.rhead = NULL
  <2>1. b = NULL /\ \A u \in Tasks : u # NULL
    BY <1>2, <1>3, SchedAssumption DEF At
  <2> DEFINE nx == [L.next EXCEPT ![t] = NULL]
             pv == [L.prev EXCEPT ![t] = NULL]
             lk == [L.linked EXCEPT ![t] = TRUE]
  <2>2. nx \in [Tasks -> Ptr] /\ pv \in [Tasks -> Ptr] /\ lk \in [Tasks -> BOOLEAN]
    BY <1>1
  <2>3. /\ nx[t] = NULL /\ lk[t] = TRUE
        /\ \A u \in Tasks \ {t} : nx[u] = L.next[u] /\ pv[u] = L.prev[u] /\ lk[u] = L.linked[u]
    BY <1>1
  <2>4. K = [L EXCEPT !.linked = lk, !.rhead = t, !.rtail = t, !.next = nx, !.prev = pv]
    BY <1>3 DEF AddTaskToTail, ListType
  <2> HIDE DEF nx, pv, lk
  <2>5. K \in ListType
    BY <1>1, <2>2, <2>4 DEF ListType
  <2>6. /\ K.head = L.head /\ K.tail = L.tail /\ K.pool = L.pool /\ K.insertHint = L.insertHint
        /\ K.heap = L.heap /\ K.due = L.due /\ K.callback = L.callback
        /\ K.rhead = t /\ K.rtail = t /\ K.next = nx /\ K.prev = pv /\ K.linked = lk
    BY <2>4 DEF ListType
  <2> QED
    BY <1>2, <1>3, <2>1, <2>3, <2>5, <2>6 DEF Tailed
<1>4. CASE L.rhead # NULL
  <2>0. b \in Tasks /\ b = L.rtail /\ b # t /\ Len(r) # 0
    <3>1. r # <<>> /\ Len(r) \in Nat /\ Len(r) # 0 /\ Len(r) \in DOMAIN r
      BY <1>2, <1>4
    <3>2. b = r[Len(r)] /\ b \in Tasks /\ b \in Elems(r)
      BY <3>1, AtSeq DEF At
    <3> QED
      BY <3>1, <3>2
  <2> HIDE DEF b
  <2> DEFINE nx == [L.next EXCEPT ![b] = t, ![t] = NULL]
             pv == [L.prev EXCEPT ![t] = b]
             lk == [L.linked EXCEPT ![t] = TRUE]
  <2>2. nx \in [Tasks -> Ptr] /\ pv \in [Tasks -> Ptr] /\ lk \in [Tasks -> BOOLEAN]
    BY <1>1, <2>0 DEF Ptr
  <2>3. /\ nx[t] = NULL /\ lk[t] = TRUE
        /\ \A u \in Tasks \ {t} : /\ nx[u] = IF u = b THEN t ELSE L.next[u]
                                  /\ pv[u] = L.prev[u] /\ lk[u] = L.linked[u]
    BY <1>1, <2>0
  <2>4. K = [L EXCEPT !.linked = lk, !.next = nx, !.prev = pv, !.rtail = t]
    BY <1>4, <2>0 DEF AddTaskToTail, ListType
  <2> HIDE DEF nx, pv, lk
  <2>5. K \in ListType
    BY <1>1, <2>2, <2>4 DEF ListType
  <2>6. /\ K.head = L.head /\ K.tail = L.tail /\ K.pool = L.pool /\ K.insertHint = L.insertHint
        /\ K.heap = L.heap /\ K.due = L.due /\ K.callback = L.callback
        /\ K.rhead = L.rhead /\ K.rtail = t /\ K.next = nx /\ K.prev = pv /\ K.linked = lk
    BY <2>4 DEF ListType
  <2> QED
    BY <2>0, <2>3, <2>5, <2>6 DEF Tailed, b
<1> QED
  BY <1>3, <1>4

\* AddTaskToTail, of an entry that has just left the main list.
LEMMA TailShape ==
    ASSUME NEW L, NEW m, NEW r, NEW p, NEW h, Shape(L, m, r, p, h),
           NEW t \in h, t \notin Elems(m), t \notin Elems(r), L.callback[t], NEW K, K = AddTaskToTail(L, t)
    PROVE  Shape(K, m, InsertAfter(r, Len(r), t), p, h) /\ K.due = L.due
<1> DEFINE q == InsertAfter(r, Len(r), t)
<1>1. /\ r \in Seq(Tasks) /\ Once(r) /\ L.heap \subseteq Tasks
      /\ Elems(m) \subseteq Tasks /\ Elems(r) \subseteq Tasks /\ Elems(p) \subseteq Tasks
      /\ Elems(m) \cap Elems(p) = {} /\ Elems(r) \cap Elems(p) = {}
  BY ShapeTypes
<1>2. ListsOK(L, m, r, p) /\ MarksOK(L, m, r, p, h) /\ L \in ListType
  BY DEF Shape
<1>3. t \in Tasks /\ t \notin Elems(p) /\ t \in L.heap
  BY <1>1, <1>2 DEF MarksOK
<1>4. IsWalk(L.next, L.rhead, r) /\ L.rhead = At(r, 1) /\ (r # <<>> => L.rtail = At(r, Len(r)))
  BY <1>2 DEF ListsOK, IsWalk
<1>5. Tailed(K, L, r, t)
  BY <1>1, <1>2, <1>3, <1>4, TailFields
<1>6. /\ K.next[t] = NULL
      /\ \A u \in Tasks \ {t} : /\ K.next[u] = IF u = At(r, Len(r)) THEN t ELSE L.next[u]
                                /\ K.prev[u] = L.prev[u] /\ K.linked[u] = L.linked[u]
  BY <1>5 DEF Tailed
<1>7. Len(r) \in 0 .. Len(r) /\ At(r, Len(r) + 1) = NULL /\ (At(r, Len(r)) # NULL => At(r, Len(r)) \in Elems(r))
  <2>1. Len(r) \in Nat /\ DOMAIN r = 1 .. Len(r)
    BY <1>1
  <2>2. Len(r) + 1 \notin DOMAIN r
    BY <2>1
  <2> QED
    BY <2>1, <2>2 DEF At, Elems
<1>8. IsWalk(K.next, K.rhead, q) /\ K.rtail = At(q, Len(q))
  <2>1. \A u \in Elems(r) : K.next[u] = IF u = At(r, Len(r)) THEN t ELSE L.next[u]
    BY <1>1, <1>6
  <2>2. IsWalk(K.next, IF Len(r) = 0 THEN t ELSE L.rhead, q)
    BY <2>1, <1>3, <1>4, <1>6, <1>7, WalkInsert
  <2>3. At(q, Len(q)) = t
    BY <1>1, <1>3, <1>7, LastEntry
  <2> HIDE DEF q
  <2> QED
    BY <2>2, <2>3, <1>5 DEF Tailed
<1>9. Elems(q) = Elems(r) \cup {t}
  BY <1>1, <1>3, <1>7, InsertOnce
<1> HIDE DEF q
<1>10. ListsOK(K, m, q, p)
  <2>1. IsWalk(L.next, L.head, m) /\ IsWalk(L.next, L.pool, p) /\ IsBack(L.prev, m) /\ L.tail = At(m, Len(m))
    BY <1>2 DEF ListsOK
  <2>2. Elems(m) \cap Elems(r) = {}
    BY <1>2 DEF MarksOK
  <2>3. \A u \in Elems(m) \cup Elems(p) : u \in Tasks \ {t} /\ u # At(r, Len(r))
    BY <2>2, <1>1, <1>3, <1>7, SchedAssumption
  <2>4. \A u \in Elems(m) \cup Elems(p) : K.next[u] = L.next[u] /\ K.prev[u] = L.prev[u]
    BY <2>3, <1>6
  <2>5. IsWalk(K.next, L.head, m) /\ IsWalk(K.next, L.pool, p)
    BY <2>1, <2>4, WalkFrame
  <2>6. IsBack(K.prev, m)
    BY <2>1, <2>4, BackFrame
  <2>7. K.head = L.head /\ K.tail = L.tail /\ K.pool = L.pool
    BY <1>5 DEF Tailed
  <2> QED
    BY <2>1, <2>5, <2>6, <2>7, <1>8 DEF ListsOK
<1>11. MarksOK(K, m, q, p, h)
  <2>1. K.heap = L.heap /\ K.insertHint = L.insertHint /\ K.callback = L.callback /\ K.linked[t] = TRUE
    BY <1>5 DEF Tailed
  <2>2. \A u \in Tasks : K.linked[u] <=> u \in Elems(m) \cup Elems(q)
    <3>1. \A u \in Tasks \ {t} : K.linked[u] <=> u \in Elems(m) \cup Elems(r)
      BY <1>2, <1>6 DEF MarksOK
    <3> QED
      BY <3>1, <2>1, <1>9
  <2>3. \A u \in Elems(m) \cup Elems(q) : K.callback[u]
    BY <2>1, <1>2, <1>9 DEF MarksOK
  <2> QED
    BY <2>1, <2>2, <2>3, <1>2, <1>3, <1>9 DEF MarksOK
<1> QED
  BY <1>5, <1>10, <1>11 DEF Shape, Tailed, q

\* ExecTasks takes the first entry of runnow, which will be called.
LEMMA RunShape ==
    ASSUME NEW L, NEW m, NEW r, NEW p, NEW h, Shape(L, m, r, p, h), L.rhead # NULL,
           NEW K, K = PopRunnow(L)
    PROVE  /\ r # <<>> /\ Shape(K, m, RemoveNth(r, 1), p, h) /\ K.due = L.due
           /\ L.rhead = r[1] /\ L.rhead \in Tasks /\ L.callback[L.rhead]
<1> DEFINE q == RemoveNth(r, 1)
           t == L.rhead
<1>1. /\ r \in Seq(Tasks) /\ Once(r) /\ L.heap \subseteq Tasks
      /\ Elems(m) \subseteq Tasks /\ Elems(r) \subseteq Tasks /\ Elems(p) \subseteq Tasks
      /\ Elems(m) \cap Elems(p) = {} /\ Elems(r) \cap Elems(p) = {}
      /\ L.next \in [Tasks -> Ptr] /\ L.prev \in [Tasks -> Ptr] /\ L.linked \in [Tasks -> BOOLEAN]
  BY ShapeTypes
<1>2. ListsOK(L, m, r, p) /\ MarksOK(L, m, r, p, h) /\ L \in ListType
  BY DEF Shape
<1>3. IsWalk(L.next, L.rhead, r) /\ L.rhead = At(r, 1) /\ (r # <<>> => L.rtail = At(r, Len(r)))
  BY <1>2 DEF ListsOK, IsWalk
<1>4. r # <<>> /\ 1 \in DOMAIN r /\ t = r[1] /\ t \in Tasks /\ t \in Elems(r)
  BY <1>1, <1>3, EndsOfSeq, AtSeq
<1>5. L.next[t] = At(r, 2) /\ At(r, 2) \in Ptr /\ At(r, 0) = NULL
  <2>1. L.next[t] = At(r, 2)
    BY <1>3, <1>4 DEF IsWalk
  <2> QED
    BY <2>1, <1>1, AtSeq
<1>6. t \notin Elems(m) /\ t \notin Elems(p) /\ L.callback[t] /\ t \in h
  BY <1>1, <1>2, <1>4 DEF MarksOK
<1> HIDE DEF t
<1> DEFINE nx == [L.next EXCEPT ![t] = NULL]
           pv == [L.prev EXCEPT ![t] = NULL]
           lk == [L.linked EXCEPT ![t] = FALSE]
<1>7. nx \in [Tasks -> Ptr] /\ pv \in [Tasks -> Ptr] /\ lk \in [Tasks -> BOOLEAN]
  BY <1>1, <1>4 DEF Ptr
<1>8. /\ lk[t] = FALSE
      /\ \A u \in Tasks \ {t} : nx[u] = L.next[u] /\ pv[u] = L.prev[u] /\ lk[u] = L.linked[u]
  BY <1>1, <1>4
<1>9. K = [L EXCEPT !.rhead = At(r, 2), !.next = nx, !.prev = pv, !.linked = lk]
  BY <1>2, <1>5 DEF PopRunnow, ListType, t
<1> HIDE DEF nx, pv, lk
<1>10. K \in ListType
  BY <1>2, <1>5, <1>7, <1>9 DEF ListType
<1>11. /\ K.head = L.head /\ K.tail = L.tail /\ K.pool = L.pool /\ K.insertHint = L.insertHint
       /\ K.heap = L.heap /\ K.due = L.due /\ K.callback = L.callback
       /\ K.rhead = At(r, 2) /\ K.rtail = L.rtail /\ K.next = nx /\ K.prev = pv /\ K.linked = lk
  BY <1>2, <1>9 DEF ListType
<1>12. IsWalk(K.next, K.rhead, q)
  <2>1. \A u \in Elems(r) \ {r[1]} : u \in Tasks \ {t} /\ u # NULL
    BY <1>1, <1>4, SchedAssumption
  <2>2. \A u \in Elems(r) \ {r[1]} : K.next[u] = IF u = At(r, 1 - 1) THEN At(r, 1 + 1) ELSE L.next[u]
    BY <2>1, <1>5, <1>8, <1>11
  <2>3. IsWalk(K.next, IF 1 = 1 THEN At(r, 2) ELSE L.rhead, q)
    BY <2>2, <1>3, <1>4, WalkRemove
  <2> HIDE DEF q
  <2> QED
    BY <2>3, <1>11
<1>13. q # <<>> => K.rtail = At(q, Len(q))
  <2> SUFFICES ASSUME q # <<>>  PROVE  K.rtail = At(q, Len(q))
    OBVIOUS
  <2>1. q \in Seq(Tasks) /\ Len(q) = Len(r) - 1 /\ Len(r) \in Nat
    BY <1>1, <1>4, RemovePlaces
  <2>2. Len(q) # 0
    BY <2>1, EndsOfSeq
  <2>3. 2 \in DOMAIN r
    BY <2>1, <2>2, <1>1
  <2>4. At(r, 1 + 1) # NULL
    BY <2>3, <1>1, AtSeq
  <2>5. At(q, Len(q)) = IF At(r, 1 + 1) = NULL THEN At(r, 1 - 1) ELSE At(r, Len(r))
    BY <1>1, <1>4, LastEntry
  <2> QED
    BY <2>4, <2>5, <1>3, <1>4, <1>11
<1>14. Elems(q) = Elems(r) \ {t}
  BY <1>1, <1>4, RemoveOnce
<1> HIDE DEF q
<1>15. \A u \in Elems(m) \cup Elems(p) : u \in Tasks \ {t} /\ K.next[u] = L.next[u] /\ K.prev[u] = L.prev[u]
  <2>1. \A u \in Elems(m) \cup Elems(p) : u \in Tasks \ {t}
    BY <1>1, <1>6
  <2> QED
    BY <2>1, <1>8, <1>11
<1>16. ListsOK(K, m, q, p)
  <2>1. IsWalk(L.next, L.head, m) /\ IsWalk(L.next, L.pool, p) /\ IsBack(L.prev, m) /\ L.tail = At(m, Len(m))
    BY <1>2 DEF ListsOK
  <2>2. IsWalk(K.next, L.head, m) /\ IsWalk(K.next, L.pool, p)
    BY <2>1, <1>15, WalkFrame
  <2>3. IsBack(K.prev, m)
    BY <2>1, <1>15, BackFrame
  <2> QED
    BY <2>1, <2>2, <2>3, <1>11, <1>12, <1>13 DEF ListsOK
<1>17. MarksOK(K, m, q, p, h)
  <2>1. Elems(m) \cap Elems(r) = {} /\ t \notin Elems(q)
    BY <1>2, <1>14 DEF MarksOK
  <2>2. \A u \in Tasks : K.linked[u] <=> u \in Elems(m) \cup Elems(q)
    <3>1. \A u \in Tasks \ {t} : K.linked[u] <=> u \in Elems(m) \cup Elems(r)
      BY <1>2, <1>8, <1>11 DEF MarksOK
    <3>2. ~K.linked[t]
      BY <1>8, <1>11
    <3> QED
      BY <3>1, <3>2, <2>1, <1>6, <1>14
  <2> QED
    BY <2>1, <2>2, <1>2, <1>11, <1>14 DEF MarksOK
<1> QED
  BY <1>4, <1>6, <1>10, <1>11, <1>16, <1>17 DEF Shape, q, t

\* Due times and the tail of an empty runnow are not part of the shape.
LEMMA DueShape ==
    ASSUME NEW L, NEW m, NEW r, NEW p, NEW h, Shape(L, m, r, p, h),
           NEW d \in [Tasks -> DueTime], NEW K, K = [L EXCEPT !.due = d]
    PROVE  Shape(K, m, r, p, h) /\ K.due = d
<1>1. L \in ListType /\ ListsOK(L, m, r, p) /\ MarksOK(L, m, r, p, h)
  BY DEF Shape
<1>2. /\ K \in ListType /\ K.due = d
      /\ K.head = L.head /\ K.tail = L.tail /\ K.pool = L.pool /\ K.insertHint = L.insertHint
      /\ K.heap = L.heap /\ K.callback = L.callback /\ K.rhead = L.rhead /\ K.rtail = L.rtail
      /\ K.next = L.next /\ K.prev = L.prev /\ K.linked = L.linked
  BY <1>1 DEF ListType
<1>3. ListsOK(K, m, r, p)
  BY <1>1, <1>2 DEF ListsOK
<1>4. MarksOK(K, m, r, p, h)
  BY <1>1, <1>2 DEF MarksOK
<1> QED
  BY <1>2, <1>3, <1>4 DEF Shape

LEMMA EmptyShape ==
    ASSUME NEW L, NEW m, NEW r, NEW p, NEW h, Shape(L, m, r, p, h), L.rhead = NULL,
           NEW K, K = [L EXCEPT !.rtail = NULL]
    PROVE  Shape(K, m, r, p, h) /\ K.due = L.due
<1>1. L \in ListType /\ ListsOK(L, m, r, p) /\ MarksOK(L, m, r, p, h)
  BY DEF Shape
<1>2. /\ K \in ListType /\ K.due = L.due
      /\ K.head = L.head /\ K.tail = L.tail /\ K.pool = L.pool /\ K.insertHint = L.insertHint
      /\ K.heap = L.heap /\ K.callback = L.callback /\ K.rhead = L.rhead
      /\ K.next = L.next /\ K.prev = L.prev /\ K.linked = L.linked
  BY <1>1 DEF ListType, Ptr
<1>3. r = <<>>
  <2>1. r \in Seq(Tasks) /\ L.rhead = At(r, 1)
    BY <1>1 DEF ListsOK, IsWalk
  <2> QED
    BY <2>1, EndsOfSeq
<1>4. ListsOK(K, m, r, p)
  BY <1>1, <1>2, <1>3 DEF ListsOK
<1>5. MarksOK(K, m, r, p, h)
  BY <1>1, <1>2 DEF MarksOK
<1> QED
  BY <1>2, <1>4, <1>5 DEF Shape

-----------------------------------------------------------------------------
(* The steps of the scheduler as steps of the line *)

\* The heap holds three lists, and the line they make obeys TaskQueue's own
\* inductive invariant.
Heap == Shape(list, MainChain, RunChain, PoolChain, held)

SInv == Heap /\ LP!IInv

\* A shape's sequences are what the walks read off.
LEMMA ShapeChains ==
    ASSUME NEW L, NEW m, NEW r, NEW p, NEW h, Shape(L, m, r, p, h)
    PROVE  Chain(L, L.head) = m /\ Chain(L, L.rhead) = r /\ Chain(L, L.pool) = p
<1>1. IsWalk(L.next, L.head, m) /\ IsWalk(L.next, L.rhead, r) /\ IsWalk(L.next, L.pool, p)
  BY DEF Shape, ListsOK
<1> QED
  BY <1>1, ChainIs

LEMMA ShapeEnds ==
    ASSUME NEW L, NEW m, NEW r, NEW p, NEW h, Shape(L, m, r, p, h)
    PROVE  /\ L.head = At(m, 1) /\ (L.head = NULL <=> m = <<>>)
           /\ L.rhead = At(r, 1) /\ (L.rhead = NULL <=> r = <<>>)
<1>1. m \in Seq(Tasks) /\ r \in Seq(Tasks) /\ L.head = At(m, 1) /\ L.rhead = At(r, 1)
  BY DEF Shape, ListsOK, IsWalk
<1> QED
  BY <1>1, EndsOfSeq

\* Who stands in the line.
LEMMA LineElems ==
    ASSUME NEW a \in Seq(Tasks), NEW b \in Seq(Tasks)
    PROVE  LP!Members(a \o b) = Elems(a) \cup Elems(b)
<1> DEFINE c == a \o b
<1>1. /\ Len(a) \in Nat /\ Len(b) \in Nat /\ DOMAIN a = 1 .. Len(a) /\ DOMAIN b = 1 .. Len(b)
      /\ DOMAIN c = 1 .. Len(a) + Len(b)
      /\ \A i \in 1 .. Len(a) + Len(b) : c[i] = IF i <= Len(a) THEN a[i] ELSE b[i - Len(a)]
  OBVIOUS
<1> HIDE DEF c
<1>2. ASSUME NEW i \in DOMAIN c  PROVE  c[i] \in Elems(a) \cup Elems(b)
  <2>1. CASE i <= Len(a)
    <3>1. i \in DOMAIN a /\ c[i] = a[i]
      BY <2>1, <1>1
    <3> QED
      BY <3>1 DEF Elems
  <2>2. CASE ~(i <= Len(a))
    <3>1. i - Len(a) \in DOMAIN b /\ c[i] = b[i - Len(a)]
      BY <2>2, <1>1
    <3> QED
      BY <3>1 DEF Elems
  <2> QED
    BY <2>1, <2>2
<1>3. ASSUME NEW i \in DOMAIN a  PROVE  i \in DOMAIN c /\ c[i] = a[i]
  BY <1>1
<1>4. ASSUME NEW i \in DOMAIN b  PROVE  Len(a) + i \in DOMAIN c /\ c[Len(a) + i] = b[i]
  <2>1. Len(a) + i \in DOMAIN c /\ ~(Len(a) + i <= Len(a)) /\ (Len(a) + i) - Len(a) = i
    BY <1>1
  <2> QED
    BY <2>1, <1>1
<1>5. LP!Members(c) = {c[i] : i \in DOMAIN c}
  BY DEF LP!Members
<1>6. {c[i] : i \in DOMAIN c} = Elems(a) \cup Elems(b)
  BY <1>2, <1>3, <1>4 DEF Elems
<1> QED
  BY <1>5, <1>6 DEF c

\* What the invariant says of a state.
LEMMA InvFacts ==
    ASSUME SInv
    PROVE  /\ MainChain \in Seq(Tasks) /\ RunChain \in Seq(Tasks)
           /\ InOrder(list.due, MainChain) /\ list.due \in [Tasks -> DueTime]
           /\ now \in Clock /\ cur \in Ptr
           /\ phase \in {"boot", "idle", "collect", "run", "call", "stopped"}
           /\ LP!Members(LP!Line) = Elems(MainChain) \cup Elems(RunChain)
<1>1. MainChain \in Seq(Tasks) /\ RunChain \in Seq(Tasks) /\ list.due \in [Tasks -> DueTime]
  BY ShapeTypes DEF SInv, Heap
<1>2. InOrder(list.due, MainChain)
  BY DEF SInv, LP!IInv, LP!HalvesOK, LP!Sorted, InOrder, NotAfter, LP!NotAfter
<1>3. now \in Clock /\ cur \in Ptr /\ phase \in {"boot", "idle", "collect", "run", "call", "stopped"}
  BY DEF SInv, LP!IInv, LP!TypeOK, LP!Phases, Ptr
<1>4. LP!Members(LP!Line) = Elems(MainChain) \cup Elems(RunChain)
  BY <1>1, LineElems DEF LP!Line
<1> QED
  BY <1>1, <1>2, <1>3, <1>4

\* A due time is a due time.
LEMMA DueAtIs ==
    ASSUME NEW c \in Clock, NEW d \in Delays
    PROVE  DueAt(c, d) \in DueTime
<1>1. c \in Nat \X (0 .. MicrosPerSec - 1) /\ d \in Nat \X (0 .. MicrosPerSec - 1) /\ MicrosPerSec \in Nat
  BY SchedAssumption, MicrosAssumption DEF Reading
<1> QED
  BY <1>1 DEF DueAt, DueTime

\* AddTaskDelay is Arm.
LEMMA ScheduleStep ==
    ASSUME SInv, NEW t \in Tasks, NEW d \in Delays, ScheduleTask(t, d)
    PROVE  Heap' /\ LP!Arm(t, d)
<1> DEFINE w == DueAt(now, d)
           m == MainChain
           r == RunChain
<1>1. Shape(list, m, r, PoolChain, held) /\ m \in Seq(Tasks) /\ InOrder(list.due, m) /\ w \in DueTime
  BY InvFacts, DueAtIs DEF SInv, Heap
<1>2. /\ phase \in {"boot", "call"} /\ t \in held /\ ~list.linked[t]
      /\ list' = AddTaskDelay(list, t, w) /\ UNCHANGED <<held, now, phase, cur>>
  BY DEF ScheduleTask, ClientTurn
<1> HIDE DEF w
<1>3. list'.due = [list.due EXCEPT ![t] = w]
  BY <1>1, <1>2, ArmShape
<1>4. PICK k \in Nat : Splits(list.due, m, k, w) /\ Shape(list', InsertAfter(m, k, t), r, PoolChain, held)
  BY <1>1, <1>2, ArmShape
<1>5. MainChain' = InsertAfter(m, k, t) /\ RunChain' = r /\ PoolChain' = PoolChain
  BY <1>4, ShapeChains DEF MainChain, RunChain, PoolChain
<1>6. Heap'
  BY <1>2, <1>4, <1>5 DEF Heap
<1>7. t \notin LP!Members(LP!Line)
  <2>1. t \notin Elems(MainChain) \cup Elems(RunChain)
    BY <1>1, <1>2 DEF Shape, MarksOK
  <2> QED
    BY <2>1, InvFacts
<1>8. /\ k \in 0 .. Len(m) /\ \A i \in 1 .. k : LP!NotAfter(list.due[m[i]], w)
      /\ \A i \in k + 1 .. Len(m) : ~LP!NotAfter(list.due[m[i]], w)
  <2>1. /\ k \in 0 .. Len(m) /\ \A i \in 1 .. k : NotAfter(list.due[m[i]], w)
        /\ \A i \in k + 1 .. Len(m) : ~NotAfter(list.due[m[i]], w)
    BY <1>4 DEF Splits
  <2>2. \A a, b : LP!NotAfter(a, b) <=> NotAfter(a, b)
    BY Zenon DEF LP!NotAfter, NotAfter
  <2> QED
    BY <2>1, <2>2
<1>9. LP!DueAt(now, d) = w
  BY Zenon DEF LP!DueAt, DueAt, w
<1>10. MainChain' = LP!InsertAfter(m, k, t)
  BY <1>5 DEF InsertAfter
<1>11. LP!ClientTurn
  BY <1>2 DEF LP!ClientTurn
<1>12. LP!Arm(t, d)
  <2> DEFINE W == LP!DueAt(now, d)
  <2>1. W = w
    BY <1>9
  <2> HIDE DEF W
  <2>2. \E j \in 0 .. Len(MainChain) :
           /\ \A i \in 1 .. j : LP!NotAfter(list.due[MainChain[i]], W)
           /\ \A i \in j + 1 .. Len(MainChain) : ~LP!NotAfter(list.due[MainChain[i]], W)
           /\ MainChain' = LP!InsertAfter(MainChain, j, t)
           /\ list'.due = [list.due EXCEPT ![t] = W]
    BY <2>1, <1>3, <1>8, <1>10
  <2> QED
    BY <2>2, <1>2, <1>5, <1>7, <1>11 DEF LP!Arm, W
<1> QED
  BY <1>6, <1>12

\* The line as it was: a step that clients do not see there.
Still == MainChain' = MainChain /\ RunChain' = RunChain /\ list'.due = list.due

\* One entry has left the main list.
Left(t) ==
    /\ RunChain' = RunChain /\ list'.due = list.due
    /\ \E k \in DOMAIN MainChain : MainChain[k] = t /\ MainChain' = RemoveNth(MainChain, k)

LEMMA LeftIsDrop ==
    ASSUME NEW t, Left(t), ClientTurn, UNCHANGED <<now, phase, cur>>
    PROVE  LP!Drop(t)
<1>1. LP!ClientTurn
  BY DEF ClientTurn, LP!ClientTurn
<1> QED
  BY <1>1 DEF Left, LP!Drop, RemoveNth

\* CreateTask and GetTask leave the line alone.
LEMMA AcquireStep ==
    ASSUME SInv, NEW t \in Tasks, AcquireTask(t)
    PROVE  Heap' /\ Still
<1>1. Shape(list, MainChain, RunChain, PoolChain, held) /\ held' = held \cup {t}
  BY DEF SInv, Heap, AcquireTask
<1>2. ASSUME NEW p, Shape(list', MainChain, RunChain, p, held'), list'.due = list.due
      PROVE  Heap' /\ Still
  <2>1. MainChain' = MainChain /\ RunChain' = RunChain /\ PoolChain' = p
    BY <1>2, ShapeChains DEF MainChain, RunChain, PoolChain
  <2> QED
    BY <1>2, <2>1 DEF Heap, Still
<1>3. CASE list.pool = t /\ list' = PopPool(list)
  <2>1. list.pool # NULL
    BY <1>3, SchedAssumption
  <2>2. /\ Shape(list', MainChain, RunChain, RemoveNth(PoolChain, 1), held')
        /\ list'.due = list.due
    BY <1>1, <1>3, <2>1, PopShape
  <2> QED
    BY <1>2, <2>2
<1>4. CASE t \notin list.heap /\ list' = CreateTask(list, t)
  BY <1>1, <1>2, <1>4, CreateShape
<1> QED
  BY <1>3, <1>4 DEF AcquireTask

\* RemoveTaskFromList on a task that clients own, wherever it is.
LEMMA RemoveStep ==
    ASSUME SInv, NEW t \in held, t \notin Elems(RunChain), NEW R, R = RemoveTaskFromList(list, t)
    PROVE  \E q : /\ Shape(R, q, RunChain, PoolChain, held) /\ R.due = list.due /\ t \notin Elems(q)
                  /\ \/ q = MainChain
                     \/ \E k \in DOMAIN MainChain : MainChain[k] = t /\ q = RemoveNth(MainChain, k)
<1>1. Shape(list, MainChain, RunChain, PoolChain, held) /\ MainChain \in Seq(Tasks) /\ Once(MainChain)
  BY ShapeTypes DEF SInv, Heap
<1>2. CASE t \in Elems(MainChain)
  <2>1. PICK k \in DOMAIN MainChain : MainChain[k] = t
    BY <1>2 DEF Elems
  <2>2. Shape(R, RemoveNth(MainChain, k), RunChain, PoolChain, held) /\ R.due = list.due
    BY <1>1, <2>1, UnlinkShape
  <2>3. t \notin Elems(RemoveNth(MainChain, k))
    BY <1>1, <2>1, RemoveOnce
  <2> QED
    BY <2>1, <2>2, <2>3
<1>3. CASE t \notin Elems(MainChain)
  <2>1. t \in Tasks /\ ~list.linked[t]
    <3>1. held \subseteq list.heap /\ list.heap \subseteq Tasks
      BY <1>1, ShapeTypes DEF Shape, MarksOK
    <3> QED
      BY <1>1, <1>3, <3>1 DEF Shape, MarksOK
  <2>2. R = list
    BY <2>1 DEF RemoveTaskFromList
  <2> QED
    BY <1>1, <1>3, <2>2
<1> QED
  BY <1>2, <1>3

\* What follows for the line from the shape that a removal leaves.
LEMMA LeaveStep ==
    ASSUME NEW STATE p, NEW STATE t, NEW STATE q, Shape(list', q, RunChain, p, held'), list'.due = list.due,
           \/ q = MainChain
           \/ \E k \in DOMAIN MainChain : MainChain[k] = t /\ q = RemoveNth(MainChain, k)
    PROVE  Heap' /\ (Still \/ Left(t))
<1>1. MainChain' = q /\ RunChain' = RunChain /\ PoolChain' = p
  BY ShapeChains DEF MainChain, RunChain, PoolChain
<1> QED
  BY <1>1 DEF Heap, Still, Left

\* RemoveTask.
LEMMA RetireStep ==
    ASSUME SInv, ~RetireBatched, NEW t \in Tasks, RetireTask(t)
    PROVE  Heap' /\ (Still \/ Left(t))
<1> DEFINE R == RemoveTaskFromList(list, t)
<1>1. t \in held /\ t \notin Elems(RunChain) /\ list' = RemoveTask(list, t) /\ held' = held \ {t}
  BY DEF RetireTask, MayRetire
<1>2. PICK q : /\ Shape(R, q, RunChain, PoolChain, held) /\ R.due = list.due /\ t \notin Elems(q)
               /\ \/ q = MainChain
                  \/ \E k \in DOMAIN MainChain : MainChain[k] = t /\ q = RemoveNth(MainChain, k)
  BY <1>1, RemoveStep
<1>3. list' = Pushed(R, t)
  BY <1>1 DEF RemoveTask, Pushed
<1> HIDE DEF R
<1>4. Shape(list', q, RunChain, InsertAfter(PoolChain, 0, t), held') /\ list'.due = list.due
  BY <1>1, <1>2, <1>3, PushShape
<1> QED
  BY <1>2, <1>4, LeaveStep

\* DeleteTask.
LEMMA FreeStep ==
    ASSUME SInv, ~RetireBatched, NEW t \in Tasks, FreeTask(t)
    PROVE  Heap' /\ (Still \/ Left(t))
<1> DEFINE R == RemoveTaskFromList(list, t)
<1>1. /\ t \notin Elems(RunChain) /\ (t \in held \/ t \in Elems(PoolChain))
      /\ list' = DeleteTask(list, t) /\ held' = held \ {t}
  BY DEF FreeTask, MayRetire
<1>2. list' = Freed(Unpooled(R, t), t)
  BY <1>1 DEF DeleteTask, Freed, Unpooled
<1>3. CASE t \in held
  <2>1. PICK q : /\ Shape(R, q, RunChain, PoolChain, held) /\ R.due = list.due /\ t \notin Elems(q)
                 /\ \/ q = MainChain
                    \/ \E k \in DOMAIN MainChain : MainChain[k] = t /\ q = RemoveNth(MainChain, k)
    BY <1>1, <1>3, RemoveStep
  <2> HIDE DEF R
  <2>2. Shape(list', q, RunChain, PoolChain, held') /\ list'.due = list.due
    BY <1>1, <1>2, <1>3, <2>1, FreeOwnedShape
  <2> QED
    BY <2>1, <2>2, LeaveStep
<1>4. CASE t \notin held
  <2>1. Shape(list, MainChain, RunChain, PoolChain, held) /\ t \in Elems(PoolChain)
    BY <1>1, <1>4 DEF SInv, Heap
  <2>2. ~list.linked[t]
    <3>1. Elems(MainChain) \cap Elems(PoolChain) = {} /\ Elems(RunChain) \cap Elems(PoolChain) = {}
      BY <2>1, ShapeTypes
    <3> QED
      BY <2>1, <3>1 DEF Shape, MarksOK
  <2>3. R = list
    BY <2>2 DEF RemoveTaskFromList
  <2>4. PICK k \in DOMAIN PoolChain : PoolChain[k] = t
    BY <2>1 DEF Elems
  <2> HIDE DEF R
  <2>5. Shape(list', MainChain, RunChain, RemoveNth(PoolChain, k), held) /\ list'.due = list.due
    BY <1>2, <2>1, <2>3, <2>4, FreeRetiredShape
  <2>6. held' = held
    BY <1>1, <1>4
  <2> QED
    BY <2>5, <2>6, LeaveStep
<1> QED
  BY <1>3, <1>4

\* ActivateTimedTasks is Collect ...
LEMMA ActivateStep ==
    ASSUME SInv, ActivateOne
    PROVE  Heap' /\ LP!Collect
<1> DEFINE m == MainChain
           r == RunChain
           t == list.head
           R == RemoveTaskFromList(list, t)
<1>1. /\ Shape(list, m, r, PoolChain, held) /\ m \in Seq(Tasks) /\ r \in Seq(Tasks)
      /\ Once(m) /\ Elems(m) \subseteq Tasks
  BY ShapeTypes DEF SInv, Heap
<1>2. /\ phase = "collect" /\ t # NULL /\ NotAfter(list.due[t], now)
      /\ list' = AddTaskToTail(R, t) /\ UNCHANGED <<held, now, phase, cur>>
  BY DEF ActivateOne
<1>3. m # <<>> /\ 1 \in DOMAIN m /\ t = m[1] /\ t = Head(m) /\ Tail(m) = RemoveNth(m, 1)
  <2>1. t = At(m, 1) /\ (t = NULL <=> m = <<>>)
    BY <1>1, ShapeEnds
  <2> QED
    BY <2>1, <1>1, <1>2, EndsOfSeq
<1>4. t \in Elems(m) /\ t \in held /\ t \notin Elems(r) /\ list.callback[t] /\ t \in Tasks
  <2>1. t \in Elems(m)
    BY <1>1, <1>3, AtSeq
  <2> QED
    BY <2>1, <1>1 DEF Shape, MarksOK
<1> HIDE DEF t
<1>5. R = Unlink(list, t) /\ Shape(R, RemoveNth(m, 1), r, PoolChain, held) /\ R.due = list.due /\ R.callback = list.callback
  BY <1>1, <1>3, UnlinkShape
<1>6. t \notin Elems(RemoveNth(m, 1))
  BY <1>1, <1>3, RemoveOnce
<1> HIDE DEF R
<1>7. Shape(list', RemoveNth(m, 1), InsertAfter(r, Len(r), t), PoolChain, held) /\ list'.due = list.due
  BY <1>2, <1>4, <1>5, <1>6, TailShape
<1>8. MainChain' = RemoveNth(m, 1) /\ RunChain' = InsertAfter(r, Len(r), t) /\ PoolChain' = PoolChain
  BY <1>7, ShapeChains DEF MainChain, RunChain, PoolChain
<1>9. Heap'
  BY <1>2, <1>7, <1>8 DEF Heap
<1>10. MainChain' = Tail(m) /\ RunChain' = Append(r, Head(m))
  BY <1>1, <1>3, <1>4, <1>8, EndsOfSeq
<1>11. LP!NotAfter(list.due[Head(m)], now)
  BY <1>2, <1>3 DEF NotAfter, LP!NotAfter
<1> QED
  BY <1>2, <1>3, <1>7, <1>9, <1>10, <1>11 DEF LP!Collect

\* ... and its end is Collected.
LEMMA ActivateEndStep ==
    ASSUME SInv, ActivateEnd
    PROVE  Heap' /\ LP!Collected
<1>1. /\ Shape(list, MainChain, RunChain, PoolChain, held) /\ MainChain \in Seq(Tasks)
  BY ShapeTypes DEF SInv, Heap
<1>2. /\ phase = "collect" /\ (list.head # NULL => ~NotAfter(list.due[list.head], now))
      /\ phase' = (IF list.head = NULL /\ list.rhead = NULL THEN "stopped" ELSE "run")
      /\ list' = list /\ held' = held /\ now' = now /\ cur' = cur
  BY DEF ActivateEnd
<1>3. (list.head = NULL <=> MainChain = <<>>) /\ (list.rhead = NULL <=> RunChain = <<>>) /\ list.head = At(MainChain, 1)
  BY <1>1, ShapeEnds
<1>4. MainChain # <<>> => list.head = Head(MainChain)
  BY <1>1, <1>3, EndsOfSeq
<1>5. MainChain # <<>> => ~LP!NotAfter(list.due[Head(MainChain)], now)
  BY <1>2, <1>3, <1>4 DEF NotAfter, LP!NotAfter
<1>6. MainChain' = MainChain /\ RunChain' = RunChain /\ PoolChain' = PoolChain /\ list'.due = list.due
  BY <1>2 DEF MainChain, RunChain, PoolChain
<1>7. Heap'
  BY <1>1, <1>2, <1>6 DEF Heap
<1> QED
  BY <1>2, <1>3, <1>5, <1>6, <1>7 DEF LP!Collected

\* ExecTasks is Run: what is in runnow has its callback.
LEMMA ExecStep ==
    ASSUME SInv, ExecOne
    PROVE  Heap' /\ LP!Run
<1>1. Shape(list, MainChain, RunChain, PoolChain, held) /\ RunChain \in Seq(Tasks)
  BY ShapeTypes DEF SInv, Heap
<1>2. phase = "run" /\ list.rhead # NULL /\ list' = PopRunnow(list) /\ held' = held /\ now' = now
  BY DEF ExecOne
<1>3. /\ RunChain # <<>> /\ Shape(list', MainChain, RemoveNth(RunChain, 1), PoolChain, held)
      /\ list'.due = list.due /\ list.rhead = RunChain[1] /\ list.callback[list.rhead]
  BY <1>1, <1>2, RunShape
<1>4. cur' = list.rhead /\ phase' = "call"
  BY <1>3 DEF ExecOne
<1>5. MainChain' = MainChain /\ RunChain' = RemoveNth(RunChain, 1) /\ PoolChain' = PoolChain
  BY <1>3, ShapeChains DEF MainChain, RunChain, PoolChain
<1>6. Heap'
  BY <1>2, <1>3, <1>5 DEF Heap
<1>7. Head(RunChain) = list.rhead /\ RunChain' = Tail(RunChain)
  BY <1>1, <1>3, <1>5, EndsOfSeq
<1> QED
  BY <1>2, <1>3, <1>4, <1>5, <1>6, <1>7 DEF LP!Run

LEMMA ExecEndStep ==
    ASSUME SInv, ExecEnd
    PROVE  Heap' /\ LP!Sleep
<1>1. Shape(list, MainChain, RunChain, PoolChain, held)
  BY DEF SInv, Heap
<1>2. /\ phase = "run" /\ list.rhead = NULL /\ phase' = "idle" /\ list' = [list EXCEPT !.rtail = NULL]
      /\ held' = held /\ now' = now /\ cur' = cur
  BY DEF ExecEnd
<1>3. RunChain = <<>>
  BY <1>1, <1>2, ShapeEnds
<1>4. Shape(list', MainChain, RunChain, PoolChain, held) /\ list'.due = list.due
  BY <1>1, <1>2, EmptyShape
<1>5. MainChain' = MainChain /\ RunChain' = RunChain /\ PoolChain' = PoolChain
  BY <1>4, ShapeChains DEF MainChain, RunChain, PoolChain
<1>6. Heap'
  BY <1>2, <1>4, <1>5 DEF Heap
<1> QED
  BY <1>2, <1>3, <1>4, <1>5, <1>6 DEF LP!Sleep

\* The theorems of TaskQueue apply: its assumptions are Sched's.
LEMMA QueueInv == LP!IInv /\ [LP!Next]_(LP!vars) => LP!IInv'
<1>1. Clock \subseteq LP!Reading
  BY SchedAssumption DEF Reading, LP!Reading
<1> QED
  BY <1>1, LP!NextInv, SchedAssumption, MicrosAssumption

\* MainLoop is Tick.  That no due time is driven below zero is TaskQueue's.
LEMMA TickStep ==
    ASSUME SInv, NEW n \in Clock, MainLoop(n)
    PROVE  Heap' /\ LP!Tick(n)
<1> DEFINE m == MainChain
           off == ClockOffset(now, n)
           D == [t \in Tasks |-> IF t \in Elems(m) THEN Shift(list.due[t], off) ELSE list.due[t]]
<1>1. Shape(list, m, RunChain, PoolChain, held)
  BY DEF SInv, Heap
<1>2. /\ phase = "idle" /\ phase' = "collect" /\ now' = n
      /\ list' = AdjustDelayedTasks(list, off) /\ held' = held /\ cur' = cur
  BY DEF MainLoop
<1>3. list' = [list EXCEPT !.due = D]
  <2>1. \A t : (\E i \in DOMAIN m : m[i] = t) <=> t \in Elems(m)
    BY DEF Elems
  <2>2. D = [t \in Tasks |-> IF \E i \in DOMAIN m : m[i] = t THEN Shift(list.due[t], off) ELSE list.due[t]]
    BY <2>1
  <2>3. AdjustDelayedTasks(list, off)
          = [list EXCEPT !.due = [t \in Tasks |-> IF \E i \in DOMAIN m : m[i] = t
                                                   THEN Shift(list.due[t], off) ELSE list.due[t]]]
    BY <1>1 DEF AdjustDelayedTasks, MainChain, Shape, ListType
  <2> QED
    BY <1>2, <2>2, <2>3
<1> HIDE DEF D
<1>4. /\ list'.due = D /\ list'.next = list.next /\ list'.head = list.head
      /\ list'.rhead = list.rhead /\ list'.pool = list.pool
  BY <1>1, <1>3 DEF Shape, ListType
<1>5. MainChain' = m /\ RunChain' = RunChain /\ PoolChain' = PoolChain
  <2>1. IsWalk(list.next, list.head, m) /\ IsWalk(list.next, list.rhead, RunChain) /\ IsWalk(list.next, list.pool, PoolChain)
    BY <1>1 DEF Shape, ListsOK
  <2>2. /\ IsWalk(list'.next, list'.head, m) /\ IsWalk(list'.next, list'.rhead, RunChain)
        /\ IsWalk(list'.next, list'.pool, PoolChain)
    BY <2>1, <1>4
  <2>3. /\ Chain(list', list'.head) = m /\ Chain(list', list'.rhead) = RunChain
        /\ Chain(list', list'.pool) = PoolChain
    BY <2>2, ChainIs
  <2> QED
    BY <2>3 DEF MainChain, RunChain, PoolChain
<1>6. LP!Tick(n)
  <2>1. LP!ClockOffset(now, n) = off
    BY Zenon DEF LP!ClockOffset, ClockOffset
  <2>2. LP!Members(MainChain) = Elems(m)
    BY DEF LP!Members, Elems
  <2>3. \A a, b : LP!Shift(a, b) = Shift(a, b)
    BY Zenon DEF LP!Shift, Shift
  <2> DEFINE o == LP!ClockOffset(now, n)
             M == LP!Members(MainChain)
  <2>4. D = [t \in Tasks |-> IF t \in M THEN LP!Shift(list.due[t], o) ELSE list.due[t]]
    BY <2>1, <2>2, <2>3 DEF D
  <2> QED
    BY <1>2, <1>4, <1>5, <2>4 DEF LP!Tick
<1>7. D \in [Tasks -> DueTime]
  <2>1. LP!Next
    BY <1>6 DEF LP!Next
  <2>2. LP!IInv'
    BY <2>1, QueueInv DEF SInv
  <2>3. list'.due \in [Tasks -> LP!DueTime]
    BY <2>2 DEF LP!IInv, LP!TypeOK
  <2>4. LP!DueTime = DueTime
    BY DEF LP!DueTime, DueTime
  <2> QED
    BY <2>3, <2>4, <1>4
<1>8. Shape(list', m, RunChain, PoolChain, held)
  BY <1>1, <1>3, <1>7, DueShape
<1>9. Heap'
  BY <1>2, <1>5, <1>8 DEF Heap
<1> QED
  BY <1>6, <1>9

\* A step of the scheduler is a step of the line or leaves it as it is, and the
\* heap keeps its shape.
LEMMA SchedStep ==
    ASSUME SInv, ~RetireBatched, [Next]_vars
    PROVE  Heap' /\ [LP!Next]_(LP!vars)
<1>0. ASSUME Still, UNCHANGED <<now, phase, cur>>  PROVE  UNCHANGED LP!vars
  BY <1>0 DEF Still, LP!vars
<1>1. ASSUME NEW t \in Tasks, AcquireTask(t)  PROVE  Heap' /\ [LP!Next]_(LP!vars)
  <2>1. UNCHANGED <<now, phase, cur>>
    BY <1>1 DEF AcquireTask
  <2> QED
    BY <2>1, <1>0, <1>1, AcquireStep
<1>2. ASSUME NEW t \in Tasks, RetireTask(t) \/ FreeTask(t)  PROVE  Heap' /\ [LP!Next]_(LP!vars)
  <2>1. ClientTurn /\ UNCHANGED <<now, phase, cur>>
    BY <1>2 DEF RetireTask, FreeTask
  <2>2. Heap' /\ (Still \/ Left(t))
    BY <1>2, RetireStep, FreeStep
  <2>3. Left(t) => LP!Next
    BY <2>1, LeftIsDrop DEF LP!Next
  <2> QED
    BY <2>1, <2>2, <2>3, <1>0
<1>3. ASSUME NEW t \in Tasks, NEW d \in Delays, ScheduleTask(t, d)  PROVE  Heap' /\ [LP!Next]_(LP!vars)
  <2>1. Heap' /\ LP!Arm(t, d)
    BY <1>3, ScheduleStep
  <2> QED
    BY <2>1 DEF LP!Next
<1>4. ASSUME NEW n \in Clock, MainLoop(n)  PROVE  Heap' /\ [LP!Next]_(LP!vars)
  <2>1. Heap' /\ LP!Tick(n)
    BY <1>4, TickStep
  <2> QED
    BY <2>1 DEF LP!Next
<1>5. CASE ActivateOne \/ ActivateEnd \/ ExecOne \/ ExecEnd
  <2>1. Heap' /\ (LP!Collect \/ LP!Collected \/ LP!Run \/ LP!Sleep)
    BY <1>5, ActivateStep, ActivateEndStep, ExecStep, ExecEndStep
  <2> QED
    BY <2>1 DEF LP!Next
<1>6. CASE EnterLoop \/ CallbackReturn \/ UNCHANGED vars
  <2>1. list' = list /\ held' = held /\ now' = now
    BY <1>6 DEF EnterLoop, CallbackReturn, vars
  <2>2. MainChain' = MainChain /\ RunChain' = RunChain /\ PoolChain' = PoolChain /\ list'.due = list.due
    BY <2>1 DEF MainChain, RunChain, PoolChain
  <2>3. Heap'
    BY <2>1, <2>2 DEF SInv, Heap
  <2>4. CASE EnterLoop
    BY <2>1, <2>2, <2>3, <2>4 DEF EnterLoop, LP!EnterLoop, LP!Next
  <2>5. CASE CallbackReturn
    BY <2>1, <2>2, <2>3, <2>5 DEF CallbackReturn, LP!Return, LP!Next
  <2>6. CASE UNCHANGED vars
    BY <2>1, <2>2, <2>3, <2>6 DEF vars, LP!vars
  <2> QED
    BY <1>6, <2>4, <2>5, <2>6
<1> QED
  BY <1>1, <1>2, <1>3, <1>4, <1>5, <1>6 DEF Next

\* In the beginning there are three empty lists.
LEMMA SchedInit == Init => SInv /\ LP!Init
<1> SUFFICES ASSUME Init  PROVE  SInv /\ LP!Init
  OBVIOUS
<1>1. list = CreateList /\ held = {} /\ now \in Clock /\ phase = "boot" /\ cur = NULL
  BY DEF Init
<1> DEFINE e == <<>>
<1>2. e \in Seq(Tasks) /\ DOMAIN e = {} /\ Len(e) = 0 /\ Elems(e) = {} /\ \A i \in Int : At(e, i) = NULL
  BY DEF Elems, At
<1>3. /\ list.head = NULL /\ list.tail = NULL /\ list.rhead = NULL /\ list.pool = NULL
      /\ list.insertHint = NULL /\ list.heap = {} /\ list.linked = [t \in Tasks |-> FALSE]
      /\ list.due = [t \in Tasks |-> <<0, 0>>]
  BY <1>1 DEF CreateList
<1>4. list \in ListType
  <2>1. <<0, 0>> \in DueTime
    BY MicrosAssumption DEF DueTime
  <2> QED
    BY <1>1, <2>1 DEF CreateList, ListType, Ptr
<1>5. IsWalk(list.next, NULL, e) /\ IsBack(list.prev, e) /\ At(e, Len(e)) = NULL
  <2>1. Once(e)
    BY <1>2 DEF Once
  <2> HIDE DEF e
  <2> QED
    BY <1>2, <2>1 DEF IsWalk, IsBack
<1>6. Shape(list, e, e, e, held)
  <2>1. ListsOK(list, e, e, e)
    BY <1>3, <1>5 DEF ListsOK
  <2>2. MarksOK(list, e, e, e, held)
    <3>1. Elems(e) = {}
      BY <1>2
    <3> HIDE DEF e
    <3> QED
      BY <1>1, <1>3, <3>1 DEF MarksOK
  <2> QED
    BY <1>4, <2>1, <2>2 DEF Shape
<1>7. MainChain = e /\ RunChain = e /\ PoolChain = e
  BY <1>6, ShapeChains DEF MainChain, RunChain, PoolChain
<1>8. Heap
  BY <1>6, <1>7 DEF Heap
<1>9. LP!Init
  BY <1>1, <1>3, <1>7 DEF LP!Init
<1>10. LP!IInv
  <2>1. Clock \subseteq LP!Reading
    BY SchedAssumption DEF Reading, LP!Reading
  <2> QED
    BY <1>9, <2>1, LP!InitInv, SchedAssumption, MicrosAssumption
<1> QED
  BY <1>8, <1>9, <1>10 DEF SInv

-----------------------------------------------------------------------------
(* The theorems *)

\* As many entries as places.
LEMMA CountOnce ==
    ASSUME NEW s \in Seq(Tasks), Once(s)
    PROVE  IsFiniteSet(Elems(s)) /\ Cardinality(Elems(s)) = Len(s)
<1>1. Len(s) \in Nat /\ DOMAIN s = 1 .. Len(s) /\ s \in [1 .. Len(s) -> Tasks]
  OBVIOUS
<1>2. \A i \in 1 .. Len(s) : s[i] \in Elems(s)
  BY <1>1 DEF Elems
<1>3. \A x \in Elems(s) : \E i \in 1 .. Len(s) : s[i] = x
  BY <1>1 DEF Elems
<1>4. s \in [1 .. Len(s) -> Elems(s)]
  BY <1>1, <1>2
<1>5. s \in Bijection(1 .. Len(s), Elems(s))
  BY <1>1, <1>3, <1>4 DEF Bijection, Injection, Surjection, IsInjective, Once
<1>6. IsFiniteSet(1 .. Len(s)) /\ Cardinality(1 .. Len(s)) = Len(s)
  BY <1>1, PlacesUpTo
<1>7. ExistsBijection(1 .. Len(s), Elems(s))
  BY <1>5 DEF ExistsBijection
<1> QED
  BY <1>6, <1>7, FS_Bijection

\* The shape is all that NothingLost and DeleteCopes ask.
LEMMA HeapGives == Heap => NothingLost /\ DeleteCopes
<1> SUFFICES ASSUME Heap  PROVE  NothingLost /\ DeleteCopes
  OBVIOUS
<1> DEFINE m == MainChain
           r == RunChain
<1>1. /\ ListsOK(list, m, r, PoolChain) /\ MarksOK(list, m, r, PoolChain, held)
      /\ m \in Seq(Tasks) /\ r \in Seq(Tasks) /\ Once(m) /\ Once(r)
      /\ Elems(m) \cap Elems(PoolChain) = {} /\ Elems(r) \cap Elems(PoolChain) = {}
      /\ Elems(PoolChain) \subseteq Tasks
  BY ShapeTypes DEF Heap, Shape
<1>2. Cardinality(Elems(m) \cup Elems(r)) = Len(m) + Len(r)
  <2>1. /\ IsFiniteSet(Elems(m)) /\ Cardinality(Elems(m)) = Len(m) /\ Len(m) \in Nat
        /\ IsFiniteSet(Elems(r)) /\ Cardinality(Elems(r)) = Len(r) /\ Len(r) \in Nat
    BY <1>1, CountOnce
  <2>2. Elems(m) \cap Elems(r) = {} /\ Cardinality({}) = 0
    BY <1>1, FS_EmptySet DEF MarksOK
  <2>3. Cardinality(Elems(m) \cup Elems(r))
          = Cardinality(Elems(m)) + Cardinality(Elems(r)) - Cardinality(Elems(m) \cap Elems(r))
    BY <2>1, FS_Union
  <2>4. Cardinality(Elems(m) \cup Elems(r)) = Len(m) + Len(r) - 0
    BY <2>1, <2>2, <2>3
  <2> QED
    BY <2>1, <2>4
<1>3. list.tail = IF m = <<>> THEN NULL ELSE m[Len(m)]
  <2>1. list.tail = At(m, Len(m)) /\ Len(m) \in Nat /\ DOMAIN m = 1 .. Len(m)
    BY <1>1 DEF ListsOK
  <2>2. m = <<>> <=> Len(m) = 0
    BY <1>1, EndsOfSeq
  <2>3. Len(m) \in DOMAIN m <=> Len(m) # 0
    BY <2>1
  <2> QED
    BY <2>1, <2>2, <2>3 DEF At
<1>4. \A i \in 1 .. Len(m) : list.prev[m[i]] = IF i = 1 THEN NULL ELSE m[i - 1]
  <2> SUFFICES ASSUME NEW i \in 1 .. Len(m)  PROVE  list.prev[m[i]] = IF i = 1 THEN NULL ELSE m[i - 1]
    OBVIOUS
  <2>1. Len(m) \in Nat /\ DOMAIN m = 1 .. Len(m) /\ i \in DOMAIN m
    BY <1>1
  <2>2. list.prev[m[i]] = At(m, i - 1)
    BY <1>1, <2>1 DEF ListsOK, IsBack
  <2>3. i - 1 \in DOMAIN m <=> i # 1
    BY <2>1
  <2> QED
    BY <2>2, <2>3 DEF At
<1>5. /\ \A t \in Tasks : list.linked[t] <=> t \in Elems(m) \cup Elems(r)
      /\ list.insertHint # NULL => list.insertHint \in Elems(m)
  BY <1>1 DEF MarksOK
<1>6. NothingLost
  BY <1>2, <1>3, <1>4, <1>5 DEF NothingLost
<1>7. DeleteCopes
  BY <1>1 DEF MarksOK, DeleteCopes
<1> QED
  BY <1>6, <1>7

\* The shape of the heap and the line's own invariant hold throughout.
THEOREM SchedInv ==
    ASSUME RetireBatched = FALSE
    PROVE  Spec => []SInv
<1>1. SInv /\ [Next]_vars => SInv'
  BY SchedStep, QueueInv DEF SInv
<1> QED
  BY <1>1, SchedInit, PTL DEF Spec

\* The types, of every entry and pointer; no client holds a freed entry.
THEOREM SchedTypes ==
    ASSUME RetireBatched = FALSE
    PROVE  Spec => []TypeOK
<1>1. SInv => TypeOK
  BY InvFacts DEF SInv, Heap, Shape, MarksOK, TypeOK
<1> QED
  BY <1>1, SchedInv, PTL

\* For any number of tasks, and clients that arm, retire, recycle and free them
\* in any order: no armed task is ever lost or reachable twice, and the insertion
\* hint stays in the main list (sched.c, AddTaskDelay, RemoveTaskFromList,
\* ActivateTimedTasks, ExecTasks).
THEOREM NothingLostThm ==
    ASSUME RetireBatched = FALSE
    PROVE  Spec => []NothingLost
<1>1. SInv => NothingLost
  BY HeapGives DEF SInv
<1> QED
  BY <1>1, SchedInv, PTL

\* No walk reaches a freed entry, deleted from the main list, from the freelist
\* or while on no list, and the freelist is what nobody owns; for clients that do
\* not delete what is in runnow (sched.c, GetTask, RemoveTask, DeleteTask).
THEOREM DeleteCopesThm ==
    ASSUME RetireBatched = FALSE
    PROVE  Spec => []DeleteCopes
<1>1. SInv => DeleteCopes
  BY HeapGives DEF SInv
<1> QED
  BY <1>1, SchedInv, PTL

\* A step of the line as TaskQueueProofs sees it is one of the line that Sched
\* names: the same definitions, instantiated twice.
LEMMA SameLine == LP!Init => LineOf!Init
  BY DEF LP!Init, LineOf!Init

LEMMA SameStep == [LP!Next]_(LP!vars) => [LineOf!Next]_(LineOf!vars)
<1>1. ASSUME NEW t, NEW d, LP!Arm(t, d)  PROVE  LineOf!Arm(t, d)
  BY <1>1, Zenon DEF LP!Arm, LineOf!Arm, LP!ClientTurn, LineOf!ClientTurn, LP!Members, LineOf!Members,
     LP!Line, LineOf!Line, LP!InsertAfter, LineOf!InsertAfter, LP!DueAt, LineOf!DueAt,
     LP!NotAfter, LineOf!NotAfter
<1>2. ASSUME NEW t, LP!Drop(t)  PROVE  LineOf!Drop(t)
  BY <1>2, Zenon DEF LP!Drop, LineOf!Drop, LP!ClientTurn, LineOf!ClientTurn, LP!RemoveNth, LineOf!RemoveNth
<1>3. ASSUME NEW n, LP!Tick(n)  PROVE  LineOf!Tick(n)
  BY <1>3, Zenon DEF LP!Tick, LineOf!Tick, LP!Members, LineOf!Members,
     LP!ClockOffset, LineOf!ClockOffset, LP!Shift, LineOf!Shift
<1>4. LP!Collect => LineOf!Collect
  BY Zenon DEF LP!Collect, LineOf!Collect, LP!NotAfter, LineOf!NotAfter
<1>5. LP!Collected => LineOf!Collected
  BY Zenon DEF LP!Collected, LineOf!Collected, LP!NotAfter, LineOf!NotAfter
<1>6. LP!Run => LineOf!Run
  BY Zenon DEF LP!Run, LineOf!Run
<1>7. (LP!EnterLoop => LineOf!EnterLoop) /\ (LP!Return => LineOf!Return) /\ (LP!Sleep => LineOf!Sleep)
  BY Zenon DEF LP!EnterLoop, LineOf!EnterLoop, LP!Return, LineOf!Return, LP!Sleep, LineOf!Sleep
<1>8. UNCHANGED LP!vars => UNCHANGED LineOf!vars
  BY Zenon DEF LP!vars, LineOf!vars
<1> QED
  BY <1>1, <1>2, <1>3, <1>4, <1>5, <1>6, <1>7, <1>8 DEF LP!Next, LineOf!Next

\* The linked lists, the insertion hint and the freelist do to the pending tasks
\* exactly what the time-ordered line of TaskQueue promises, so that all that is
\* proved of TaskQueue holds of them (sched.c, the whole of the tick).
THEOREM PointersImplementLine ==
    ASSUME RetireBatched = FALSE
    PROVE  Spec => ImplementsTaskQueue
<1>1. Init => LineOf!Init
  BY SchedInit, SameLine
<1>2. SInv /\ [Next]_vars => [LineOf!Next]_(LineOf!vars)
  BY SchedStep, SameStep
<1> QED
  BY <1>1, <1>2, SchedInv, PTL DEF Spec, ImplementsTaskQueue, LineOf!Spec
==============================================================================
