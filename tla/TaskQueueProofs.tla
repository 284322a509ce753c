--------------------------- MODULE TaskQueueProofs ---------------------------
(***************************************************************************)
(* TaskQueue proved for every set of tasks, delays and clock readings: the *)
(* line stays sorted and duplicate free, no due task is left behind by a   *)
(* tick, nothing joins a batch once it runs, and first come is first       *)
(* served.                                                                 *)
(***************************************************************************)
EXTENDS TaskQueue, TLAPS

-----------------------------------------------------------------------------
(* The sequence operators of the model *)

\* The old place of what stands at place i after an insertion behind place k.
Source(i, k) == IF i <= k THEN i ELSE i - 1

\* r is s with t behind place k: every place but the new one holds an old entry,
\* and the old entries keep their order.
IsInsertion(r, s, k, t) ==
    /\ DOMAIN r = 1 .. Len(s) + 1
    /\ k + 1 \in DOMAIN r /\ r[k + 1] = t
    /\ \A i \in DOMAIN r : i # k + 1 =>
          /\ Source(i, k) \in DOMAIN s
          /\ r[i] = s[Source(i, k)]
          /\ i < k + 1 <=> Source(i, k) <= k
    /\ \A i, j \in DOMAIN r :
          i # k + 1 /\ j # k + 1 => (i < j <=> Source(i, k) < Source(j, k))

\* InsertAfter is an insertion and gives a sequence.
LEMMA InsertSource ==
    ASSUME NEW S, NEW s \in Seq(S), NEW k \in 0 .. Len(s), NEW t \in S
    PROVE  /\ InsertAfter(s, k, t) \in Seq(S)
           /\ IsInsertion(InsertAfter(s, k, t), s, k, t)
  <1> DEFINE r == InsertAfter(s, k, t)
  <1>a. r \in [1 .. Len(s) + 1 -> S]
    BY DEF InsertAfter
  <1>b. r \in Seq(S) /\ Len(s) + 1 \in Nat
    BY <1>a
  <1>c. Len(r) = Len(s) + 1
    BY <1>a, <1>b
  <1>1. /\ r \in Seq(S) /\ Len(r) = Len(s) + 1 /\ DOMAIN r = 1 .. Len(s) + 1
        /\ \A i \in 1 .. Len(s) + 1 : r[i] =
             IF i <= k THEN s[i] ELSE IF i = k + 1 THEN t ELSE s[i - 1]
    BY <1>b, <1>c DEF InsertAfter
  <1>2. Len(s) \in Nat /\ DOMAIN s = 1 .. Len(s) /\ k \in Nat /\ k <= Len(s)
    OBVIOUS
  <1>3. k + 1 \in DOMAIN r /\ r[k + 1] = t
    BY <1>1, <1>2
  <1>4. ASSUME NEW i \in DOMAIN r, i # k + 1
        PROVE  Source(i, k) \in DOMAIN s /\ r[i] = s[Source(i, k)]
               /\ (i < k + 1 <=> Source(i, k) <= k)
    <2>1. CASE i <= k
      BY <2>1, <1>1, <1>2 DEF Source
    <2>2. CASE i > k + 1
      BY <2>2, <1>1, <1>2 DEF Source
    <2> QED
      BY <2>1, <2>2, <1>4, <1>1, <1>2
  <1>5. ASSUME NEW i \in DOMAIN r, NEW j \in DOMAIN r, i # k + 1, j # k + 1
        PROVE  i < j <=> Source(i, k) < Source(j, k)
    BY <1>5, <1>1, <1>2 DEF Source
  <1> QED
    BY <1>1, <1>3, <1>4, <1>5 DEF IsInsertion

\* The old place of what stands at place i after the removal of place k.
Survivor(i, k) == IF i < k THEN i ELSE i + 1

\* r is s without place k; the others keep their order.
IsRemoval(r, s, k) ==
    /\ DOMAIN r = 1 .. Len(s) - 1
    /\ \A i \in DOMAIN r :
          Survivor(i, k) \in DOMAIN s /\ Survivor(i, k) # k /\ r[i] = s[Survivor(i, k)]
    /\ \A i, j \in DOMAIN r : i < j <=> Survivor(i, k) < Survivor(j, k)
    /\ \A m \in DOMAIN s : m # k => \E i \in DOMAIN r : m = Survivor(i, k)

\* RemoveNth is a removal and gives a sequence.
LEMMA RemoveSource ==
    ASSUME NEW S, NEW s \in Seq(S), NEW k \in DOMAIN s
    PROVE  RemoveNth(s, k) \in Seq(S) /\ IsRemoval(RemoveNth(s, k), s, k)
  <1> DEFINE r == RemoveNth(s, k)
  <1>1. Len(s) \in Nat /\ DOMAIN s = 1 .. Len(s) /\ k \in Nat /\ Len(s) - 1 \in Nat
    OBVIOUS
  <1>2. r \in [1 .. Len(s) - 1 -> S]
    BY <1>1 DEF RemoveNth
  <1>3. r \in Seq(S) /\ DOMAIN r = 1 .. Len(s) - 1
    BY <1>1, <1>2
  <1>4. \A i \in 1 .. Len(s) - 1 : r[i] = IF i < k THEN s[i] ELSE s[i + 1]
    BY DEF RemoveNth
  <1>5. \A i \in DOMAIN r :
           Survivor(i, k) \in DOMAIN s /\ Survivor(i, k) # k /\ r[i] = s[Survivor(i, k)]
    BY <1>1, <1>3, <1>4 DEF Survivor
  <1>6. \A i, j \in DOMAIN r : i < j <=> Survivor(i, k) < Survivor(j, k)
    BY <1>1, <1>3 DEF Survivor
  <1>7. ASSUME NEW m \in DOMAIN s, m # k
        PROVE  \E i \in DOMAIN r : m = Survivor(i, k)
    <2> DEFINE i == IF m < k THEN m ELSE m - 1
    <2>1. i \in DOMAIN r /\ m = Survivor(i, k)
      BY <1>1, <1>3, <1>7 DEF Survivor
    <2> QED
      BY <2>1
  <1> HIDE DEF r
  <1>8. IsRemoval(r, s, k)
    BY <1>3, <1>5, <1>6, <1>7 DEF IsRemoval
  <1> QED
    BY <1>3, <1>8 DEF r

\* Tail removes the first place.
LEMMA TailSource ==
    ASSUME NEW S, NEW s \in Seq(S), s # <<>>
    PROVE  Tail(s) \in Seq(S) /\ IsRemoval(Tail(s), s, 1) /\ Head(s) = s[1] /\ 1 \in DOMAIN s
  <1>1. Len(s) \in Nat /\ DOMAIN s = 1 .. Len(s) /\ Len(s) >= 1 /\ Len(s) - 1 \in Nat
    OBVIOUS
  <1>2. Tail(s) \in Seq(S) /\ DOMAIN Tail(s) = 1 .. Len(s) - 1 /\ Head(s) = s[1]
    BY <1>1
  <1>3. \A i \in DOMAIN Tail(s) : Tail(s)[i] = s[i + 1] /\ Survivor(i, 1) = i + 1
    BY <1>1, <1>2 DEF Survivor
  <1>4. ASSUME NEW m \in DOMAIN s, m # 1
        PROVE  \E i \in DOMAIN Tail(s) : m = Survivor(i, 1)
    <2>1. m - 1 \in DOMAIN Tail(s) /\ m = Survivor(m - 1, 1)
      BY <1>1, <1>2, <1>4 DEF Survivor
    <2> QED
      BY <2>1
  <1> QED
    BY <1>1, <1>2, <1>3, <1>4 DEF IsRemoval

\* Two sequences in a row are duplicate free when each is and they share nothing.
LEMMA DistinctConcat ==
    ASSUME NEW S, NEW a \in Seq(S), NEW b \in Seq(S)
    PROVE  Distinct(a \o b) <=>
             /\ Distinct(a) /\ Distinct(b)
             /\ \A i \in DOMAIN a, j \in DOMAIN b : a[i] # b[j]
  <1> DEFINE c == a \o b
  <1>1. /\ c \in Seq(S) /\ Len(c) = Len(a) + Len(b)
        /\ \A i \in 1 .. Len(a) : c[i] = a[i]
        /\ \A i \in 1 .. Len(b) : c[Len(a) + i] = b[i]
        /\ \A i \in 1 .. Len(c) : i > Len(a) => c[i] = b[i - Len(a)]
    OBVIOUS
  <1>2. ASSUME Distinct(c)
        PROVE  /\ Distinct(a) /\ Distinct(b)
               /\ \A i \in DOMAIN a, j \in DOMAIN b : a[i] # b[j]
    <2>1. Distinct(a)
      BY <1>1, <1>2 DEF Distinct
    <2>2. ASSUME NEW i \in DOMAIN b, NEW j \in DOMAIN b, b[i] = b[j]  PROVE  i = j
      <3>1. Len(a) + i \in DOMAIN c /\ Len(a) + j \in DOMAIN c
        BY <1>1
      <3>2. c[Len(a) + i] = c[Len(a) + j]
        BY <1>1, <2>2
      <3> QED
        BY <3>1, <3>2, <1>2 DEF Distinct
    <2>3. ASSUME NEW i \in DOMAIN a, NEW j \in DOMAIN b, a[i] = b[j]  PROVE  FALSE
      <3>1. i \in DOMAIN c /\ Len(a) + j \in DOMAIN c
        BY <1>1
      <3>2. c[i] = c[Len(a) + j]
        BY <1>1, <2>3
      <3>3. i = Len(a) + j
        BY <3>1, <3>2, <1>2 DEF Distinct
      <3> QED
        BY <3>3
    <2> QED
      BY <2>1, <2>2, <2>3 DEF Distinct
  <1>3. ASSUME Distinct(a), Distinct(b), \A i \in DOMAIN a, j \in DOMAIN b : a[i] # b[j]
        PROVE  Distinct(c)
    <2> SUFFICES ASSUME NEW i \in DOMAIN c, NEW j \in DOMAIN c, c[i] = c[j]
                 PROVE  i = j
      BY DEF Distinct
    <2>1. CASE i <= Len(a) /\ j <= Len(a)
      BY <2>1, <1>1, <1>3 DEF Distinct
    <2>2. CASE i > Len(a) /\ j > Len(a)
      <3>1. i - Len(a) \in DOMAIN b /\ j - Len(a) \in DOMAIN b
        BY <2>2, <1>1
      <3>2. b[i - Len(a)] = b[j - Len(a)]
        BY <2>2, <1>1
      <3>3. i - Len(a) = j - Len(a)
        BY <3>1, <3>2, <1>3 DEF Distinct
      <3> QED
        BY <3>3, <1>1
    <2>3. CASE i <= Len(a) /\ j > Len(a)
      <3>1. i \in DOMAIN a /\ j - Len(a) \in DOMAIN b
        BY <2>3, <1>1
      <3> QED
        BY <2>3, <3>1, <1>1, <1>3
    <2>4. CASE i > Len(a) /\ j <= Len(a)
      <3>1. j \in DOMAIN a /\ i - Len(a) \in DOMAIN b
        BY <2>4, <1>1
      <3> QED
        BY <2>4, <3>1, <1>1, <1>3
    <2> QED
      BY <2>1, <2>2, <2>3, <2>4, <1>1
  <1> QED
    BY <1>2, <1>3

-----------------------------------------------------------------------------
(* The inductive invariant *)

\* A pending task is never overdue by a whole second when the clock is read, so
\* that moving due times back with the clock cannot take them below zero.
NotOverdue ==
    phase \in {"boot", "idle", "run", "call"} =>
        \A i \in DOMAIN queue : due[queue[i]][1] >= now[1]

\* LineOK with the two halves of the line named apart.
HalvesOK ==
    /\ Distinct(queue) /\ Distinct(batch)
    /\ \A i \in DOMAIN batch, j \in DOMAIN queue : batch[i] # queue[j]
    /\ Sorted

IInv == TypeOK /\ HalvesOK /\ NotOverdue

\* Main list and batch in order and disjoint, taken apart, is LineOK.
LEMMA HalvesLine == TypeOK => (HalvesOK <=> LineOK)
  BY DistinctConcat DEF TypeOK, HalvesOK, LineOK, Line

\* A due time AddTaskDelay computes is a due time, not before the clock's second.
LEMMA DueAtType ==
    ASSUME NEW c \in Clock, NEW d \in Delays
    PROVE  DueAt(c, d) \in DueTime /\ DueAt(c, d)[1] >= c[1]
  <1> c \in Nat \X (0 .. MicrosPerSec - 1) /\ d \in Nat \X (0 .. MicrosPerSec - 1)
    BY QueueAssumption DEF Reading
  <1>1. PICK cs \in Nat, cm \in 0 .. MicrosPerSec - 1 : c = <<cs, cm>>
    OBVIOUS
  <1>2. PICK ds \in Nat, dm \in 0 .. MicrosPerSec - 1 : d = <<ds, dm>>
    OBVIOUS
  <1> QED
    BY <1>1, <1>2, MicrosAssumption DEF DueAt, DueTime

\* The order on due times is total and transitive.
LEMMA Order ==
    ASSUME NEW a \in DueTime, NEW b \in DueTime, NEW c \in DueTime
    PROVE  /\ NotAfter(a, b) /\ NotAfter(b, c) => NotAfter(a, c)
           /\ NotAfter(a, b) \/ NotAfter(b, a)
  BY MicrosAssumption DEF NotAfter, DueTime

\* Clock readings compare with due times like due times.
LEMMA ClockIsDueTime == Clock \subseteq DueTime
  BY QueueAssumption, MicrosAssumption DEF Reading, DueTime

\* The empty line satisfies the inductive invariant.
LEMMA InitInv == Init => IInv
  BY MicrosAssumption, QueueAssumption
  DEF Init, IInv, TypeOK, HalvesOK, Distinct, Sorted, NotOverdue, DueTime, Phases

\* Arming keeps the invariant: the place found for a task is behind every task
\* due no later and before every task due later.
LEMMA ArmInv ==
    ASSUME IInv, NEW t \in Tasks, NEW d \in Delays, Arm(t, d)
    PROVE  IInv'
  <1> USE DEF IInv
  <1> DEFINE w == DueAt(now, d)
  <1>1. PICK k \in 0 .. Len(queue) :
          /\ \A i \in 1 .. k : NotAfter(due[queue[i]], w)
          /\ \A i \in k + 1 .. Len(queue) : ~NotAfter(due[queue[i]], w)
          /\ queue' = InsertAfter(queue, k, t)
          /\ due' = [due EXCEPT ![t] = w]
    BY DEF Arm
  <1>2. w \in DueTime /\ w[1] >= now[1]
    BY DueAtType DEF TypeOK
  <1>3. queue' \in Seq(Tasks) /\ IsInsertion(queue', queue, k, t)
    BY <1>1, InsertSource DEF TypeOK
  <1>4. /\ batch' = batch /\ now' = now /\ phase' = phase /\ cur' = cur
        /\ phase \in {"boot", "call"}
    BY DEF Arm, ClientTurn
  <1>5. /\ \A i \in DOMAIN queue : queue[i] # t
        /\ \A i \in DOMAIN batch : batch[i] # t
    <2>1. t \notin Members(batch \o queue) /\ batch \in Seq(Tasks) /\ queue \in Seq(Tasks)
      BY DEF Arm, Line, TypeOK
    <2>2. \A i \in DOMAIN (batch \o queue) : (batch \o queue)[i] # t
      BY <2>1 DEF Members
    <2>3. \A i \in DOMAIN batch : i \in DOMAIN (batch \o queue) /\ (batch \o queue)[i] = batch[i]
      BY <2>1
    <2>4. \A i \in DOMAIN queue : /\ Len(batch) + i \in DOMAIN (batch \o queue)
                                  /\ (batch \o queue)[Len(batch) + i] = queue[i]
      BY <2>1
    <2> QED
      BY <2>2, <2>3, <2>4
  <1>6. TypeOK'
    BY <1>1, <1>2, <1>3, <1>4 DEF TypeOK
  <1>7. \A i \in DOMAIN queue : due'[queue[i]] = due[queue[i]]
    BY <1>1, <1>5 DEF TypeOK
  <1>8. due'[t] = w
    BY <1>1 DEF TypeOK
  <1> DEFINE src(i) == Source(i, k)
  <1>s. /\ DOMAIN queue' = 1 .. Len(queue) + 1
        /\ k + 1 \in DOMAIN queue' /\ queue'[k + 1] = t
        /\ \A i \in DOMAIN queue' : i # k + 1 =>
              /\ src(i) \in DOMAIN queue
              /\ queue'[i] = queue[src(i)]
              /\ i < k + 1 <=> src(i) <= k
        /\ \A i, j \in DOMAIN queue' :
              i # k + 1 /\ j # k + 1 => (i < j <=> src(i) < src(j))
    BY <1>3 DEF IsInsertion
  <1>t. Len(queue) \in Nat /\ DOMAIN queue = 1 .. Len(queue) /\ k \in Nat
    BY DEF TypeOK
  <1> HIDE DEF src
  <1>9. Distinct(queue')
    <2> SUFFICES ASSUME NEW i \in DOMAIN queue', NEW j \in DOMAIN queue',
                        queue'[i] = queue'[j]
                 PROVE  i = j
      BY DEF Distinct
    <2>1. CASE i # k + 1 /\ j # k + 1
      <3>1. src(i) = src(j)
        BY <2>1, <1>s DEF HalvesOK, Distinct
      <3>2. ~(i < j) /\ ~(j < i)
        BY <2>1, <3>1, <1>s, <1>t
      <3> QED
        BY <3>2, <1>s, <1>t
    <2> QED
      BY <2>1, <1>s, <1>5
  <1>10. \A i \in DOMAIN batch, j \in DOMAIN queue' : batch[i] # queue'[j]
    BY <1>s, <1>5 DEF HalvesOK
  <1>11. Sorted'
    <2> SUFFICES ASSUME NEW i \in DOMAIN queue', NEW j \in DOMAIN queue', i < j
                 PROVE  NotAfter(due'[queue'[i]], due'[queue'[j]])
      BY DEF Sorted
    <2>1. \A m \in DOMAIN queue : due[queue[m]] \in DueTime
      BY DEF TypeOK
    <2>2. \A m \in DOMAIN queue, n \in DOMAIN queue :
             m < n => NotAfter(due[queue[m]], due[queue[n]])
      BY DEF HalvesOK, Sorted
    <2>3. CASE j = k + 1
      <3>1. src(i) \in 1 .. k /\ queue'[i] = queue[src(i)] /\ src(i) \in DOMAIN queue
        BY <2>3, <1>s, <1>t
      <3> QED
        BY <2>3, <3>1, <1>1, <1>s, <1>7, <1>8
    <2>4. CASE i = k + 1
      <3>1. src(j) \in k + 1 .. Len(queue) /\ queue'[j] = queue[src(j)]
            /\ src(j) \in DOMAIN queue
        BY <2>4, <1>s, <1>t
      <3>2. ~NotAfter(due[queue[src(j)]], w)
        BY <3>1, <1>1
      <3>3. NotAfter(w, due[queue[src(j)]])
        BY <3>1, <3>2, <1>2, <2>1, Order
      <3> QED
        BY <2>4, <3>1, <3>3, <1>7, <1>8, <1>s
    <2>5. CASE i # k + 1 /\ j # k + 1
      BY <2>5, <2>2, <1>s, <1>7
    <2> QED
      BY <2>3, <2>4, <2>5
  <1>12. NotOverdue'
    <2>1. \A m \in DOMAIN queue : due[queue[m]][1] >= now[1]
      BY <1>4 DEF NotOverdue
    <2>2. ASSUME NEW i \in DOMAIN queue'  PROVE  due'[queue'[i]][1] >= now[1]
      <3>1. CASE i = k + 1
        BY <3>1, <1>s, <1>8, <1>2
      <3>2. CASE i # k + 1
        BY <3>2, <1>s, <1>7, <2>1
      <3> QED
        BY <3>1, <3>2
    <2> QED
      BY <2>2, <1>4 DEF NotOverdue
  <1> QED
    BY <1>4, <1>6, <1>9, <1>10, <1>11, <1>12 DEF HalvesOK

\* A removal from the main list keeps it distinct and sorted.
LEMMA RemovalKeeps ==
    ASSUME TypeOK, HalvesOK, NEW k \in DOMAIN queue, IsRemoval(queue', queue, k), due' = due
    PROVE  /\ Distinct(queue') /\ Sorted'
           /\ \A i \in DOMAIN queue' : \E j \in DOMAIN queue : j # k /\ queue'[i] = queue[j]
  <1> DEFINE src(i) == Survivor(i, k)
  <1>1. /\ \A i \in DOMAIN queue' : src(i) \in DOMAIN queue /\ src(i) # k
                                  /\ queue'[i] = queue[src(i)]
        /\ \A i, j \in DOMAIN queue' : i < j <=> src(i) < src(j)
        /\ DOMAIN queue' = 1 .. Len(queue) - 1 /\ Len(queue) \in Nat
        /\ DOMAIN queue = 1 .. Len(queue)
    BY DEF IsRemoval, TypeOK
  <1> HIDE DEF src
  <1>2. Sorted'
    BY <1>1 DEF Sorted, HalvesOK
  <1>3. ASSUME NEW i \in DOMAIN queue', NEW j \in DOMAIN queue', queue'[i] = queue'[j]
        PROVE  i = j
    <2>1. src(i) = src(j)
      BY <1>1, <1>3 DEF HalvesOK, Distinct
    <2>2. ~(i < j) /\ ~(j < i)
      BY <2>1, <1>1
    <2> QED
      BY <2>2, <1>1
  <1> QED
    BY <1>1, <1>2, <1>3 DEF Distinct

\* A removal from the batch keeps it distinct.
LEMMA BatchRemovalKeeps ==
    ASSUME TypeOK, HalvesOK, NEW k \in DOMAIN batch, IsRemoval(batch', batch, k)
    PROVE  /\ Distinct(batch')
           /\ \A i \in DOMAIN batch' : \E j \in DOMAIN batch : j # k /\ batch'[i] = batch[j]
  <1> DEFINE src(i) == Survivor(i, k)
  <1>1. /\ \A i \in DOMAIN batch' : src(i) \in DOMAIN batch /\ src(i) # k
                                  /\ batch'[i] = batch[src(i)]
        /\ \A i, j \in DOMAIN batch' : i < j <=> src(i) < src(j)
        /\ DOMAIN batch' = 1 .. Len(batch) - 1 /\ Len(batch) \in Nat
        /\ DOMAIN batch = 1 .. Len(batch)
    BY DEF IsRemoval, TypeOK
  <1> HIDE DEF src
  <1>3. ASSUME NEW i \in DOMAIN batch', NEW j \in DOMAIN batch', batch'[i] = batch'[j]
        PROVE  i = j
    <2>1. src(i) = src(j)
      BY <1>1, <1>3 DEF HalvesOK, Distinct
    <2>2. ~(i < j) /\ ~(j < i)
      BY <2>1, <1>1
    <2> QED
      BY <2>2, <1>1
  <1> QED
    BY <1>1, <1>3 DEF Distinct

\* Taking a task out of the line, from either half, keeps the invariant.
LEMMA DropInv ==
    ASSUME IInv, NEW t \in Tasks, Drop(t)
    PROVE  IInv'
  <1> USE DEF IInv
  <1>1. due' = due /\ now' = now /\ phase' = phase /\ cur' = cur
    BY DEF Drop
  <1>2. ASSUME NEW k \in DOMAIN queue, queue' = RemoveNth(queue, k), batch' = batch
        PROVE  IInv'
    <2>1. queue' \in Seq(Tasks) /\ IsRemoval(queue', queue, k)
      BY <1>2, RemoveSource DEF TypeOK
    <2>2. /\ Distinct(queue') /\ Sorted'
          /\ \A i \in DOMAIN queue' : \E j \in DOMAIN queue : j # k /\ queue'[i] = queue[j]
      BY <1>1, <2>1, RemovalKeeps
    <2>3. TypeOK'
      BY <1>1, <1>2, <2>1 DEF TypeOK
    <2>4. HalvesOK'
      BY <1>2, <2>2 DEF HalvesOK
    <2>5. NotOverdue'
      BY <1>1, <2>2 DEF NotOverdue
    <2> QED
      BY <2>3, <2>4, <2>5
  <1>3. ASSUME NEW k \in DOMAIN batch, batch' = RemoveNth(batch, k), queue' = queue
        PROVE  IInv'
    <2>1. batch' \in Seq(Tasks) /\ IsRemoval(batch', batch, k)
      BY <1>3, RemoveSource DEF TypeOK
    <2>2. /\ Distinct(batch')
          /\ \A i \in DOMAIN batch' : \E j \in DOMAIN batch : j # k /\ batch'[i] = batch[j]
      BY <2>1, BatchRemovalKeeps
    <2>3. TypeOK'
      BY <1>1, <1>3, <2>1 DEF TypeOK
    <2>4. HalvesOK'
      BY <1>1, <1>3, <2>2 DEF HalvesOK, Sorted
    <2>5. NotOverdue'
      BY <1>1, <1>3 DEF NotOverdue
    <2> QED
      BY <2>3, <2>4, <2>5
  <1> QED
    BY <1>2, <1>3 DEF Drop

\* Moving every due time of the main list by the same offset keeps their order.
LEMMA ShiftOrder ==
    ASSUME NEW a \in DueTime, NEW b \in DueTime, NEW k \in Int
    PROVE  NotAfter(Shift(a, k), Shift(b, k)) <=> NotAfter(a, b)
  BY MicrosAssumption DEF NotAfter, Shift, DueTime

\* Reading the clock keeps the invariant, a step backwards or a jump included:
\* every waiting due time moves with it.
LEMMA TickInv ==
    ASSUME IInv, NEW n \in Clock, Tick(n)
    PROVE  IInv'
  <1> USE DEF IInv
  <1> DEFINE off == ClockOffset(now, n)
  <1>1. /\ queue' = queue /\ batch' = batch /\ cur' = cur /\ now' = n
        /\ phase = "idle" /\ phase' = "collect"
        /\ due' = [t \in Tasks |-> IF t \in Members(queue) THEN Shift(due[t], off) ELSE due[t]]
    BY DEF Tick
  <1>2. now[1] \in Nat /\ n[1] \in Nat /\ off \in Int
        /\ (off = 0 \/ off = n[1] - now[1])
    BY QueueAssumption DEF TypeOK, Reading, ClockOffset
  <1> HIDE DEF off
  <1>3. \A i \in DOMAIN queue :
           queue[i] \in Tasks /\ queue[i] \in Members(queue) /\ due[queue[i]][1] >= now[1]
    BY <1>1 DEF TypeOK, Members, NotOverdue
  <1>4. ASSUME NEW t \in Tasks  PROVE  due'[t] \in DueTime
    <2>1. CASE t \in Members(queue)
      <3>1. due'[t] = Shift(due[t], off) /\ due[t] \in DueTime
        BY <1>1, <2>1 DEF TypeOK
      <3>2. due[t][1] >= now[1]
        BY <1>3, <2>1 DEF Members
      <3> QED
        BY <1>2, <3>1, <3>2 DEF Shift, DueTime
    <2>2. CASE t \notin Members(queue)
      BY <1>1, <2>2 DEF TypeOK
    <2> QED
      BY <2>1, <2>2
  <1>5. TypeOK'
    BY <1>1, <1>4 DEF TypeOK, Phases
  <1>6. Sorted'
    <2> SUFFICES ASSUME NEW i \in DOMAIN queue, NEW j \in DOMAIN queue, i < j
                 PROVE  NotAfter(due'[queue[i]], due'[queue[j]])
      BY <1>1 DEF Sorted
    <2>1. due'[queue[i]] = Shift(due[queue[i]], off) /\ due'[queue[j]] = Shift(due[queue[j]], off)
      BY <1>1, <1>3
    <2>2. NotAfter(due[queue[i]], due[queue[j]])
      BY DEF HalvesOK, Sorted
    <2> QED
      BY <1>2, <1>3, <2>1, <2>2, ShiftOrder DEF TypeOK
  <1> QED
    BY <1>1, <1>5, <1>6 DEF HalvesOK, NotOverdue

\* Moving the head of the main list to the batch keeps the invariant.
LEMMA CollectInv ==
    ASSUME IInv, Collect
    PROVE  IInv'
  <1> USE DEF IInv
  <1>1. /\ due' = due /\ now' = now /\ phase' = phase /\ cur' = cur /\ phase = "collect"
        /\ queue # <<>> /\ queue' = Tail(queue) /\ batch' = Append(batch, Head(queue))
    BY DEF Collect
  <1>2. /\ queue' \in Seq(Tasks) /\ IsRemoval(queue', queue, 1)
        /\ Head(queue) = queue[1] /\ 1 \in DOMAIN queue
    BY <1>1, TailSource DEF TypeOK
  <1>3. /\ Distinct(queue') /\ Sorted'
        /\ \A i \in DOMAIN queue' : \E j \in DOMAIN queue : j # 1 /\ queue'[i] = queue[j]
    BY <1>1, <1>2, RemovalKeeps
  <1>4. /\ batch' \in Seq(Tasks) /\ Len(batch) \in Nat
        /\ DOMAIN batch = 1 .. Len(batch) /\ DOMAIN batch' = 1 .. Len(batch) + 1
        /\ \A i \in DOMAIN batch : batch'[i] = batch[i]
        /\ batch'[Len(batch) + 1] = queue[1]
    BY <1>1, <1>2 DEF TypeOK
  <1>5. \A i \in DOMAIN batch' : i \in DOMAIN batch \/ i = Len(batch) + 1
    BY <1>4
  <1>6. TypeOK'
    BY <1>1, <1>2, <1>4 DEF TypeOK
  <1>7. Distinct(batch')
    BY <1>2, <1>4, <1>5 DEF HalvesOK, Distinct
  <1>8. \A i \in DOMAIN batch', j \in DOMAIN queue' : batch'[i] # queue'[j]
    BY <1>2, <1>3, <1>4, <1>5 DEF HalvesOK, Distinct
  <1> QED
    BY <1>1, <1>3, <1>6, <1>7, <1>8 DEF HalvesOK, NotOverdue

\* When the head of a sorted main list is not due, nothing in it is.
LEMMA HeadDecides ==
    ASSUME IInv, Collected
    PROVE  \A i \in DOMAIN queue : ~NotAfter(due[queue[i]], now)
  <1> USE DEF IInv
  <1> SUFFICES ASSUME NEW i \in DOMAIN queue, NotAfter(due[queue[i]], now)
               PROVE  FALSE
    OBVIOUS
  <1>1. queue # <<>> /\ 1 \in DOMAIN queue /\ Head(queue) = queue[1] /\ i >= 1 /\ i \in Nat
    BY DEF TypeOK
  <1>2. ~NotAfter(due[queue[1]], now)
    BY <1>1 DEF Collected
  <1>3. due[queue[1]] \in DueTime /\ due[queue[i]] \in DueTime /\ now \in DueTime
    BY <1>1, ClockIsDueTime DEF TypeOK
  <1>4. i = 1 \/ NotAfter(due[queue[1]], due[queue[i]])
    BY <1>1 DEF HalvesOK, Sorted
  <1> QED
    BY <1>2, <1>3, <1>4, Order

\* The end of the collection keeps the invariant: what is left is not due, so
\* none of it lies before the clock's second.
LEMMA CollectedInv ==
    ASSUME IInv, Collected
    PROVE  IInv'
  <1> USE DEF IInv
  <1>1. /\ queue' = queue /\ batch' = batch /\ due' = due /\ now' = now /\ cur' = cur
        /\ phase' \in {"stopped", "run"}
    BY DEF Collected
  <1>2. \A i \in DOMAIN queue : due[queue[i]][1] >= now[1]
    <2> SUFFICES ASSUME NEW i \in DOMAIN queue  PROVE  due[queue[i]][1] >= now[1]
      OBVIOUS
    <2>1. ~NotAfter(due[queue[i]], now)
      BY HeadDecides
    <2>2. due[queue[i]] \in DueTime /\ now \in DueTime
      BY ClockIsDueTime DEF TypeOK
    <2> QED
      BY <2>1, <2>2, MicrosAssumption DEF NotAfter, DueTime
  <1> QED
    BY <1>1, <1>2 DEF TypeOK, Phases, HalvesOK, Sorted, NotOverdue

\* Calling the head of the batch keeps the invariant.
LEMMA RunInv ==
    ASSUME IInv, Run
    PROVE  IInv'
  <1> USE DEF IInv
  <1>1. /\ due' = due /\ now' = now /\ queue' = queue /\ phase' = "call" /\ phase = "run"
        /\ batch # <<>> /\ batch' = Tail(batch) /\ cur' = Head(batch)
    BY DEF Run
  <1>2. /\ batch' \in Seq(Tasks) /\ IsRemoval(batch', batch, 1)
        /\ Head(batch) = batch[1] /\ 1 \in DOMAIN batch
    BY <1>1, TailSource DEF TypeOK
  <1>3. /\ Distinct(batch')
        /\ \A i \in DOMAIN batch' : \E j \in DOMAIN batch : j # 1 /\ batch'[i] = batch[j]
    BY <1>2, BatchRemovalKeeps
  <1>4. TypeOK'
    BY <1>1, <1>2 DEF TypeOK, Phases
  <1>5. HalvesOK'
    BY <1>1, <1>3 DEF HalvesOK, Sorted
  <1> QED
    BY <1>1, <1>4, <1>5 DEF NotOverdue

\* One step preserves the inductive invariant.
LEMMA NextInv == IInv /\ [Next]_vars => IInv'
  <1> SUFFICES ASSUME IInv, [Next]_vars  PROVE  IInv'
    OBVIOUS
  <1>1. ASSUME NEW t \in Tasks, NEW d \in Delays, Arm(t, d)  PROVE  IInv'
    BY <1>1, ArmInv
  <1>2. ASSUME NEW t \in Tasks, Drop(t)  PROVE  IInv'
    BY <1>2, DropInv
  <1>3. ASSUME NEW n \in Clock, Tick(n)  PROVE  IInv'
    BY <1>3, TickInv
  <1>4. CASE Collect
    BY <1>4, CollectInv
  <1>5. CASE Collected
    BY <1>5, CollectedInv
  <1>6. CASE Run
    BY <1>6, RunInv
  <1>7. CASE EnterLoop \/ Return \/ Sleep \/ UNCHANGED vars
    BY <1>7 DEF EnterLoop, Return, Sleep, vars, IInv, TypeOK, Phases, HalvesOK, Sorted, NotOverdue
  <1> QED
    BY <1>1, <1>2, <1>3, <1>4, <1>5, <1>6, <1>7 DEF Next

\* The inductive invariant holds throughout.
THEOREM Inductive == Spec => []IInv
  BY InitInv, NextInv, PTL DEF Spec

\* The scheduler's state is always well typed: in particular no clock step takes
\* a due time below zero, where the unsigned arithmetic of sched.c would wrap.
THEOREM TypeCorrect == Spec => []TypeOK
  <1>1. IInv => TypeOK
    BY DEF IInv
  <1> QED
    BY <1>1, Inductive, PTL

\* The line is duplicate free and the main list sorted, whatever tasks, delays
\* and clock steps there are.
THEOREM LineCorrect == Spec => []LineOK
  <1>1. IInv => LineOK
    BY HalvesLine DEF IInv
  <1> QED
    BY <1>1, Inductive, PTL

\* No tick leaves a due task behind.
THEOREM NoneLeftBehindThm == Spec => NoneLeftBehind
  <1>1. IInv /\ [Next]_vars => [NoneLeftBehindStep]_vars
    <2> SUFFICES ASSUME IInv, Next, phase = "collect", phase' # "collect"
                 PROVE  \A t \in Members(queue) : ~NotAfter(due[t], now)
      BY DEF NoneLeftBehindStep
    <2>1. Collected
      BY DEF Next, Arm, Drop, ClientTurn, EnterLoop, Tick, Collect, Run, Return, Sleep
    <2> QED
      BY <2>1, HeadDecides DEF Members
  <1> QED
    BY <1>1, Inductive, PTL DEF Spec, NoneLeftBehind

\* Nothing joins a batch that runs.
THEOREM BatchClosedThm == Spec => BatchClosed
  <1>1. IInv /\ [Next]_vars => [BatchClosedStep]_vars
    <2> SUFFICES ASSUME IInv, Next, phase \in {"run", "call"}
                 PROVE  Members(batch') \subseteq Members(batch)
      BY DEF BatchClosedStep
    <2>1. \/ batch' = batch
          \/ Run
          \/ \E k \in DOMAIN batch : batch' = RemoveNth(batch, k)
      BY DEF Next, Arm, Drop, EnterLoop, Tick, Collect, Collected, Return, Sleep
    <2>2. CASE Run
      <3>1. IsRemoval(batch', batch, 1)
        BY <2>2, TailSource DEF Run, IInv, TypeOK
      <3> QED
        BY <3>1 DEF IsRemoval, Members
    <2>3. ASSUME NEW k \in DOMAIN batch, batch' = RemoveNth(batch, k)
          PROVE  Members(batch') \subseteq Members(batch)
      <3>1. IsRemoval(batch', batch, k)
        BY <2>3, RemoveSource DEF IInv, TypeOK
      <3> QED
        BY <3>1 DEF IsRemoval, Members
    <2> QED
      BY <2>1, <2>2, <2>3
  <1> QED
    BY <1>1, Inductive, PTL DEF Spec, BatchClosed
-----------------------------------------------------------------------------
(* First come, first served *)

\* The members of two sequences in a row, and who stands before whom.
LEMMA ConcatAhead ==
    ASSUME NEW S, NEW s \in Seq(S), NEW r \in Seq(S)
    PROVE  /\ Members(s \o r) = Members(s) \cup Members(r)
           /\ \A a, b : Ahead(s \o r, a, b) <=>
                 Ahead(s, a, b) \/ Ahead(r, a, b) \/ (a \in Members(s) /\ b \in Members(r))
  <1> DEFINE c == s \o r
  <1>1. /\ c \in Seq(S) /\ Len(c) = Len(s) + Len(r) /\ Len(s) \in Nat /\ Len(r) \in Nat
        /\ DOMAIN s = 1 .. Len(s) /\ DOMAIN r = 1 .. Len(r) /\ DOMAIN c = 1 .. Len(s) + Len(r)
        /\ \A i \in 1 .. Len(s) : c[i] = s[i]
        /\ \A i \in 1 .. Len(r) : c[Len(s) + i] = r[i]
        /\ \A i \in 1 .. Len(s) + Len(r) : i > Len(s) => c[i] = r[i - Len(s)]
    OBVIOUS
  <1> HIDE DEF c
  <1>2. Members(c) = Members(s) \cup Members(r)
    <2>1. ASSUME NEW x \in Members(c)  PROVE  x \in Members(s) \cup Members(r)
      <3>1. PICK i \in DOMAIN c : c[i] = x
        BY DEF Members
      <3>2. CASE i <= Len(s)
        BY <3>1, <3>2, <1>1 DEF Members
      <3>3. CASE i > Len(s)
        <4>1. i - Len(s) \in DOMAIN r /\ r[i - Len(s)] = x
          BY <3>1, <3>3, <1>1
        <4> QED
          BY <4>1 DEF Members
      <3> QED
        BY <3>2, <3>3, <1>1
    <2>2. ASSUME NEW i \in DOMAIN s  PROVE  s[i] \in Members(c)
      BY <1>1 DEF Members
    <2>3. ASSUME NEW i \in DOMAIN r  PROVE  r[i] \in Members(c)
      <3>1. Len(s) + i \in DOMAIN c /\ c[Len(s) + i] = r[i]
        BY <1>1
      <3> QED
        BY <3>1 DEF Members
    <2> QED
      BY <2>1, <2>2, <2>3 DEF Members
  <1>3. ASSUME NEW a, NEW b, Ahead(c, a, b)
        PROVE  Ahead(s, a, b) \/ Ahead(r, a, b) \/ (a \in Members(s) /\ b \in Members(r))
    <2>1. PICK i \in DOMAIN c, j \in DOMAIN c : i < j /\ c[i] = a /\ c[j] = b
      BY <1>3 DEF Ahead
    <2>2. CASE j <= Len(s)
      <3>1. i \in DOMAIN s /\ j \in DOMAIN s /\ s[i] = a /\ s[j] = b
        BY <2>1, <2>2, <1>1
      <3> QED
        BY <2>1, <3>1 DEF Ahead
    <2>3. CASE i > Len(s)
      <3>1. /\ i - Len(s) \in DOMAIN r /\ j - Len(s) \in DOMAIN r /\ i - Len(s) < j - Len(s)
            /\ r[i - Len(s)] = a /\ r[j - Len(s)] = b
        BY <2>1, <2>3, <1>1
      <3> QED
        BY <3>1 DEF Ahead
    <2>4. CASE i <= Len(s) /\ j > Len(s)
      <3>1. i \in DOMAIN s /\ j - Len(s) \in DOMAIN r /\ s[i] = a /\ r[j - Len(s)] = b
        BY <2>1, <2>4, <1>1
      <3> QED
        BY <3>1 DEF Members
    <2> QED
      BY <2>1, <2>2, <2>3, <2>4, <1>1
  <1>4. ASSUME NEW a, NEW b, Ahead(s, a, b)  PROVE  Ahead(c, a, b)
    BY <1>4, <1>1 DEF Ahead
  <1>5. ASSUME NEW a, NEW b, Ahead(r, a, b)  PROVE  Ahead(c, a, b)
    <2>1. PICK i \in DOMAIN r, j \in DOMAIN r : i < j /\ r[i] = a /\ r[j] = b
      BY <1>5 DEF Ahead
    <2>2. /\ Len(s) + i \in DOMAIN c /\ Len(s) + j \in DOMAIN c /\ Len(s) + i < Len(s) + j
          /\ c[Len(s) + i] = a /\ c[Len(s) + j] = b
      BY <2>1, <1>1
    <2> QED
      BY <2>2 DEF Ahead
  <1>6. ASSUME NEW a \in Members(s), NEW b \in Members(r)  PROVE  Ahead(c, a, b)
    <2>1. PICK i \in DOMAIN s, j \in DOMAIN r : s[i] = a /\ r[j] = b
      BY DEF Members
    <2>2. /\ i \in DOMAIN c /\ Len(s) + j \in DOMAIN c /\ i < Len(s) + j
          /\ c[i] = a /\ c[Len(s) + j] = b
      BY <2>1, <1>1
    <2> QED
      BY <2>2 DEF Ahead
  <1>7. \A a, b : Ahead(c, a, b) <=>
                 Ahead(s, a, b) \/ Ahead(r, a, b) \/ (a \in Members(s) /\ b \in Members(r))
    BY <1>3, <1>4, <1>5, <1>6
  <1> QED
    BY <1>2, <1>7 DEF c

\* An insertion adds one member and lets none overtake another; the new one
\* stands behind what was at the first k places.
LEMMA InsertAhead ==
    ASSUME NEW S, NEW s \in Seq(S), NEW k \in 0 .. Len(s), NEW t, NEW r, IsInsertion(r, s, k, t)
    PROVE  /\ Members(r) = Members(s) \cup {t}
           /\ \A a, b : Ahead(s, a, b) => Ahead(r, a, b)
           /\ \A i \in 1 .. k : Ahead(r, s[i], t)
  <1>1. /\ Len(s) \in Nat /\ k \in Nat /\ DOMAIN s = 1 .. Len(s) /\ DOMAIN r = 1 .. Len(s) + 1
        /\ k + 1 \in DOMAIN r /\ r[k + 1] = t
        /\ \A i \in DOMAIN r : i # k + 1 =>
              Source(i, k) \in DOMAIN s /\ r[i] = s[Source(i, k)]
        /\ \A i, j \in DOMAIN r :
              i # k + 1 /\ j # k + 1 => (i < j <=> Source(i, k) < Source(j, k))
    BY DEF IsInsertion
  <1>2. ASSUME NEW m \in DOMAIN s
        PROVE  \E i \in DOMAIN r : i # k + 1 /\ Source(i, k) = m /\ r[i] = s[m] /\ (m <= k => i < k + 1)
    <2> DEFINE i == IF m <= k THEN m ELSE m + 1
    <2>1. i \in DOMAIN r /\ i # k + 1 /\ Source(i, k) = m /\ (m <= k => i < k + 1)
      BY <1>1 DEF Source
    <2> QED
      BY <2>1, <1>1
  <1>3. Members(r) = Members(s) \cup {t}
    BY <1>1, <1>2 DEF Members
  <1>4. ASSUME NEW a, NEW b, Ahead(s, a, b)  PROVE  Ahead(r, a, b)
    <2>1. PICK m \in DOMAIN s, n \in DOMAIN s : m < n /\ s[m] = a /\ s[n] = b
      BY <1>4 DEF Ahead
    <2>2. PICK i \in DOMAIN r : i # k + 1 /\ Source(i, k) = m /\ r[i] = s[m]
      BY <1>2
    <2>3. PICK j \in DOMAIN r : j # k + 1 /\ Source(j, k) = n /\ r[j] = s[n]
      BY <1>2
    <2>4. i < j
      BY <2>1, <2>2, <2>3, <1>1
    <2> QED
      BY <2>1, <2>2, <2>3, <2>4 DEF Ahead
  <1>5. ASSUME NEW m \in 1 .. k  PROVE  Ahead(r, s[m], t)
    <2>1. PICK i \in DOMAIN r : r[i] = s[m] /\ i < k + 1
      BY <1>1, <1>2, SMTT(30)
    <2> QED
      BY <2>1, <1>1 DEF Ahead
  <1> QED
    BY <1>3, <1>4, <1>5

\* A removal from a duplicate-free sequence takes out one member and lets none of
\* the others overtake another.
LEMMA RemoveAhead ==
    ASSUME NEW S, NEW s \in Seq(S), NEW k \in DOMAIN s, NEW r, IsRemoval(r, s, k), Distinct(s)
    PROVE  /\ Members(r) = Members(s) \ {s[k]}
           /\ \A a, b : Ahead(s, a, b) /\ a # s[k] /\ b # s[k] => Ahead(r, a, b)
  <1>1. /\ \A i \in DOMAIN r : Survivor(i, k) \in DOMAIN s /\ Survivor(i, k) # k
                               /\ r[i] = s[Survivor(i, k)]
        /\ \A i, j \in DOMAIN r : i < j <=> Survivor(i, k) < Survivor(j, k)
        /\ \A m \in DOMAIN s : m # k => \E i \in DOMAIN r : m = Survivor(i, k)
    BY DEF IsRemoval
  <1>2. Members(r) = Members(s) \ {s[k]}
    BY <1>1 DEF Members, Distinct
  <1>3. ASSUME NEW a, NEW b, Ahead(s, a, b), a # s[k], b # s[k]  PROVE  Ahead(r, a, b)
    <2>1. PICK m \in DOMAIN s, n \in DOMAIN s : m < n /\ s[m] = a /\ s[n] = b
      BY <1>3 DEF Ahead
    <2>2. PICK i \in DOMAIN r : m = Survivor(i, k)
      BY <1>1, <1>3, <2>1
    <2>3. PICK j \in DOMAIN r : n = Survivor(j, k)
      BY <1>1, <1>3, <2>1
    <2>4. i < j /\ r[i] = a /\ r[j] = b
      BY <1>1, <2>1, <2>2, <2>3
    <2> QED
      BY <2>4 DEF Ahead
  <1> QED
    BY <1>2, <1>3

\* Who is in the line, and who stands before whom, by its halves.
LEMMA LineAhead ==
    ASSUME TypeOK
    PROVE  /\ Members(Line) = Members(batch) \cup Members(queue)
           /\ \A a, b : Ahead(Line, a, b) <=>
                 \/ Ahead(batch, a, b) \/ Ahead(queue, a, b)
                 \/ a \in Members(batch) /\ b \in Members(queue)
  BY ConcatAhead DEF TypeOK, Line

\* A task that is armed overtakes nobody and stands behind whoever is due no later.
LEMMA ArmFifo ==
    ASSUME IInv, IInv', NEW t \in Tasks, NEW d \in Delays, Arm(t, d)
    PROVE  FifoStep
  <1> DEFINE w == DueAt(now, d)
  <1>1. PICK k \in 0 .. Len(queue) :
          /\ \A i \in k + 1 .. Len(queue) : ~NotAfter(due[queue[i]], w)
          /\ queue' = InsertAfter(queue, k, t)
          /\ due' = [due EXCEPT ![t] = w]
    BY DEF Arm
  <1>2. queue \in Seq(Tasks) /\ due \in [Tasks -> DueTime] /\ DOMAIN queue = 1 .. Len(queue)
    BY DEF IInv, TypeOK
  <1>3. IsInsertion(queue', queue, k, t)
    BY <1>1, <1>2, InsertSource
  <1>4. /\ Members(queue') = Members(queue) \cup {t}
        /\ \A a, b : Ahead(queue, a, b) => Ahead(queue', a, b)
        /\ \A i \in 1 .. k : Ahead(queue', queue[i], t)
    BY <1>2, <1>3, InsertAhead
  <1>5. batch' = batch /\ t \notin Members(Line)
    BY DEF Arm
  <1>6. /\ Members(Line) = Members(batch) \cup Members(queue)
        /\ \A a, b : Ahead(Line, a, b) <=>
              Ahead(batch, a, b) \/ Ahead(queue, a, b) \/ (a \in Members(batch) /\ b \in Members(queue))
    BY LineAhead DEF IInv
  <1>7. /\ Members(Line)' = Members(batch') \cup Members(queue')
        /\ \A a, b : Ahead(Line', a, b) <=>
              Ahead(batch', a, b) \/ Ahead(queue', a, b)
              \/ (a \in Members(batch') /\ b \in Members(queue'))
    <2>1. batch' \in Seq(Tasks) /\ queue' \in Seq(Tasks) /\ Line' = batch' \o queue'
      BY DEF IInv, TypeOK, Line
    <2>2. Members(Line)' = Members(Line')
      BY DEF Members
    <2> QED
      BY <2>1, <2>2, ConcatAhead
  <1>8. ASSUME NEW a \in Members(Line), NotAfter(due'[a], due'[t])  PROVE  Ahead(Line', a, t)
    <2>1. CASE a \in Members(batch)
      BY <2>1, <1>4, <1>5, <1>7
    <2>2. CASE a \in Members(queue)
      <3>1. PICK i \in DOMAIN queue : queue[i] = a
        BY <2>2 DEF Members
      <3>2. a # t /\ a \in Tasks
        BY <1>2, <1>5, <3>1
      <3>3. due'[a] = due[a] /\ due'[t] = w
        BY <1>1, <1>2, <3>2
      <3>4. i \in 1 .. k
        BY <1>1, <1>2, <1>8, <3>1, <3>3
      <3> QED
        BY <1>4, <1>7, <3>1, <3>4
    <2> QED
      BY <1>6, <2>1, <2>2
  <1>9. Members(Line)' \ Members(Line) = {t}
    BY <1>4, <1>5, <1>6, <1>7
  <1>10. \A a, b \in Members(Line) \cap Members(Line)' : Ahead(Line, a, b) => Ahead(Line', a, b)
    BY <1>4, <1>5, <1>6, <1>7
  <1> QED
    BY <1>8, <1>9, <1>10 DEF FifoStep

\* Taking a task out of either half lets nobody overtake and brings nobody in.
LEMMA LeaveFifo ==
    ASSUME IInv, IInv', NEW k,
           \/ k \in DOMAIN queue /\ IsRemoval(queue', queue, k) /\ batch' = batch
           \/ k \in DOMAIN batch /\ IsRemoval(batch', batch, k) /\ queue' = queue
    PROVE  FifoStep
  <1>1. /\ Members(Line) = Members(batch) \cup Members(queue)
        /\ \A a, b : Ahead(Line, a, b) <=>
              Ahead(batch, a, b) \/ Ahead(queue, a, b) \/ (a \in Members(batch) /\ b \in Members(queue))
    BY LineAhead DEF IInv
  <1>2. /\ Members(Line)' = Members(batch') \cup Members(queue')
        /\ \A a, b : Ahead(Line', a, b) <=>
              Ahead(batch', a, b) \/ Ahead(queue', a, b)
              \/ (a \in Members(batch') /\ b \in Members(queue'))
    <2>1. batch' \in Seq(Tasks) /\ queue' \in Seq(Tasks) /\ Line' = batch' \o queue'
      BY DEF IInv, TypeOK, Line
    <2>2. Members(Line)' = Members(Line')
      BY DEF Members
    <2> QED
      BY <2>1, <2>2, ConcatAhead
  <1>3. /\ batch \in Seq(Tasks) /\ queue \in Seq(Tasks) /\ Distinct(batch) /\ Distinct(queue)
        /\ Members(batch) \cap Members(queue) = {}
    BY DEF IInv, TypeOK, HalvesOK, Members
  <1>4. CASE k \in DOMAIN queue /\ IsRemoval(queue', queue, k) /\ batch' = batch
    <2>1. /\ Members(queue') = Members(queue) \ {queue[k]}
          /\ \A a, b : Ahead(queue, a, b) /\ a # queue[k] /\ b # queue[k] => Ahead(queue', a, b)
      BY <1>3, <1>4, RemoveAhead
    <2>2. queue[k] \in Members(queue)
      BY <1>4 DEF Members
    <2>3. queue[k] \notin Members(Line)'
      BY <1>2, <1>3, <1>4, <2>1, <2>2
    <2> QED
      BY <1>1, <1>2, <1>4, <2>1, <2>3 DEF FifoStep
  <1>5. CASE k \in DOMAIN batch /\ IsRemoval(batch', batch, k) /\ queue' = queue
    <2>1. /\ Members(batch') = Members(batch) \ {batch[k]}
          /\ \A a, b : Ahead(batch, a, b) /\ a # batch[k] /\ b # batch[k] => Ahead(batch', a, b)
      BY <1>3, <1>5, RemoveAhead
    <2>2. batch[k] \in Members(batch)
      BY <1>5 DEF Members
    <2>3. batch[k] \notin Members(Line)'
      BY <1>2, <1>3, <1>5, <2>1, <2>2
    <2> QED
      BY <1>1, <1>2, <1>5, <2>1, <2>3 DEF FifoStep
  <1> QED
    BY <1>4, <1>5

\* A line that stays as it is has nobody overtaken.
LEMMA SameFifo == Line' = Line => FifoStep
  <1> SUFFICES ASSUME Line' = Line  PROVE  FifoStep
    OBVIOUS
  <1>1. Members(Line)' = Members(Line)
    BY DEF Members
  <1> QED
    BY <1>1 DEF FifoStep

\* The head of the main list is the next of the line behind the batch.
LEMMA CollectLine == IInv /\ Collect => Line' = Line
  <1> SUFFICES ASSUME IInv, Collect  PROVE  Line' = Line
    OBVIOUS
  <1>1. /\ batch \in Seq(Tasks) /\ queue \in Seq(Tasks) /\ queue # <<>>
        /\ batch' = Append(batch, Head(queue)) /\ queue' = Tail(queue)
    BY DEF IInv, TypeOK, Collect
  <1> DEFINE b == Append(batch, Head(queue))
             q == Tail(queue)
  <1>2. /\ Len(batch) \in Nat /\ Len(queue) \in Nat /\ Len(queue) >= 1
        /\ b \in Seq(Tasks) /\ Len(b) = Len(batch) + 1
        /\ \A i \in 1 .. Len(b) : b[i] = IF i <= Len(batch) THEN batch[i] ELSE queue[1]
        /\ q \in Seq(Tasks) /\ Len(q) = Len(queue) - 1
        /\ \A i \in 1 .. Len(q) : q[i] = queue[i + 1]
    BY <1>1
  <1> HIDE DEF b, q
  <1>n. b \in Seq(Tasks) /\ q \in Seq(Tasks) /\ Len(b) + Len(q) = Len(batch) + Len(queue)
    BY <1>2
  <1>m. /\ b \o q \in Seq(Tasks) /\ Len(b \o q) = Len(b) + Len(q)
        /\ \A i \in 1 .. Len(b) + Len(q) :
              (b \o q)[i] = IF i <= Len(b) THEN b[i] ELSE q[i - Len(b)]
    BY <1>n
  <1>3. /\ b \o q \in Seq(Tasks) /\ Len(b \o q) = Len(batch) + Len(queue)
        /\ \A i \in 1 .. Len(batch) + Len(queue) :
              (b \o q)[i] = IF i <= Len(b) THEN b[i] ELSE q[i - Len(b)]
    BY <1>n, <1>m
  <1>4. /\ batch \o queue \in Seq(Tasks) /\ Len(batch \o queue) = Len(batch) + Len(queue)
        /\ \A i \in 1 .. Len(batch) + Len(queue) :
              (batch \o queue)[i] = IF i <= Len(batch) THEN batch[i] ELSE queue[i - Len(batch)]
    BY <1>1
  <1>5. ASSUME NEW i \in 1 .. Len(batch) + Len(queue)  PROVE  (b \o q)[i] = (batch \o queue)[i]
    <2>1. CASE i <= Len(batch)
      BY <2>1, <1>2, <1>3, <1>4
    <2>2. CASE i = Len(batch) + 1
      BY <2>2, <1>2, <1>3, <1>4
    <2>3. CASE i > Len(batch) + 1
      <3>1. /\ i - Len(b) \in 1 .. Len(q) /\ i - Len(b) + 1 = i - Len(batch)
            /\ ~(i <= Len(b)) /\ ~(i <= Len(batch))
        BY <2>3, <1>2
      <3> QED
        BY <3>1, <1>2, <1>3, <1>4
    <2> QED
      BY <2>1, <2>2, <2>3, <1>2
  <1>6. b \o q = batch \o queue
    BY <1>3, <1>4, <1>5, <1>2, SMTT(30)
  <1> QED
    BY <1>1, <1>6 DEF Line, b, q

\* First come, first served: whoever waits is overtaken by nobody, and a task that
\* is armed goes behind all that are due no later (sched.c:413-442).
THEOREM FifoThm == Spec => Fifo
  <1>1. IInv /\ IInv' /\ [Next]_vars => [FifoStep]_vars
    <2> SUFFICES ASSUME IInv, IInv', Next  PROVE  FifoStep
      OBVIOUS
    <2>1. ASSUME NEW t \in Tasks, NEW d \in Delays, Arm(t, d)  PROVE  FifoStep
      BY <2>1, ArmFifo
    <2>2. ASSUME NEW t \in Tasks, Drop(t)  PROVE  FifoStep
      <3>1. PICK k : \/ k \in DOMAIN queue /\ queue' = RemoveNth(queue, k) /\ batch' = batch
                     \/ k \in DOMAIN batch /\ batch' = RemoveNth(batch, k) /\ queue' = queue
        BY <2>2 DEF Drop
      <3> QED
        BY <3>1, RemoveSource, LeaveFifo DEF IInv, TypeOK
    <2>3. CASE Run
      <3>1. 1 \in DOMAIN batch /\ IsRemoval(batch', batch, 1) /\ queue' = queue
        BY <2>3, TailSource DEF Run, IInv, TypeOK
      <3> QED
        BY <3>1, LeaveFifo
    <2>4. CASE Collect
      BY <2>4, CollectLine, SameFifo
    <2>5. CASE EnterLoop \/ Collected \/ Return \/ Sleep \/ \E n \in Clock : Tick(n)
      <3>1. Line' = Line
        BY <2>5 DEF EnterLoop, Collected, Return, Sleep, Tick, Line
      <3> QED
        BY <3>1, SameFifo
    <2> QED
      BY <2>1, <2>2, <2>3, <2>4, <2>5 DEF Next
  <1> QED
    BY <1>1, Inductive, PTL DEF Spec, Fifo

==============================================================================
