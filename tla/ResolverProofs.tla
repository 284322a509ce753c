---------------------------- MODULE ResolverProofs ---------------------------
(***************************************************************************)
(* Resolver panels and the DNS engine behind them, for any number of       *)
(* panels, names and lookups.                                              *)
(***************************************************************************)
EXTENDS Resolver, ListProofs

-----------------------------------------------------------------------------
(* The inductive invariant *)

\* What waits in the queue is being asked for, and nothing waits twice.
QueueOK ==
    /\ \A x \in Elems(queue) : entry[x].state = "processing" /\ entry[x].wanted
    /\ NoDup(queue) /\ lookup \notin Elems(queue)

\* An entry is wanted just when the instance that it is for remembers it; only
\* those that are alive remember anything.
AskedOK ==
    /\ \A x \in Entries : entry[x].wanted =>
          entry[x].data \in Instances /\ \E p \in pending[entry[x].data] : p.handle = x
    /\ \A i \in Instances : \A p \in pending[i] :
          entry[p.handle].wanted /\ entry[p.handle].data = i /\ entry[p.handle].host = p.host
    /\ \A i \in Instances : i \notin live => pending[i] = {}

\* What the worker has written so far.
ThreadOK ==
    /\ lookup = None <=> thread = None
    /\ thread \in {"run", "named"} => entry[lookup].state = "processing"
    /\ thread = "named" => entry[lookup].addr = "true"
    /\ thread = "flagged" => entry[lookup].state = "found"
    /\ thread \in {"done", "exited"} =>
          \/ entry[lookup].state = "notfound"
          \/ entry[lookup].state = "found" /\ entry[lookup].addr = "true"

\* While answers are owed the pump is armed, once.
PumpOK ==
    \A i \in Instances : /\ outstanding[i] > 0 => scheduled[i]
                         /\ armed[i] = IF scheduled[i] THEN 1 ELSE 0

\* Until a running lookup slips, what is owed is what is remembered.
OwedOK ==
    /\ \A i \in Instances : IsFiniteSet(pending[i])
    /\ ~slipped => \A i \in Instances : outstanding[i] = Cardinality(pending[i])
    /\ ~slipped /\ lookup # None /\ entry[lookup].data \in live => entry[lookup].wanted

\* The lamp.
LampOK == \A i \in Instances : state[i].lamp = "looking" => pending[i] # {}

IInv == TypeOK /\ QueueOK /\ AskedOK /\ ThreadOK /\ PumpOK /\ OwedOK /\ LampOK

-----------------------------------------------------------------------------
(* Every step keeps the invariant *)

Shown == [lamp : {"idle", "looking", "found", "notfound"}, host : Hosts \cup {None}]

\* What an entry and a panel are when nothing goes on.
LEMMA FreeIdle == Free \in Entry /\ Idle \in Shown /\ Looking \in Shown
<1>1. Idle \in Shown
  BY DEF Idle, Shown
<1>2. Looking \in Shown
  BY DEF Looking, Shown
<1>3. Free \in Entry
  <2>1. FALSE \in BOOLEAN /\ None \in Hosts \cup {None} /\ None \in {None, "junk", "true"}
        /\ None \in Instances \cup {None} /\ "free" \in {"free", "processing", "found", "notfound"}
    OBVIOUS
  <2> QED
    BY <2>1 DEF Free, Entry
<1> QED
  BY <1>1, <1>2, <1>3

\* Nothing is asked for in the beginning.
LEMMA InitInv == Init => IInv
<1> SUFFICES ASSUME Init PROVE IInv
  OBVIOUS
<1>1. TypeOK
  <2>1. Free \in Entry /\ Idle \in Shown
    BY FreeIdle
  <2>2. EngineTypeOK
    <3>1. entry \in [Entries -> Entry] /\ queue \in Seq(Entries) /\ lookup \in Entries \cup {None}
      BY <2>1 DEF Init, EngineInit
    <3>2. /\ thread \in {None, "run", "named", "flagged", "done", "exited"}
          /\ live \subseteq Instances /\ slipped \in BOOLEAN
      BY DEF Init, EngineInit
    <3>3. /\ pending \in [Instances -> SUBSET Asked] /\ outstanding \in [Instances -> Nat]
          /\ armed \in [Instances -> Nat]
      BY DEF Init, EngineInit
    <3>4. scheduled \in [Instances -> BOOLEAN]
      BY DEF Init, EngineInit
    <3> QED
      BY <3>1, <3>2, <3>3, <3>4 DEF EngineTypeOK
  <2> QED
    BY <2>1, <2>2 DEF Init, TypeOK, Shown
<1>2. QueueOK /\ ThreadOK
  BY DnsAssumption DEF Init, EngineInit, QueueOK, ThreadOK, Elems, NoDup, None
<1>3. AskedOK
  BY DEF Init, EngineInit, AskedOK, Free
<1>4. PumpOK
  BY DEF Init, EngineInit, PumpOK
<1>5. OwedOK
  BY FS_EmptySet DEF Init, EngineInit, OwedOK
<1>6. LampOK
  BY DEF Init, LampOK, Idle
<1> QED
  BY <1>1, <1>2, <1>3, <1>4, <1>5, <1>6 DEF IInv

\* The worker writes into the entry being looked up, which does not wait.
LEMMA WorkInv ==
    ASSUME IInv, Work
    PROVE  IInv'
<1>1. /\ EngineTypeOK /\ TypeOK /\ QueueOK /\ AskedOK /\ ThreadOK /\ PumpOK /\ OwedOK /\ LampOK
      /\ UNCHANGED <<queue, lookup, live, pending, outstanding, scheduled, armed, slipped, panel>>
  BY DEF IInv, Work, Worker, idle, TypeOK
<1>2. /\ entry \in [Entries -> Entry] /\ thread # None
      /\ thread \in {None, "run", "named", "flagged", "done", "exited"}
  BY <1>1 DEF EngineTypeOK, Work, Worker, WorkerMisses, WorkerFinds, WorkerExits, None
<1>3. lookup \in Entries
  BY <1>1, <1>2 DEF EngineTypeOK, ThreadOK
<1>4. /\ entry' \in [Entries -> Entry] /\ thread' \in {"named", "flagged", "done", "exited"}
      /\ \A y \in Entries : y # lookup => entry'[y] = entry[y]
      /\ \A y \in Entries : /\ entry'[y].wanted = entry[y].wanted /\ entry'[y].data = entry[y].data
                            /\ entry'[y].host = entry[y].host
  <2> DEFINE r == entry[lookup]
  <2>1. r \in Entry
    BY <1>2, <1>3
  <2>2. ASSUME NEW v \in Entry, entry' = [entry EXCEPT ![lookup] = v],
               v.wanted = r.wanted, v.data = r.data, v.host = r.host
        PROVE  /\ entry' \in [Entries -> Entry]
               /\ \A y \in Entries : y # lookup => entry'[y] = entry[y]
               /\ \A y \in Entries : /\ entry'[y].wanted = entry[y].wanted /\ entry'[y].data = entry[y].data
                                     /\ entry'[y].host = entry[y].host
    BY <1>2, <1>3, <2>2
  <2>3. ASSUME NEW s \in {"found", "notfound"}
        PROVE  /\ [r EXCEPT !.state = s] \in Entry /\ [r EXCEPT !.state = s].wanted = r.wanted
               /\ [r EXCEPT !.state = s].data = r.data /\ [r EXCEPT !.state = s].host = r.host
    BY <2>1 DEF Entry
  <2>4. /\ [r EXCEPT !.addr = "true"] \in Entry /\ [r EXCEPT !.addr = "true"].wanted = r.wanted
        /\ [r EXCEPT !.addr = "true"].data = r.data /\ [r EXCEPT !.addr = "true"].host = r.host
    BY <2>1 DEF Entry
  <2>5. \/ entry' = [entry EXCEPT ![lookup] = [r EXCEPT !.state = "notfound"]]
        \/ entry' = [entry EXCEPT ![lookup] = [r EXCEPT !.addr = "true"]]
        \/ entry' = [entry EXCEPT ![lookup] = [r EXCEPT !.state = "found"]]
        \/ entry' = entry
    BY DEF Work, Worker, WorkerMisses, WorkerFinds, WorkerExits
  <2>6. thread' \in {"named", "flagged", "done", "exited"}
    BY DEF Work, Worker, WorkerMisses, WorkerFinds, WorkerExits
  <2> HIDE DEF r
  <2>7. CASE entry' = entry
    BY <1>2, <2>6, <2>7
  <2> QED
    BY <2>2, <2>3, <2>4, <2>5, <2>6, <2>7
<1>5. TypeOK'
  <2>1. EngineTypeOK'
    BY <1>1, <1>4 DEF EngineTypeOK
  <2> QED
    BY <1>1, <2>1 DEF TypeOK, panel
<1>6. QueueOK'
  <2>1. Elems(queue) \subseteq Entries
    BY <1>1 DEF EngineTypeOK, Elems
  <2> QED
    BY <1>1, <1>4, <2>1 DEF QueueOK
<1>7. AskedOK'
  <2>1. \A i \in Instances : \A p \in pending[i] : p.handle \in Entries
    BY <1>1 DEF EngineTypeOK, Asked
  <2> QED
    BY <1>1, <1>4, <2>1 DEF AskedOK
<1>8. ThreadOK'
  <2> DEFINE r == entry[lookup]
  <2>1. r \in Entry
    BY <1>2, <1>3
  <2>2. CASE /\ thread = "run" /\ thread' = "done"
             /\ entry' = [entry EXCEPT ![lookup].state = "notfound"]
    <3>1. entry'[lookup].state = "notfound"
      BY <1>2, <1>3, <2>1, <2>2 DEF Entry
    <3> QED
      BY <1>1, <1>3, <2>2, <3>1, DnsAssumption DEF ThreadOK, None
  <2>3. CASE /\ thread \in {"run", "flagged"} /\ thread' = IF thread = "run" THEN "named" ELSE "done"
             /\ entry' = [entry EXCEPT ![lookup].addr = "true"]
    <3>1. entry'[lookup].addr = "true" /\ entry'[lookup].state = entry[lookup].state
      BY <1>2, <1>3, <2>1, <2>3 DEF Entry
    <3> QED
      BY <1>1, <1>3, <2>3, <3>1, DnsAssumption DEF ThreadOK, None
  <2>4. CASE /\ thread \in {"run", "named"} /\ thread' = IF thread = "run" THEN "flagged" ELSE "done"
             /\ entry' = [entry EXCEPT ![lookup].state = "found"]
    <3>1. entry'[lookup].state = "found" /\ entry'[lookup].addr = entry[lookup].addr
      BY <1>2, <1>3, <2>1, <2>4 DEF Entry
    <3> QED
      BY <1>1, <1>3, <2>4, <3>1, DnsAssumption DEF ThreadOK, None
  <2>5. CASE thread = "done" /\ thread' = "exited" /\ UNCHANGED entry
    BY <1>1, <1>3, <2>5, DnsAssumption DEF ThreadOK, None
  <2> QED
    BY <2>2, <2>3, <2>4, <2>5 DEF Work, Worker, WorkerMisses, WorkerFinds, WorkerExits
<1>9. PumpOK'
  BY <1>1 DEF PumpOK
<1>10. OwedOK'
  BY <1>1, <1>3, <1>4 DEF OwedOK
<1>11. LampOK'
  BY <1>1 DEF LampOK, panel
<1> QED
  BY <1>5, <1>6, <1>7, <1>8, <1>9, <1>10, <1>11 DEF IInv

\* A panel is placed; its address may be that of the one whose lookup is running.
LEMMA PlaceInv ==
    ASSUME IInv, NEW i \in Instances, Place(i)
    PROVE  IInv'
<1>1. /\ EngineTypeOK /\ TypeOK /\ QueueOK /\ AskedOK /\ ThreadOK /\ PumpOK /\ OwedOK /\ LampOK
      /\ UNCHANGED <<entry, queue, lookup, thread, pending, outstanding, scheduled, armed, panel>>
      /\ live' = live \cup {i} /\ i \notin live
  BY DEF IInv, Place, InstanceStart, idle, TypeOK
<1>2. slipped' \in BOOLEAN /\ (~slipped' => ~slipped /\ ~(lookup # None /\ entry[lookup].data = i))
  BY <1>1 DEF Place, InstanceStart, EngineTypeOK
<1>3. TypeOK'
  <2>1. EngineTypeOK'
    BY <1>1, <1>2 DEF EngineTypeOK
  <2> QED
    BY <1>1, <2>1 DEF TypeOK, panel
<1>4. QueueOK' /\ ThreadOK' /\ PumpOK'
  BY <1>1 DEF QueueOK, ThreadOK, PumpOK
<1>5. AskedOK' /\ LampOK'
  BY <1>1 DEF AskedOK, LampOK, panel
<1>6. OwedOK'
  BY <1>1, <1>2 DEF OwedOK
<1> QED
  BY <1>3, <1>4, <1>5, <1>6 DEF IInv

\* Enable darkens the lamp or leaves it.
LEMMA EnableInv ==
    ASSUME IInv, NEW i \in Instances, NEW v \in BOOLEAN, OnEnable(i, v)
    PROVE  IInv'
<1>1. /\ EngineTypeOK /\ TypeOK /\ QueueOK /\ AskedOK /\ ThreadOK /\ PumpOK /\ OwedOK /\ LampOK
      /\ UNCHANGED <<entry, queue, lookup, thread, live, pending, outstanding, scheduled, armed, slipped, address>>
  BY DEF IInv, OnEnable, engine, TypeOK
<1>2. state' = state \/ state' = [state EXCEPT ![i] = Idle]
  BY DEF OnEnable
<1>3. TypeOK'
  <2>1. EngineTypeOK'
    BY <1>1 DEF EngineTypeOK
  <2>2. state' \in [Instances -> Shown] /\ enabled' \in [Instances -> BOOLEAN]
    BY <1>1, <1>2, FreeIdle DEF OnEnable, TypeOK, Shown
  <2> QED
    BY <1>1, <2>1, <2>2 DEF TypeOK, Shown
<1>4. QueueOK' /\ ThreadOK' /\ PumpOK' /\ AskedOK' /\ OwedOK'
  BY <1>1 DEF QueueOK, ThreadOK, PumpOK, AskedOK, OwedOK
<1>5. LampOK'
  BY <1>1, <1>2 DEF LampOK, TypeOK, Idle
<1> QED
  BY <1>3, <1>4, <1>5 DEF IInv

\* An instance remembers an entry once.
LEMMA HandleUnique ==
    ASSUME TypeOK, AskedOK, NEW i \in Instances, NEW p \in pending[i], NEW q \in pending[i],
           p.handle = q.handle
    PROVE  p = q
<1>1. p \in Asked /\ q \in Asked
  BY DEF TypeOK, EngineTypeOK
<1>2. p.host = q.host
  BY DEF AskedOK
<1> QED
  BY <1>1, <1>2 DEF Asked

\* Entries that are given up leave the queue; the one that is running stays.
LEMMA DropStep ==
    ASSUME IInv, NEW i \in Instances, NEW ps, ps \subseteq pending[i],
           DnsDelLookup({p.handle : p \in ps}), pending' = [pending EXCEPT ![i] = @ \ ps],
           UNCHANGED <<lookup, thread>>
    PROVE  /\ entry' \in [Entries -> Entry] /\ queue' \in Seq(Entries)
           /\ pending' \in [Instances -> SUBSET Asked]
           /\ QueueOK' /\ ThreadOK'
           /\ \A x \in Entries : entry'[x].wanted =>
                 entry'[x].data \in Instances /\ \E p \in pending'[entry'[x].data] : p.handle = x
           /\ \A j \in Instances : \A p \in pending'[j] :
                 entry'[p.handle].wanted /\ entry'[p.handle].data = j /\ entry'[p.handle].host = p.host
           /\ lookup # None => entry'[lookup].data = entry[lookup].data
           /\ lookup # None => (entry'[lookup].wanted \/ ~entry[lookup].wanted \/ \E p \in ps : p.handle = lookup)
<1> DEFINE xs == {p.handle : p \in ps}
<1>1. EngineTypeOK /\ TypeOK /\ QueueOK /\ AskedOK /\ ThreadOK
  BY DEF IInv, TypeOK
<1>2. /\ entry \in [Entries -> Entry] /\ queue \in Seq(Entries) /\ lookup \in Entries \cup {None}
      /\ pending \in [Instances -> SUBSET Asked]
  BY <1>1 DEF EngineTypeOK
<1>3. \A x : x \in xs <=> \E p \in ps : p.handle = x
  OBVIOUS
<1>4. /\ queue' = Without(queue, xs)
      /\ entry' = [x \in Entries |-> IF x \notin xs THEN entry[x]
                                     ELSE IF x = lookup THEN [entry[x] EXCEPT !.wanted = FALSE] ELSE Free]
  BY DEF DnsDelLookup
<1> HIDE DEF xs
<1>5. queue' \in Seq(Entries) /\ Elems(queue') = Elems(queue) \ xs /\ NoDup(queue')
  BY <1>1, <1>2, <1>4, WithoutElems DEF QueueOK
<1>6. ASSUME NEW x \in Entries
      PROVE  /\ entry'[x] \in Entry
             /\ x \notin xs => entry'[x] = entry[x]
             /\ x \in xs => ~entry'[x].wanted
             /\ x = lookup => /\ entry'[x].state = entry[x].state /\ entry'[x].addr = entry[x].addr
                              /\ entry'[x].data = entry[x].data
  <2> DEFINE r == entry[x]
  <2>1. r \in Entry /\ Free \in Entry
    BY <1>2, FreeIdle
  <2>2. CASE x \notin xs
    BY <1>4, <2>1, <2>2
  <2>3. CASE x \in xs /\ x = lookup
    <3>1. entry'[x] = [r EXCEPT !.wanted = FALSE]
      BY <1>4, <2>3
    <3> HIDE DEF r
    <3>2. /\ [r EXCEPT !.wanted = FALSE] \in Entry /\ ~[r EXCEPT !.wanted = FALSE].wanted
          /\ [r EXCEPT !.wanted = FALSE].state = r.state /\ [r EXCEPT !.wanted = FALSE].addr = r.addr
          /\ [r EXCEPT !.wanted = FALSE].data = r.data
      BY <2>1 DEF Entry
    <3> QED
      BY <2>3, <3>1, <3>2 DEF r
  <2>4. CASE x \in xs /\ x # lookup
    <3>1. entry'[x] = Free
      BY <1>4, <2>4
    <3> QED
      BY <2>1, <2>4, <3>1 DEF Free
  <2> QED
    BY <2>2, <2>3, <2>4
<1>7. entry' \in [Entries -> Entry]
  <2>1. entry' = [x \in Entries |-> entry'[x]]
    BY <1>4
  <2> QED
    BY <1>6, <2>1
<1>8. /\ pending' \in [Instances -> SUBSET Asked] /\ pending'[i] = pending[i] \ ps
      /\ \A j \in Instances : j # i => pending'[j] = pending[j]
  BY <1>2
<1>9. QueueOK'
  <2>1. Elems(queue) \subseteq Entries
    BY <1>2 DEF Elems
  <2>2. \A x \in Elems(queue') : x \in Entries /\ x \in Elems(queue) /\ entry'[x] = entry[x]
    BY <1>5, <1>6, <2>1
  <2> QED
    BY <1>1, <1>5, <2>2 DEF QueueOK
<1>10. ThreadOK'
  <2>1. lookup # None => lookup \in Entries
    BY <1>2
  <2>2. lookup # None => entry'[lookup].state = entry[lookup].state /\ entry'[lookup].addr = entry[lookup].addr
    BY <1>6, <2>1
  <2>3. lookup = None <=> thread = None
    BY <1>1 DEF ThreadOK
  <2>4. CASE lookup = None
    BY <2>3, <2>4 DEF ThreadOK, None
  <2>5. CASE lookup # None
    BY <1>1, <2>2, <2>5 DEF ThreadOK
  <2> QED
    BY <2>4, <2>5
<1>11. ASSUME NEW j \in Instances, NEW p \in pending'[j]
       PROVE  /\ p \in pending[j] /\ p.handle \in Entries \ xs
  <2>1. p \in pending[j] /\ p.handle \in Entries
    BY <1>2, <1>8 DEF Asked
  <2>2. ASSUME p.handle \in xs PROVE FALSE
    <3>1. PICK q \in ps : q.handle = p.handle
      BY <1>3, <2>2
    <3>2. entry[p.handle].data = j /\ entry[q.handle].data = i
      BY <1>1, <2>1 DEF AskedOK
    <3>3. j = i
      BY <3>1, <3>2
    <3>4. p = q
      BY <1>1, <2>1, <3>1, <3>3, HandleUnique
    <3> QED
      BY <1>8, <3>3, <3>4
  <2> QED
    BY <2>1, <2>2
<1>12. \A j \in Instances : \A p \in pending'[j] :
          entry'[p.handle].wanted /\ entry'[p.handle].data = j /\ entry'[p.handle].host = p.host
  BY <1>1, <1>6, <1>11 DEF AskedOK
<1>13. ASSUME NEW x \in Entries, entry'[x].wanted
       PROVE  entry'[x].data \in Instances /\ \E p \in pending'[entry'[x].data] : p.handle = x
  <2>1. x \notin xs /\ entry'[x] = entry[x]
    BY <1>6, <1>13
  <2>2. entry[x].data \in Instances /\ \E p \in pending[entry[x].data] : p.handle = x
    BY <1>1, <1>13, <2>1 DEF AskedOK
  <2>3. PICK p \in pending[entry[x].data] : p.handle = x
    BY <2>2
  <2>4. p \notin ps
    BY <1>3, <2>1, <2>3
  <2>5. p \in pending'[entry[x].data]
    BY <1>8, <2>2, <2>4
  <2> QED
    BY <2>1, <2>2, <2>3, <2>5
<1>14. lookup # None => entry'[lookup].data = entry[lookup].data
  BY <1>2, <1>6
<1>15. lookup # None => (entry'[lookup].wanted \/ ~entry[lookup].wanted \/ \E p \in ps : p.handle = lookup)
  BY <1>2, <1>3, <1>6
<1> QED
  BY <1>5, <1>7, <1>8, <1>9, <1>10, <1>12, <1>13, <1>14, <1>15

\* What is left of a finite set of lookups when some are given up.
LEMMA CardinalityLess ==
    ASSUME NEW S, IsFiniteSet(S), NEW T, T \subseteq S
    PROVE  /\ IsFiniteSet(S \ T) /\ Cardinality(S) \in Nat /\ Cardinality(T) \in Nat
           /\ Cardinality(S \ T) = Cardinality(S) - Cardinality(T) /\ Cardinality(T) <= Cardinality(S)
<1>1. IsFiniteSet(S \ T) /\ IsFiniteSet(T) /\ Cardinality(T) <= Cardinality(S)
  <2>1. S \ T \subseteq S
    OBVIOUS
  <2> QED
    BY <2>1, FS_Subset
<1>2. Cardinality(S \ T) = Cardinality(S) - Cardinality(S \cap T)
  BY <1>1, FS_Difference
<1>3. S \cap T = T
  OBVIOUS
<1> QED
  BY <1>1, <1>2, <1>3, FS_CardinalityType

\* Cancel gives up every lookup of a name.
LEMMA CancelInv ==
    ASSUME IInv, NEW i \in Instances, NEW h, OnCancel(i, h)
    PROVE  IInv'
<1> DEFINE ps == {p \in pending[i] : p.host = h}
           n == Cardinality(ps)
<1>1. /\ EngineTypeOK /\ TypeOK /\ AskedOK /\ PumpOK /\ OwedOK /\ LampOK
      /\ UNCHANGED <<lookup, thread, live, scheduled, armed, enabled, address>>
      /\ DnsDelLookup({p.handle : p \in ps}) /\ pending' = [pending EXCEPT ![i] = @ \ ps]
      /\ outstanding' = [outstanding EXCEPT ![i] = IF @ > n THEN @ - n ELSE 0]
      /\ state' = [state EXCEPT ![i] = Idle]
  BY DEF IInv, TypeOK, OnCancel, Dns_Cancel
<1>2. slipped' \in BOOLEAN /\ (~slipped' => ~slipped /\ ~\E p \in ps : p.handle = lookup)
  BY <1>1 DEF OnCancel, Dns_Cancel, Remembers, EngineTypeOK
<1>3. ps \subseteq pending[i]
  OBVIOUS
<1> HIDE DEF ps
<1>4. /\ entry' \in [Entries -> Entry] /\ queue' \in Seq(Entries)
      /\ pending' \in [Instances -> SUBSET Asked] /\ QueueOK' /\ ThreadOK'
      /\ \A x \in Entries : entry'[x].wanted =>
            entry'[x].data \in Instances /\ \E p \in pending'[entry'[x].data] : p.handle = x
      /\ \A j \in Instances : \A p \in pending'[j] :
            entry'[p.handle].wanted /\ entry'[p.handle].data = j /\ entry'[p.handle].host = p.host
      /\ lookup # None => entry'[lookup].data = entry[lookup].data
      /\ lookup # None => (entry'[lookup].wanted \/ ~entry[lookup].wanted \/ \E p \in ps : p.handle = lookup)
  BY <1>1, <1>3, DropStep
<1>5. /\ outstanding \in [Instances -> Nat] /\ pending \in [Instances -> SUBSET Asked]
      /\ state \in [Instances -> Shown]
  BY <1>1 DEF TypeOK, EngineTypeOK, Shown
<1>6. IsFiniteSet(pending[i])
  BY <1>1 DEF OwedOK
<1>7. /\ IsFiniteSet(pending[i] \ ps) /\ n \in Nat /\ Cardinality(pending[i]) \in Nat
      /\ Cardinality(pending[i] \ ps) = Cardinality(pending[i]) - n /\ n <= Cardinality(pending[i])
  BY <1>3, <1>6, CardinalityLess
<1> HIDE DEF n
<1>8. /\ outstanding' \in [Instances -> Nat]
      /\ outstanding'[i] = IF outstanding[i] > n THEN outstanding[i] - n ELSE 0
      /\ outstanding'[i] <= outstanding[i]
      /\ \A j \in Instances : j # i => outstanding'[j] = outstanding[j]
      /\ pending'[i] = pending[i] \ ps /\ \A j \in Instances : j # i => pending'[j] = pending[j]
  BY <1>1, <1>5, <1>7
<1>9. TypeOK'
  <2>1. EngineTypeOK'
    BY <1>1, <1>2, <1>4, <1>8 DEF EngineTypeOK
  <2>2. state' \in [Instances -> Shown]
    BY <1>1, <1>5, FreeIdle
  <2> QED
    BY <1>1, <2>1, <2>2 DEF TypeOK, Shown
<1>10. AskedOK'
  <2>1. \A j \in Instances : j \notin live' => pending'[j] = {}
    BY <1>1, <1>8 DEF AskedOK
  <2> QED
    BY <1>4, <2>1 DEF AskedOK
<1>11. PumpOK'
  <2>1. \A j \in Instances : outstanding'[j] > 0 => outstanding[j] > 0
    BY <1>5, <1>8
  <2> QED
    BY <1>1, <2>1 DEF PumpOK
<1>12. OwedOK'
  <2>1. \A j \in Instances : IsFiniteSet(pending'[j])
    BY <1>1, <1>7, <1>8 DEF OwedOK
  <2>2. ASSUME ~slipped', NEW j \in Instances PROVE outstanding'[j] = Cardinality(pending'[j])
    <3>1. outstanding[j] = Cardinality(pending[j]) /\ outstanding[i] = Cardinality(pending[i])
      BY <1>1, <1>2, <2>2 DEF OwedOK
    <3> QED
      BY <1>7, <1>8, <3>1
  <2>3. ASSUME ~slipped', lookup # None, entry'[lookup].data \in live PROVE entry'[lookup].wanted
    BY <1>1, <1>2, <1>4, <2>3 DEF OwedOK
  <2> QED
    BY <1>1, <2>1, <2>2, <2>3 DEF OwedOK
<1>13. LampOK'
  BY <1>1, <1>5, <1>8 DEF LampOK, Idle
<1> QED
  BY <1>4, <1>9, <1>10, <1>11, <1>12, <1>13 DEF IInv

\* A panel is deleted with its engine.
LEMMA DiscardInv ==
    ASSUME IInv, NEW i \in Instances, Discard(i)
    PROVE  IInv'
<1> DEFINE ps == pending[i]
<1>1. /\ EngineTypeOK /\ TypeOK /\ AskedOK /\ PumpOK /\ OwedOK /\ LampOK
      /\ UNCHANGED <<lookup, thread, slipped>> /\ live' = live \ {i}
      /\ DnsDelLookup({p.handle : p \in ps}) /\ pending' = [pending EXCEPT ![i] = {}]
      /\ outstanding' = [outstanding EXCEPT ![i] = 0]
      /\ scheduled' = [scheduled EXCEPT ![i] = FALSE] /\ armed' = [armed EXCEPT ![i] = 0]
      /\ enabled' = [enabled EXCEPT ![i] = TRUE]
      /\ state' = [state EXCEPT ![i] = Idle] /\ address' = [address EXCEPT ![i] = None]
  BY DEF IInv, TypeOK, Discard, InstanceEnd
<1>2. /\ pending \in [Instances -> SUBSET Asked] /\ outstanding \in [Instances -> Nat]
      /\ armed \in [Instances -> Nat] /\ state \in [Instances -> Shown]
      /\ address \in [Instances -> {None, "junk", "true"}] /\ lookup \in Entries \cup {None}
  BY <1>1 DEF TypeOK, EngineTypeOK, Shown
<1>3. scheduled \in [Instances -> BOOLEAN] /\ enabled \in [Instances -> BOOLEAN]
  BY <1>1 DEF TypeOK, EngineTypeOK
<1>4. pending' = [pending EXCEPT ![i] = @ \ ps] /\ ps \subseteq pending[i]
  <2>1. pending[i] \ ps = {}
    OBVIOUS
  <2> QED
    BY <1>1, <2>1
<1> HIDE DEF ps
<1>5. /\ entry' \in [Entries -> Entry] /\ queue' \in Seq(Entries)
      /\ pending' \in [Instances -> SUBSET Asked] /\ QueueOK' /\ ThreadOK'
      /\ \A x \in Entries : entry'[x].wanted =>
            entry'[x].data \in Instances /\ \E p \in pending'[entry'[x].data] : p.handle = x
      /\ \A j \in Instances : \A p \in pending'[j] :
            entry'[p.handle].wanted /\ entry'[p.handle].data = j /\ entry'[p.handle].host = p.host
      /\ lookup # None => entry'[lookup].data = entry[lookup].data
      /\ lookup # None => (entry'[lookup].wanted \/ ~entry[lookup].wanted \/ \E p \in ps : p.handle = lookup)
  BY <1>1, <1>4, DropStep
<1>6. /\ outstanding' \in [Instances -> Nat] /\ armed' \in [Instances -> Nat]
      /\ outstanding'[i] = 0 /\ armed'[i] = 0 /\ pending'[i] = {}
      /\ \A j \in Instances : j # i => /\ outstanding'[j] = outstanding[j] /\ armed'[j] = armed[j]
                                       /\ pending'[j] = pending[j]
  BY <1>1, <1>2
<1>7. /\ scheduled' \in [Instances -> BOOLEAN] /\ ~scheduled'[i]
      /\ \A j \in Instances : j # i => scheduled'[j] = scheduled[j]
  BY <1>1, <1>3
<1>8. enabled' \in [Instances -> BOOLEAN]
  BY <1>1, <1>3
<1>9. TypeOK'
  <2>1. EngineTypeOK'
    BY <1>1, <1>5, <1>6, <1>7 DEF EngineTypeOK
  <2>2. state' \in [Instances -> Shown] /\ address' \in [Instances -> {None, "junk", "true"}]
    BY <1>1, <1>2, FreeIdle
  <2> QED
    BY <1>8, <2>1, <2>2 DEF TypeOK, Shown
<1>10. AskedOK'
  <2>1. \A j \in Instances : j \notin live' => pending'[j] = {}
    BY <1>1, <1>6 DEF AskedOK
  <2> QED
    BY <1>5, <2>1 DEF AskedOK
<1>11. PumpOK'
  BY <1>1, <1>6, <1>7 DEF PumpOK
<1>12. OwedOK'
  <2>1. \A j \in Instances : IsFiniteSet(pending'[j])
    BY <1>1, <1>6, FS_EmptySet DEF OwedOK
  <2>2. ASSUME ~slipped', NEW j \in Instances PROVE outstanding'[j] = Cardinality(pending'[j])
    BY <1>1, <1>6, <2>2, FS_EmptySet DEF OwedOK
  <2>3. ASSUME ~slipped', lookup # None, entry'[lookup].data \in live' PROVE entry'[lookup].wanted
    <3>1. entry[lookup].wanted /\ entry[lookup].data # i
      BY <1>1, <1>5, <2>3 DEF OwedOK
    <3>2. ~\E p \in ps : p.handle = lookup
      BY <1>1, <3>1 DEF AskedOK, ps
    <3> QED
      BY <1>5, <2>3, <3>1, <3>2
  <2> QED
    BY <1>1, <2>1, <2>2, <2>3 DEF OwedOK
<1>13. LampOK'
  BY <1>1, <1>2, <1>6 DEF LampOK, Idle
<1> QED
  BY <1>5, <1>9, <1>10, <1>11, <1>12, <1>13 DEF IInv

\* A lookup takes an entry nothing points to.
LEMMA LookupInv ==
    ASSUME IInv, NEW i \in Instances, NEW h \in Hosts \cup {None}, OnLookup(i, h)
    PROVE  IInv'
<1>1. /\ EngineTypeOK /\ TypeOK /\ QueueOK /\ AskedOK /\ ThreadOK /\ PumpOK /\ OwedOK /\ LampOK
      /\ UNCHANGED enabled
  BY DEF IInv, TypeOK, OnLookup
<1>2. CASE UNCHANGED <<engine, state, address>>
  <2>1. EngineTypeOK'
    BY <1>1, <1>2 DEF EngineTypeOK, engine
  <2>2. TypeOK'
    BY <1>1, <1>2, <2>1 DEF TypeOK
  <2>3. QueueOK' /\ AskedOK' /\ ThreadOK' /\ PumpOK' /\ OwedOK' /\ LampOK'
    BY <1>1, <1>2 DEF engine, QueueOK, AskedOK, ThreadOK, PumpOK, OwedOK, LampOK
  <2> QED
    BY <2>2, <2>3 DEF IInv
<1>3. CASE /\ h # None /\ Dns_Lookup(i, h) /\ state' = [state EXCEPT ![i] = Looking]
           /\ address' = [address EXCEPT ![i] = None]
  <2> DEFINE x == CHOOSE y \in Entries : entry[y] = Free
             e == [state |-> "processing", host |-> h, addr |-> "junk", data |-> i, wanted |-> TRUE]
             p0 == [handle |-> x, host |-> h]
  <2>1. x \in Entries /\ entry[x] = Free
    <3>1. \E y \in Entries : entry[y] = Free
      BY <1>3 DEF Dns_Lookup
    <3> QED
      BY <3>1
  <2>2. /\ i \in live /\ UNCHANGED <<lookup, thread, live, slipped>>
        /\ entry' = [entry EXCEPT ![x] = e] /\ queue' = Append(queue, x)
        /\ pending' = [pending EXCEPT ![i] = @ \cup {p0}]
        /\ outstanding' = [outstanding EXCEPT ![i] = @ + 1]
        /\ armed' = [armed EXCEPT ![i] = IF scheduled[i] THEN @ ELSE @ + 1]
        /\ scheduled' = [scheduled EXCEPT ![i] = TRUE]
    BY <1>3 DEF Dns_Lookup
  <2> HIDE DEF x
  <2>3. h \in Hosts /\ p0 \in Asked /\ p0.handle = x /\ p0.host = h
    BY <1>3, <2>1 DEF Asked
  <2>4. e \in Entry /\ e.state = "processing" /\ e.wanted /\ e.data = i /\ e.host = h
    BY DEF Entry
  <2> HIDE DEF e, p0
  <2>5. /\ entry \in [Entries -> Entry] /\ queue \in Seq(Entries) /\ lookup \in Entries \cup {None}
        /\ pending \in [Instances -> SUBSET Asked] /\ outstanding \in [Instances -> Nat]
        /\ armed \in [Instances -> Nat] /\ state \in [Instances -> Shown]
        /\ address \in [Instances -> {None, "junk", "true"}]
    BY <1>1 DEF EngineTypeOK, TypeOK, Shown
  <2>6. scheduled \in [Instances -> BOOLEAN]
    BY <1>1 DEF EngineTypeOK
  <2>7. entry[x].state = "free" /\ ~entry[x].wanted
    BY <2>1 DEF Free
  <2>8. x \notin Elems(queue) /\ x # lookup
    <3>1. x \notin Elems(queue)
      BY <1>1, <2>7 DEF QueueOK
    <3>2. ASSUME x = lookup PROVE FALSE
      <4>1. lookup # None
        BY <2>1, <3>2, DnsAssumption
      <4>2. entry[lookup].state # "free"
        BY <1>1, <4>1 DEF ThreadOK, EngineTypeOK
      <4> QED
        BY <2>7, <3>2, <4>2
    <3> QED
      BY <3>1, <3>2
  <2>9. \A j \in Instances : \A p \in pending[j] : p.handle \in Entries /\ p.handle # x
    BY <1>1, <2>5, <2>7 DEF AskedOK, Asked
  <2>10. /\ entry' \in [Entries -> Entry] /\ entry'[x] = e
         /\ \A y \in Entries : y # x => entry'[y] = entry[y]
         /\ pending' \in [Instances -> SUBSET Asked] /\ pending'[i] = pending[i] \cup {p0}
         /\ \A j \in Instances : j # i => pending'[j] = pending[j]
    BY <2>1, <2>2, <2>3, <2>4, <2>5
  <2>11. /\ outstanding' \in [Instances -> Nat] /\ outstanding'[i] = outstanding[i] + 1
         /\ \A j \in Instances : j # i => outstanding'[j] = outstanding[j]
    BY <2>2, <2>5
  <2>12. /\ scheduled' \in [Instances -> BOOLEAN] /\ scheduled'[i]
         /\ \A j \in Instances : j # i => scheduled'[j] = scheduled[j]
    BY <2>2, <2>6
  <2>13. /\ armed' \in [Instances -> Nat] /\ armed'[i] = 1
         /\ \A j \in Instances : j # i => armed'[j] = armed[j]
    <3>1. armed[i] = IF scheduled[i] THEN 1 ELSE 0
      BY <1>1 DEF PumpOK
    <3> QED
      BY <2>2, <2>5, <3>1
  <2>14. queue' \in Seq(Entries) /\ Elems(queue') = Elems(queue) \cup {x} /\ NoDup(queue')
    <3> DEFINE q == Append(queue, x)
    <3>1. /\ q \in Seq(Entries) /\ Len(queue) + 1 \in DOMAIN q /\ q[Len(queue) + 1] = x /\ Len(queue) \in Nat
          /\ \A k \in DOMAIN q : k \in Nat /\ (k = Len(queue) + 1 \/ (k \in DOMAIN queue /\ q[k] = queue[k]))
          /\ \A k \in DOMAIN queue : k \in DOMAIN q /\ q[k] = queue[k]
      BY <2>1, <2>5
    <3> HIDE DEF q
    <3>2. Elems(q) = Elems(queue) \cup {x}
      <4>1. ASSUME NEW y \in Elems(q) PROVE y \in Elems(queue) \cup {x}
        BY <3>1 DEF Elems
      <4>2. ASSUME NEW y \in Elems(queue) PROVE y \in Elems(q)
        <5>1. PICK k \in DOMAIN queue : y = queue[k]
          BY DEF Elems
        <5> QED
          BY <3>1, <5>1 DEF Elems
      <4>3. x \in Elems(q)
        BY <3>1 DEF Elems
      <4> QED
        BY <4>1, <4>2, <4>3
    <3>3. NoDup(q)
      <4>1. \A k \in DOMAIN queue : queue[k] # x
        BY <2>8 DEF Elems
      <4> QED
        BY <1>1, <3>1, <4>1 DEF QueueOK, NoDup
    <3> QED
      BY <2>2, <3>1, <3>2, <3>3 DEF q
  <2>15. TypeOK'
    <3>1. EngineTypeOK'
      BY <1>1, <2>2, <2>10, <2>11, <2>12, <2>13, <2>14 DEF EngineTypeOK
    <3>2. state' \in [Instances -> Shown] /\ address' \in [Instances -> {None, "junk", "true"}]
      BY <1>3, <2>5, FreeIdle
    <3> QED
      BY <1>1, <3>1, <3>2 DEF TypeOK, Shown
  <2>16. QueueOK'
    <3>1. Elems(queue) \subseteq Entries
      BY <2>5 DEF Elems
    <3>2. ASSUME NEW y \in Elems(queue') PROVE entry'[y].state = "processing" /\ entry'[y].wanted
      BY <1>1, <2>4, <2>10, <2>14, <3>1 DEF QueueOK
    <3>3. lookup \notin Elems(queue')
      BY <1>1, <2>8, <2>14 DEF QueueOK
    <3> QED
      BY <2>2, <2>14, <3>2, <3>3 DEF QueueOK
  <2>17. AskedOK'
    <3>1. ASSUME NEW y \in Entries, entry'[y].wanted
          PROVE  entry'[y].data \in Instances /\ \E p \in pending'[entry'[y].data] : p.handle = y
      <4>1. CASE y = x
        BY <2>3, <2>4, <2>10, <4>1
      <4>2. CASE y # x
        <5>1. entry[y].wanted /\ entry'[y] = entry[y]
          BY <2>10, <3>1, <4>2
        <5>2. entry[y].data \in Instances /\ \E p \in pending[entry[y].data] : p.handle = y
          BY <1>1, <5>1 DEF AskedOK
        <5>3. pending[entry[y].data] \subseteq pending'[entry[y].data]
          BY <2>10, <5>2
        <5> QED
          BY <5>1, <5>2, <5>3
      <4> QED
        BY <4>1, <4>2
    <3>2. ASSUME NEW j \in Instances, NEW p \in pending'[j]
          PROVE  entry'[p.handle].wanted /\ entry'[p.handle].data = j /\ entry'[p.handle].host = p.host
      <4>1. CASE p \in pending[j]
        BY <1>1, <2>9, <2>10, <4>1 DEF AskedOK
      <4>2. CASE p \notin pending[j]
        BY <2>3, <2>4, <2>10, <4>2
      <4> QED
        BY <4>1, <4>2
    <3>3. \A j \in Instances : j \notin live' => pending'[j] = {}
      BY <1>1, <2>2, <2>10 DEF AskedOK
    <3> QED
      BY <3>1, <3>2, <3>3 DEF AskedOK
  <2>18. ThreadOK'
    <3>1. lookup # None => entry'[lookup] = entry[lookup]
      BY <2>5, <2>8, <2>10
    <3>2. lookup = None <=> thread = None
      BY <1>1 DEF ThreadOK
    <3>3. CASE lookup = None
      BY <2>2, <3>2, <3>3 DEF ThreadOK, None
    <3>4. CASE lookup # None
      BY <1>1, <2>2, <3>1, <3>4 DEF ThreadOK
    <3> QED
      BY <3>3, <3>4
  <2>19. PumpOK'
    BY <1>1, <2>11, <2>12, <2>13 DEF PumpOK
  <2>20. OwedOK'
    <3>1. p0 \notin pending[i]
      BY <2>3, <2>9
    <3>2. IsFiniteSet(pending[i])
      BY <1>1 DEF OwedOK
    <3>3. /\ IsFiniteSet(pending[i] \cup {p0})
          /\ Cardinality(pending[i] \cup {p0}) = Cardinality(pending[i]) + 1
      BY <3>1, <3>2, FS_AddElement
    <3>4. lookup # None => entry'[lookup] = entry[lookup]
      BY <2>5, <2>8, <2>10
    <3>5. \A j \in Instances : IsFiniteSet(pending'[j])
      BY <1>1, <2>10, <3>3 DEF OwedOK
    <3>6. ASSUME ~slipped', NEW j \in Instances PROVE outstanding'[j] = Cardinality(pending'[j])
      BY <1>1, <2>2, <2>10, <2>11, <3>3, <3>6 DEF OwedOK
    <3>7. ~slipped' /\ lookup' # None /\ entry'[lookup'].data \in live' => entry'[lookup'].wanted
      BY <1>1, <2>2, <3>4 DEF OwedOK
    <3> QED
      BY <3>5, <3>6, <3>7 DEF OwedOK
  <2>21. LampOK'
    BY <1>1, <1>3, <2>5, <2>10 DEF LampOK
  <2> QED
    BY <2>15, <2>16, <2>17, <2>18, <2>19, <2>20, <2>21 DEF IInv
<1> QED
  BY <1>2, <1>3 DEF OnLookup, Resolver_Ask

\* The head is taken off a queue.
LEMMA TakeHead ==
    ASSUME NEW S, NEW q \in Seq(S), q # <<>>, NoDup(q)
    PROVE  /\ Head(q) \in Elems(q) /\ Head(q) \in S /\ Tail(q) \in Seq(S) /\ NoDup(Tail(q))
           /\ Elems(Tail(q)) = Elems(q) \ {Head(q)}
<1> DEFINE t == Tail(q)
<1>1. /\ t \in Seq(S) /\ 1 \in DOMAIN q /\ Head(q) = q[1] /\ q[1] \in S
      /\ \A k \in DOMAIN t : k \in Nat /\ k >= 1 /\ k + 1 \in DOMAIN q /\ t[k] = q[k + 1]
      /\ \A k \in DOMAIN q : k \in Nat /\ (k = 1 \/ (k - 1 \in DOMAIN t /\ q[k] = t[k - 1]))
  OBVIOUS
<1> HIDE DEF t
<1>2. NoDup(t)
  <2>1. ASSUME NEW m \in DOMAIN t, NEW n \in DOMAIN t, t[m] = t[n] PROVE m = n
    <3>1. m \in Nat /\ n \in Nat /\ q[m + 1] = q[n + 1] /\ m + 1 \in DOMAIN q /\ n + 1 \in DOMAIN q
      BY <1>1, <2>1
    <3>2. m + 1 = n + 1
      BY <3>1 DEF NoDup
    <3> QED
      BY <3>1, <3>2
  <2> QED
    BY <2>1 DEF NoDup
<1>3. ASSUME NEW y \in Elems(t) PROVE y \in Elems(q) /\ y # Head(q)
  <2>1. PICK k \in DOMAIN t : y = t[k]
    BY DEF Elems
  <2>2. k \in Nat /\ k + 1 \in DOMAIN q /\ y = q[k + 1] /\ k + 1 # 1
    BY <1>1, <2>1
  <2>3. q[k + 1] # q[1]
    BY <1>1, <2>2 DEF NoDup
  <2> QED
    BY <1>1, <2>2, <2>3 DEF Elems
<1>4. ASSUME NEW y \in Elems(q), y # Head(q) PROVE y \in Elems(t)
  BY <1>1, <1>4 DEF Elems
<1>5. Head(q) \in Elems(q)
  BY <1>1 DEF Elems
<1> QED
  BY <1>1, <1>2, <1>3, <1>4, <1>5 DEF t

\* What a turn of the pump collects and starts.
LEMMA ProcessIs ==
    ASSUME IInv, DnsProcess
    PROVE  LET i == entry[lookup].data
           IN  /\ \A x \in Entries : entry'[x] = IF Complete /\ x = lookup THEN Free ELSE entry[x]
               /\ entry' \in [Entries -> Entry]
               /\ pending' \in [Instances -> SUBSET Asked] /\ outstanding' \in [Instances -> Nat]
               /\ Complete /\ i \in live =>
                     /\ pending'[i] = {p \in pending[i] : p.handle # lookup}
                     /\ outstanding'[i] = IF outstanding[i] > 0 THEN outstanding[i] - 1 ELSE 0
               /\ \A k \in Instances : ~(Complete /\ i \in live /\ k = i) =>
                     pending'[k] = pending[k] /\ outstanding'[k] = outstanding[k]
               /\ \/ ~Complete /\ lookup' = lookup /\ queue' = queue /\ thread' = thread
                  \/ Complete /\ queue = <<>> /\ lookup' = None /\ queue' = queue /\ thread' = None
                  \/ /\ Complete \/ lookup = None
                     /\ queue # <<>> /\ lookup' = Head(queue) /\ queue' = Tail(queue) /\ thread' = "run"
<1> DEFINE i == entry[lookup].data
<1>1. EngineTypeOK /\ QueueOK
  BY DEF IInv, TypeOK
<1>2. /\ entry \in [Entries -> Entry] /\ queue \in Seq(Entries) /\ lookup \in Entries \cup {None}
      /\ pending \in [Instances -> SUBSET Asked] /\ outstanding \in [Instances -> Nat] /\ live \subseteq Instances
  BY <1>1 DEF EngineTypeOK
<1>3. Complete => lookup # None /\ lookup \in Entries
  BY <1>2 DEF Complete
<1>4. /\ \A x \in Entries : entry'[x] = IF Complete /\ x = lookup THEN Free ELSE entry[x]
      /\ entry' \in [Entries -> Entry]
  <2>1. CASE Complete
    <3>1. entry' = [entry EXCEPT ![lookup] = Free]
      BY <2>1 DEF DnsProcess
    <3> QED
      BY <1>2, <1>3, <2>1, <3>1, FreeIdle
  <2>2. CASE ~Complete
    <3>1. entry' = entry
      BY <2>2 DEF DnsProcess
    <3> QED
      BY <1>2, <2>2, <3>1
  <2> QED
    BY <2>1, <2>2
<1>5. /\ pending' \in [Instances -> SUBSET Asked] /\ outstanding' \in [Instances -> Nat]
      /\ Complete /\ i \in live =>
            /\ pending'[i] = {p \in pending[i] : p.handle # lookup}
            /\ outstanding'[i] = IF outstanding[i] > 0 THEN outstanding[i] - 1 ELSE 0
      /\ \A k \in Instances : ~(Complete /\ i \in live /\ k = i) =>
            pending'[k] = pending[k] /\ outstanding'[k] = outstanding[k]
  <2>1. CASE Complete /\ Dns_Answer(lookup)
    <3>1. /\ i \in live /\ i \in Instances
          /\ outstanding' = [outstanding EXCEPT ![i] = IF @ > 0 THEN @ - 1 ELSE 0]
          /\ pending' = [pending EXCEPT ![i] = {p \in @ : p.handle # lookup}]
      BY <1>2, <2>1 DEF Dns_Answer, Forget
    <3> HIDE DEF i
    <3>2. /\ outstanding' \in [Instances -> Nat] /\ pending' \in [Instances -> SUBSET Asked]
          /\ pending'[i] = {p \in pending[i] : p.handle # lookup}
          /\ outstanding'[i] = IF outstanding[i] > 0 THEN outstanding[i] - 1 ELSE 0
          /\ \A j \in Instances : j # i => pending'[j] = pending[j] /\ outstanding'[j] = outstanding[j]
      BY <1>2, <3>1
    <3> QED
      BY <2>1, <3>1, <3>2
  <2>2. CASE ~(Complete /\ entry[lookup].data \in live) /\ UNCHANGED <<outstanding, pending>>
    BY <1>2, <2>2
  <2> QED
    BY <2>1, <2>2 DEF DnsProcess
<1>6. \/ ~Complete /\ lookup' = lookup /\ queue' = queue /\ thread' = thread
      \/ Complete /\ queue = <<>> /\ lookup' = None /\ queue' = queue /\ thread' = None
      \/ /\ Complete \/ lookup = None
         /\ queue # <<>> /\ lookup' = Head(queue) /\ queue' = Tail(queue) /\ thread' = "run"
  <2> DEFINE next == IF Complete \/ lookup = None THEN IF queue = <<>> THEN None ELSE Head(queue)
                     ELSE lookup
  <2>1. /\ lookup' = next /\ queue' = IF next # lookup /\ queue # <<>> THEN Tail(queue) ELSE queue
        /\ thread' = IF next = lookup THEN thread ELSE IF next = None THEN None ELSE "run"
    BY DEF DnsProcess
  <2>2. queue # <<>> => Head(queue) \in Elems(queue) /\ Head(queue) \in Entries
    BY <1>1, <1>2, TakeHead DEF QueueOK
  <2>3. queue # <<>> => Head(queue) # lookup /\ Head(queue) # None
    BY <1>1, <2>2, DnsAssumption DEF QueueOK
  <2>4. CASE queue = <<>>
    BY <1>3, <2>1, <2>4
  <2>5. CASE queue # <<>>
    BY <2>1, <2>3, <2>5
  <2> QED
    BY <2>4, <2>5
<1> QED
  BY <1>4, <1>5, <1>6

\* A pump turns: a lookup that is over is forgotten, the next one is started, and
\* the pump goes on while something is owed.
LEMMA PumpInv ==
    ASSUME IInv, NEW i \in Instances, Pump(i)
    PROVE  IInv'
<1> DEFINE j == entry[lookup].data
<1>1. /\ EngineTypeOK /\ TypeOK /\ QueueOK /\ AskedOK /\ ThreadOK /\ PumpOK /\ OwedOK /\ LampOK
      /\ UNCHANGED <<enabled, live, slipped>> /\ DnsProcess /\ Dns_Poll(i)
  BY DEF IInv, TypeOK, Pump, Dns_Poll
<1>2. /\ \A x \in Entries : entry'[x] = IF Complete /\ x = lookup THEN Free ELSE entry[x]
      /\ entry' \in [Entries -> Entry]
      /\ pending' \in [Instances -> SUBSET Asked] /\ outstanding' \in [Instances -> Nat]
      /\ Complete /\ j \in live =>
            /\ pending'[j] = {p \in pending[j] : p.handle # lookup}
            /\ outstanding'[j] = IF outstanding[j] > 0 THEN outstanding[j] - 1 ELSE 0
      /\ \A k \in Instances : ~(Complete /\ j \in live /\ k = j) =>
            pending'[k] = pending[k] /\ outstanding'[k] = outstanding[k]
  BY <1>1, ProcessIs
<1>3. \/ ~Complete /\ lookup' = lookup /\ queue' = queue /\ thread' = thread
      \/ Complete /\ queue = <<>> /\ lookup' = None /\ queue' = queue /\ thread' = None
      \/ /\ Complete \/ lookup = None
         /\ queue # <<>> /\ lookup' = Head(queue) /\ queue' = Tail(queue) /\ thread' = "run"
  BY <1>1, ProcessIs
<1>4. /\ entry \in [Entries -> Entry] /\ queue \in Seq(Entries) /\ lookup \in Entries \cup {None}
      /\ pending \in [Instances -> SUBSET Asked] /\ outstanding \in [Instances -> Nat]
      /\ armed \in [Instances -> Nat] /\ live \subseteq Instances /\ state \in [Instances -> Shown]
      /\ address \in [Instances -> {None, "junk", "true"}]
      /\ \A k \in Instances : \A p \in pending[k] : p.handle \in Entries
  BY <1>1 DEF EngineTypeOK, TypeOK, Shown, Asked
<1>5. Complete => lookup # None /\ lookup \in Entries /\ thread = "exited"
  BY <1>4 DEF Complete
<1>6. queue # <<>> => /\ Head(queue) \in Elems(queue) /\ Head(queue) \in Entries
                      /\ Tail(queue) \in Seq(Entries) /\ NoDup(Tail(queue))
                      /\ Elems(Tail(queue)) = Elems(queue) \ {Head(queue)}
  BY <1>1, <1>4, TakeHead DEF QueueOK
<1>7. \A x \in Elems(queue) : x \in Entries /\ entry'[x] = entry[x]
  <2>1. Elems(queue) \subseteq Entries /\ lookup \notin Elems(queue)
    BY <1>1, <1>4 DEF Elems, QueueOK
  <2> QED
    BY <1>2, <2>1
<1>8. QueueOK' /\ queue' \in Seq(Entries)
  <2>1. CASE ~Complete /\ lookup' = lookup /\ queue' = queue
    BY <1>1, <1>4, <1>7, <2>1 DEF QueueOK
  <2>2. CASE queue = <<>> /\ lookup' = None /\ queue' = queue
    <3>1. Elems(queue) = {}
      BY <2>2 DEF Elems
    <3> QED
      BY <1>1, <1>4, <2>2, <3>1 DEF QueueOK
  <2>3. CASE queue # <<>> /\ lookup' = Head(queue) /\ queue' = Tail(queue)
    BY <1>1, <1>6, <1>7, <2>3 DEF QueueOK
  <2> QED
    BY <1>3, <2>1, <2>2, <2>3
<1>9. AskedOK'
  <2>1. ASSUME NEW x \in Entries, entry'[x].wanted
        PROVE  entry'[x].data \in Instances /\ \E p \in pending'[entry'[x].data] : p.handle = x
    <3>1. ~(Complete /\ x = lookup) /\ entry'[x] = entry[x]
      <4>1. ~Free.wanted
        BY DEF Free
      <4> QED
        BY <1>2, <2>1, <4>1
    <3>2. PICK p \in pending[entry[x].data] : p.handle = x
      BY <1>1, <2>1, <3>1 DEF AskedOK
    <3>3. entry[x].data \in Instances
      BY <1>1, <2>1, <3>1 DEF AskedOK
    <3>4. p \in pending'[entry[x].data]
      BY <1>2, <3>1, <3>2, <3>3
    <3> QED
      BY <3>1, <3>2, <3>3, <3>4
  <2>2. ASSUME NEW k \in Instances, NEW p \in pending'[k]
        PROVE  p \in pending[k] /\ ~(Complete /\ p.handle = lookup)
    <3>1. CASE Complete /\ j \in live /\ k = j
      BY <1>2, <3>1
    <3>2. CASE ~(Complete /\ j \in live /\ k = j)
      <4>1. p \in pending[k]
        BY <1>2, <3>2
      <4>2. k \in live /\ entry[p.handle].data = k
        BY <1>1, <4>1 DEF AskedOK
      <4> QED
        BY <3>2, <4>1, <4>2
    <3> QED
      BY <3>1, <3>2
  <2>3. ASSUME NEW k \in Instances, NEW p \in pending'[k]
        PROVE  entry'[p.handle].wanted /\ entry'[p.handle].data = k /\ entry'[p.handle].host = p.host
    <3>1. p \in pending[k] /\ entry'[p.handle] = entry[p.handle]
      BY <1>2, <1>4, <2>2
    <3> QED
      BY <1>1, <3>1 DEF AskedOK
  <2>4. \A k \in Instances : k \notin live' => pending'[k] = {}
    BY <1>1, <1>2 DEF AskedOK
  <2> QED
    BY <2>1, <2>3, <2>4 DEF AskedOK
<1>10. ThreadOK'
  <2>1. CASE ~Complete /\ lookup' = lookup /\ thread' = thread
    <3>1. lookup = None <=> thread = None
      BY <1>1 DEF ThreadOK
    <3>2. CASE lookup = None
      BY <2>1, <3>1, <3>2 DEF ThreadOK, None
    <3>3. CASE lookup # None
      <4>1. entry'[lookup] = entry[lookup]
        BY <1>2, <1>4, <2>1, <3>3
      <4> QED
        BY <1>1, <2>1, <4>1 DEF ThreadOK
    <3> QED
      BY <3>2, <3>3
  <2>2. CASE lookup' = None /\ thread' = None
    BY <2>2 DEF ThreadOK, None
  <2>3. CASE queue # <<>> /\ lookup' = Head(queue) /\ thread' = "run"
    <3>1. entry'[Head(queue)].state = "processing" /\ Head(queue) # None
      BY <1>1, <1>6, <1>7, <2>3, DnsAssumption DEF QueueOK
    <3> QED
      BY <2>3, <3>1 DEF ThreadOK, None
  <2> QED
    BY <1>3, <2>1, <2>2, <2>3
<1>11. /\ armed[i] = 1
       /\ armed' \in [Instances -> Nat] /\ armed'[i] = IF outstanding'[i] > 0 THEN 1 ELSE 0
       /\ \A k \in Instances : k # i => armed'[k] = armed[k]
  <2>1. armed[i] = 1
    <3>1. armed[i] > 0 /\ armed[i] = IF scheduled[i] THEN 1 ELSE 0
      BY <1>1 DEF Dns_Poll, PumpOK
    <3> QED
      BY <3>1
  <2>2. armed' = [armed EXCEPT ![i] = armed[i] - 1 + IF outstanding'[i] > 0 THEN 1 ELSE 0]
    BY <1>1 DEF Dns_Poll, Arms
  <2> DEFINE a == armed[i] - 1 + IF outstanding'[i] > 0 THEN 1 ELSE 0
  <2>3. a \in Nat /\ a = IF outstanding'[i] > 0 THEN 1 ELSE 0
    BY <2>1
  <2> HIDE DEF a
  <2>4. armed' = [armed EXCEPT ![i] = a]
    BY <2>2 DEF a
  <2> QED
    BY <1>4, <2>1, <2>3, <2>4
<1>12. /\ scheduled' \in [Instances -> BOOLEAN] /\ scheduled'[i] = (outstanding'[i] > 0)
       /\ \A k \in Instances : k # i => scheduled'[k] = scheduled[k]
  <2>1. scheduled \in [Instances -> BOOLEAN]
    BY <1>1 DEF EngineTypeOK
  <2>2. scheduled' = [scheduled EXCEPT ![i] = (outstanding'[i] > 0)]
    BY <1>1 DEF Dns_Poll, Arms
  <2> DEFINE b == (outstanding'[i] > 0)
  <2>3. b \in BOOLEAN
    OBVIOUS
  <2> HIDE DEF b
  <2>4. scheduled' = [scheduled EXCEPT ![i] = b]
    BY <2>2 DEF b
  <2>5. /\ scheduled' \in [Instances -> BOOLEAN] /\ scheduled'[i] = b
        /\ \A k \in Instances : k # i => scheduled'[k] = scheduled[k]
    BY <2>1, <2>3, <2>4
  <2> QED
    BY <2>5 DEF b
<1>13. PumpOK'
  <2>1. ASSUME NEW k \in Instances
        PROVE  /\ outstanding'[k] > 0 => scheduled'[k]
               /\ armed'[k] = IF scheduled'[k] THEN 1 ELSE 0
    <3>1. CASE k = i
      BY <1>11, <1>12, <3>1
    <3>2. CASE k # i
      <4>1. armed'[k] = armed[k] /\ scheduled'[k] = scheduled[k]
        BY <1>11, <1>12, <3>2
      <4>2. outstanding'[k] > 0 => outstanding[k] > 0
        BY <1>2, <1>4
      <4>3. /\ outstanding[k] > 0 => scheduled[k]
            /\ armed[k] = IF scheduled[k] THEN 1 ELSE 0
        BY <1>1 DEF PumpOK
      <4> QED
        BY <4>1, <4>2, <4>3
    <3> QED
      BY <3>1, <3>2
  <2> QED
    BY <2>1 DEF PumpOK
<1>14. OwedOK'
  <2>1. ASSUME NEW k \in Instances PROVE IsFiniteSet(pending'[k])
    <3>1. pending'[k] \subseteq pending[k] /\ IsFiniteSet(pending[k])
      BY <1>1, <1>2 DEF OwedOK
    <3> QED
      BY <3>1, FS_Subset
  <2>2. ASSUME ~slipped', NEW k \in Instances PROVE outstanding'[k] = Cardinality(pending'[k])
    <3>1. outstanding[k] = Cardinality(pending[k]) /\ IsFiniteSet(pending[k])
      BY <1>1, <2>2 DEF OwedOK
    <3>2. CASE Complete /\ j \in live /\ k = j
      <4>1. entry[lookup].wanted
        BY <1>1, <1>5, <2>2, <3>2 DEF OwedOK
      <4>2. PICK p \in pending[j] : p.handle = lookup
        BY <1>1, <1>5, <3>2, <4>1 DEF AskedOK
      <4>3. ASSUME NEW q \in pending[j], q.handle = lookup PROVE q = p
        <5> HIDE DEF j
        <5> QED
          BY <1>1, <3>2, <4>2, <4>3, HandleUnique
      <4>4. pending'[j] = pending[j] \ {p}
        BY <1>2, <3>2, <4>2, <4>3
      <4>5. Cardinality(pending[j] \ {p}) = Cardinality(pending[j]) - 1
        BY <3>1, <3>2, <4>2, FS_RemoveElement
      <4>6. Cardinality(pending[j]) # 0
        BY <3>1, <3>2, <4>2, FS_EmptySet
      <4> QED
        BY <1>2, <1>4, <3>1, <3>2, <4>4, <4>5, <4>6
    <3>3. CASE ~(Complete /\ j \in live /\ k = j)
      BY <1>2, <3>1, <3>3
    <3> QED
      BY <3>2, <3>3
  <2>3. ASSUME ~slipped', lookup' # None, entry'[lookup'].data \in live' PROVE entry'[lookup'].wanted
    <3>1. CASE ~Complete /\ lookup' = lookup
      <4>1. entry'[lookup] = entry[lookup]
        BY <1>2, <1>4, <2>3, <3>1
      <4> QED
        BY <1>1, <2>3, <3>1, <4>1 DEF OwedOK
    <3>2. CASE queue # <<>> /\ lookup' = Head(queue)
      BY <1>1, <1>6, <1>7, <3>2 DEF QueueOK
    <3> QED
      BY <1>3, <2>3, <3>1, <3>2
  <2> QED
    BY <2>1, <2>2, <2>3 DEF OwedOK
<1>15. \/ state' = state /\ address' = address /\ ~(Complete /\ Delivers(lookup))
       \/ /\ Complete /\ Delivers(lookup) /\ j \in live
          /\ \E addr \in {None, "junk", "true"} :
               /\ state' = [state EXCEPT ![j] = [lamp |-> IF addr = None THEN "notfound" ELSE "found",
                                                 host |-> entry[lookup].host]]
               /\ address' = [address EXCEPT ![j] = addr]
  <2>1. CASE Complete /\ Delivers(lookup)
    <3> DEFINE a == IF entry[lookup].state = "found" THEN entry[lookup].addr ELSE None
    <3>1. a \in {None, "junk", "true"}
      BY <1>4, <1>5, <2>1 DEF Entry
    <3>2. /\ state' = [state EXCEPT ![j] = [lamp |-> IF a = None THEN "notfound" ELSE "found",
                                            host |-> entry[lookup].host]]
          /\ address' = [address EXCEPT ![j] = a]
      BY <2>1 DEF Pump, OnAnswer
    <3>3. j \in live
      BY <2>1 DEF Delivers
    <3> HIDE DEF a, j
    <3> QED
      BY <2>1, <3>1, <3>2, <3>3
  <2>2. CASE ~(Complete /\ Delivers(lookup))
    BY <2>2 DEF Pump
  <2> QED
    BY <2>1, <2>2
<1>16. state' \in [Instances -> Shown] /\ address' \in [Instances -> {None, "junk", "true"}] /\ LampOK'
  <2>1. CASE state' = state /\ address' = address /\ ~(Complete /\ Delivers(lookup))
    <3>1. ASSUME NEW k \in Instances PROVE pending[k] # {} => pending'[k] # {}
      <4>1. CASE Complete /\ j \in live /\ k = j
        <5>1. \A p \in pending[j] : p.handle # lookup
          BY <2>1, <4>1 DEF Delivers, Remembers
        <5> QED
          BY <1>2, <4>1, <5>1
      <4>2. CASE ~(Complete /\ j \in live /\ k = j)
        BY <1>2, <4>2
      <4> QED
        BY <4>1, <4>2
    <3> QED
      BY <1>1, <1>4, <2>1, <3>1 DEF LampOK
  <2>2. CASE /\ Complete /\ j \in live
             /\ \E addr \in {None, "junk", "true"} :
                  /\ state' = [state EXCEPT ![j] = [lamp |-> IF addr = None THEN "notfound" ELSE "found",
                                                    host |-> entry[lookup].host]]
                  /\ address' = [address EXCEPT ![j] = addr]
    <3>1. PICK addr \in {None, "junk", "true"} :
                  /\ state' = [state EXCEPT ![j] = [lamp |-> IF addr = None THEN "notfound" ELSE "found",
                                                    host |-> entry[lookup].host]]
                  /\ address' = [address EXCEPT ![j] = addr]
      BY <2>2
    <3> DEFINE v == [lamp |-> IF addr = None THEN "notfound" ELSE "found", host |-> entry[lookup].host]
    <3>2. entry[lookup].host \in Hosts \cup {None}
      BY <1>4, <1>5, <2>2 DEF Entry
    <3>3. v \in Shown /\ v.lamp # "looking"
      BY <3>2 DEF Shown
    <3>4. state' = [state EXCEPT ![j] = v] /\ address' = [address EXCEPT ![j] = addr] /\ j \in Instances
      BY <1>4, <2>2, <3>1
    <3> HIDE DEF v, j
    <3>5. /\ state' \in [Instances -> Shown] /\ address' \in [Instances -> {None, "junk", "true"}]
          /\ state'[j] = v /\ \A k \in Instances : k # j => state'[k] = state[k]
      BY <1>4, <3>1, <3>3, <3>4
    <3>6. LampOK'
      BY <1>1, <1>2, <3>3, <3>5 DEF LampOK
    <3> QED
      BY <3>5, <3>6
  <2> QED
    BY <1>15, <2>1, <2>2
<1>17. TypeOK'
  <2>1. /\ lookup' \in Entries \cup {None}
        /\ thread' \in {None, "run", "named", "flagged", "done", "exited"}
    BY <1>1, <1>3, <1>6 DEF EngineTypeOK
  <2>2. EngineTypeOK'
    BY <1>1, <1>2, <1>8, <1>11, <1>12, <2>1 DEF EngineTypeOK
  <2> QED
    BY <1>1, <1>16, <2>2 DEF TypeOK, Shown
<1> QED
  BY <1>8, <1>9, <1>10, <1>13, <1>14, <1>16, <1>17 DEF IInv

\* Every step of the panels, the engine and the worker keeps the invariant.
LEMMA NextInv == IInv /\ [Next]_vars => IInv'
<1> SUFFICES ASSUME IInv, [Next]_vars PROVE IInv'
  OBVIOUS
<1>1. CASE Work
  BY <1>1, WorkInv
<1>2. ASSUME NEW i \in Instances, Place(i) \/ Discard(i) \/ Pump(i)
      PROVE  IInv'
  BY <1>2, PlaceInv, DiscardInv, PumpInv
<1>3. ASSUME NEW i \in Instances, NEW h \in Hosts \cup {None}, OnLookup(i, h) \/ OnCancel(i, h)
      PROVE  IInv'
  BY <1>3, LookupInv, CancelInv
<1>4. ASSUME NEW i \in Instances, NEW v \in BOOLEAN, OnEnable(i, v)
      PROVE  IInv'
  BY <1>4, EnableInv
<1>5. CASE UNCHANGED vars
  BY <1>5 DEF vars, engine, panel, IInv, TypeOK, EngineTypeOK, QueueOK, AskedOK, ThreadOK, PumpOK,
              OwedOK, LampOK
<1> QED
  BY <1>1, <1>2, <1>3, <1>4, <1>5 DEF Next

-----------------------------------------------------------------------------
(* The theorems *)

\* The invariant holds of every behaviour, whatever the fairness.
THEOREM ResolverInv == Spec => []IInv
<1>1. Spec => Init /\ [][Next]_vars
  BY PTL DEF Spec
<1> QED
  BY <1>1, InitInv, NextInv, PTL

\* Type correctness of panels and engine.
THEOREM ResolverTypes == Spec => []TypeOK
<1>1. IInv => TypeOK
  BY DEF IInv
<1> QED
  BY <1>1, ResolverInv, PTL

\* No pointer into freed memory, over every order of asking, cancelling,
\* discarding, worker writes and pump turns: what waits, runs or is remembered
\* is an entry in use, in one place, and belongs to whoever remembers it.
THEOREM NothingFreedIsUsed == Spec => []NoFreedEntry
<1>1. ASSUME IInv PROVE NoFreedEntry
  <2>1. EngineTypeOK /\ QueueOK /\ AskedOK /\ ThreadOK
    BY <1>1 DEF IInv, TypeOK
  <2>2. ASSUME NEW n \in 1 .. Len(queue)
        PROVE  entry[queue[n]].state = "processing" /\ entry[queue[n]].data \in live
    <3>1. queue[n] \in Elems(queue) /\ queue[n] \in Entries
      BY <2>1 DEF EngineTypeOK, Elems
    <3>2. entry[queue[n]].state = "processing" /\ entry[queue[n]].wanted
      BY <2>1, <3>1 DEF QueueOK
    <3> QED
      BY <2>1, <3>1, <3>2 DEF AskedOK
  <2>3. lookup # None => entry[lookup].state # "free"
    BY <2>1 DEF ThreadOK, EngineTypeOK
  <2> QED
    BY <2>1, <2>2, <2>3 DEF NoFreedEntry, QueueOK, AskedOK
<1> QED
  BY <1>1, ResolverInv, PTL

\* An instance that is owed answers has its pump armed, exactly once, unless a
\* running lookup slipped; and Busy is lit only while something is owed.
THEOREM OwedPumped == Spec => []OwedIsPumpedAndShown
<1>1. ASSUME IInv PROVE OwedIsPumpedAndShown
  <2>1. EngineTypeOK /\ PumpOK /\ OwedOK /\ LampOK
    BY <1>1 DEF IInv, TypeOK
  <2>2. ASSUME ~slipped, NEW i \in live, pending[i] # {} PROVE armed[i] = 1
    <3>1. i \in Instances /\ outstanding[i] \in Nat
      BY <2>1 DEF EngineTypeOK
    <3>2. IsFiniteSet(pending[i]) /\ outstanding[i] = Cardinality(pending[i])
      BY <2>1, <2>2, <3>1 DEF OwedOK
    <3>3. outstanding[i] > 0
      BY <2>2, <3>1, <3>2, FS_EmptySet
    <3> QED
      BY <2>1, <3>1, <3>3 DEF PumpOK
  <2>3. \A i \in live : Busy(i) => pending[i] # {}
    BY <2>1 DEF EngineTypeOK, LampOK, Busy
  <2> QED
    BY <2>2, <2>3 DEF OwedIsPumpedAndShown, OwedIsPumped
<1> QED
  BY <1>1, ResolverInv, PTL

\* When the engine is done with an entry, the panel that asked shows the answer
\* to the name it asked for, fully written; an answer nobody wants changes no
\* panel, even when its address was taken over.
THEOREM AnswersGoHome == Spec => AnswerGoesHome
<1> DEFINE Home == lookup # None /\ lookup' # lookup =>
                     IF entry[lookup].wanted
                     THEN /\ state'[entry[lookup].data] = [lamp |-> entry[lookup].state, host |-> entry[lookup].host]
                          /\ address'[entry[lookup].data] = IF entry[lookup].state = "found" THEN "true" ELSE None
                     ELSE UNCHANGED <<panel, pending>>
<1>1. ASSUME IInv, [Next]_vars PROVE [Home]_vars
  <2> SUFFICES ASSUME lookup # None, lookup' # lookup PROVE Home
    OBVIOUS
  <2>1. PICK i \in Instances : Pump(i)
    BY <1>1 DEF Next, vars, engine, Work, Worker, Place, Discard, InstanceStart, InstanceEnd, OnLookup,
                Resolver_Ask, Dns_Lookup, OnCancel, Dns_Cancel, OnEnable
  <2> DEFINE j == entry[lookup].data
  <2>2. Complete /\ DnsProcess /\ UNCHANGED <<enabled, live>>
    BY <2>1 DEF Pump, Dns_Poll, DnsProcess
  <2>3. EngineTypeOK /\ TypeOK /\ AskedOK /\ ThreadOK /\ lookup \in Entries /\ thread = "exited"
    BY <1>1, <2>2 DEF IInv, TypeOK, EngineTypeOK, Complete
  <2>4. CASE entry[lookup].wanted
    <3>1. j \in Instances /\ Remembers(pending[j], lookup)
      BY <2>3, <2>4 DEF AskedOK, Remembers
    <3>2. j \in live
      BY <2>3, <3>1 DEF AskedOK, Remembers
    <3>3. Delivers(lookup)
      BY <3>1, <3>2 DEF Delivers
    <3> DEFINE a == IF entry[lookup].state = "found" THEN entry[lookup].addr ELSE None
    <3>4. /\ state' = [state EXCEPT ![j] = [lamp |-> IF a = None THEN "notfound" ELSE "found",
                                            host |-> entry[lookup].host]]
          /\ address' = [address EXCEPT ![j] = a]
      BY <2>1, <2>2, <3>3 DEF Pump, OnAnswer
    <3>5. \/ entry[lookup].state = "notfound"
          \/ entry[lookup].state = "found" /\ entry[lookup].addr = "true"
      BY <2>3 DEF ThreadOK
    <3>6. /\ a = IF entry[lookup].state = "found" THEN "true" ELSE None
          /\ entry[lookup].state = IF a = None THEN "notfound" ELSE "found"
      BY <3>5 DEF None
    <3>7. state \in [Instances -> Shown] /\ address \in [Instances -> {None, "junk", "true"}]
      BY <2>3 DEF TypeOK, Shown
    <3> HIDE DEF a, j
    <3>8. /\ state'[j] = [lamp |-> IF a = None THEN "notfound" ELSE "found", host |-> entry[lookup].host]
          /\ address'[j] = a
      BY <3>1, <3>4, <3>7
    <3> QED
      BY <2>4, <3>6, <3>8 DEF j
  <2>5. CASE ~entry[lookup].wanted
    <3>1. \A k \in Instances : \A p \in pending[k] : p.handle # lookup
      BY <2>3, <2>5 DEF AskedOK
    <3>2. ~Delivers(lookup)
      BY <2>3, <3>1 DEF Delivers, Remembers, EngineTypeOK
    <3>3. UNCHANGED panel
      BY <2>1, <2>2, <3>2 DEF Pump, panel
    <3>4. pending' = pending
      <4>1. CASE Dns_Answer(lookup)
        <5>1. j \in Instances /\ pending' = [pending EXCEPT ![j] = Forget(@, lookup)]
          BY <2>3, <4>1 DEF Dns_Answer, EngineTypeOK
        <5>2. Forget(pending[j], lookup) = pending[j]
          BY <3>1, <5>1 DEF Forget
        <5>3. pending \in [Instances -> SUBSET Asked]
          BY <2>3 DEF EngineTypeOK
        <5> QED
          BY <5>1, <5>2, <5>3
      <4>2. CASE UNCHANGED <<outstanding, pending>>
        BY <4>2
      <4> QED
        BY <2>2, <4>1, <4>2 DEF DnsProcess
    <3> QED
      BY <2>5, <3>3, <3>4
  <2> QED
    BY <2>4, <2>5
<1>2. Spec => [][Next]_vars
  BY PTL DEF Spec
<1>3. [][Home]_vars => AnswerGoesHome
  BY DEF AnswerGoesHome
<1> QED
  BY <1>1, <1>2, <1>3, ResolverInv, PTL
==============================================================================
