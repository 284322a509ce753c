--------------------------------- MODULE Dns ---------------------------------
(***************************************************************************)
(* The DNS engine (src/objects/dns/dns.c): a queue of lookups shared by    *)
(* all DNS instances, one worker thread that does one lookup at a time,    *)
(* and a pump per instance that collects the answers on the main thread.   *)
(*                                                                         *)
(* Instances and entries are addresses, which the allocator hands out      *)
(* again: an instance or an entry that comes to life where an old one was  *)
(* is the same to whoever kept the pointer.  `armed` counts the            *)
(* AddTaskMilli calls on an instance's task that have not fired.           *)
(*                                                                         *)
(* The worker and the main thread share the entry without a lock, so the   *)
(* order in which the worker's two writes become visible is not fixed;     *)
(* DnsProcess waits for the thread's end (pthread_join) before it reads    *)
(* the address.  The main thread is blocked meanwhile, which is the same   *)
(* as polling later.                                                       *)
(*                                                                         *)
(* Two things here are history: `wanted`, that whoever asked for an entry  *)
(* is alive and has not cancelled it, and `slipped`, that the lookup       *)
(* running at the time was cancelled or its instance's address reused.     *)
(***************************************************************************)
EXTENDS Naturals, Lists

CONSTANTS Instances,  \* addresses of DNS instances
          Hosts,      \* the names asked for
          Entries     \* bound: addresses of lookup entries, so at most these wait

VARIABLES entry,      \* [Entries -> entry record]
          queue,      \* dnshead .. dnstail
          lookup,     \* the entry being looked up, or None
          thread,     \* how far its worker is
          live,       \* LiveRing
          pending, outstanding, scheduled,  \* InstanceData
          armed, slipped

engine == <<entry, queue, lookup, thread, live, pending, outstanding, scheduled,
            armed, slipped>>
idle   == <<pending, outstanding, scheduled, armed>>

None == "none"

\* A null pointer is nobody's address, and the empty name is not asked for.
ASSUME DnsAssumption == None \notin Instances \cup Entries \cup Hosts

Free == [state |-> "free", host |-> None, addr |-> None, data |-> None, wanted |-> FALSE]

Entry == [state : {"free", "processing", "found", "notfound"}, host : Hosts \cup {None},
          addr : {None, "junk", "true"}, data : Instances \cup {None}, wanted : BOOLEAN]
Asked == [handle : Entries, host : Hosts]

EngineTypeOK ==
    /\ entry \in [Entries -> Entry]
    /\ queue \in Seq(Entries) /\ lookup \in Entries \cup {None}
    /\ thread \in {None, "run", "named", "flagged", "done", "exited"}
    /\ live \subseteq Instances /\ slipped \in BOOLEAN
    /\ pending \in [Instances -> SUBSET Asked]
    /\ outstanding \in [Instances -> Nat] /\ scheduled \in [Instances -> BOOLEAN]
    /\ armed \in [Instances -> Nat]

EngineInit ==
    /\ entry = [x \in Entries |-> Free] /\ queue = <<>>
    /\ lookup = None /\ thread = None /\ live = {} /\ slipped = FALSE
    /\ pending = [i \in Instances |-> {}] /\ outstanding = [i \in Instances |-> 0]
    /\ scheduled = [i \in Instances |-> FALSE] /\ armed = [i \in Instances |-> 0]

-----------------------------------------------------------------------------
(* The worker thread: mylookupdns *)

\* A name the resolver does not know, or no name at all: only the state is set.
WorkerMisses ==
    /\ thread = "run" /\ thread' = "done"
    /\ entry' = [entry EXCEPT ![lookup].state = "notfound"]

\* A name or a dotted address: the address and then the state are written,
\* seen by the main thread in either order.
WorkerFinds ==
    \/ /\ thread \in {"run", "flagged"}
       /\ thread' = IF thread = "run" THEN "named" ELSE "done"
       /\ entry' = [entry EXCEPT ![lookup].addr = "true"]
    \/ /\ thread \in {"run", "named"}
       /\ thread' = IF thread = "run" THEN "flagged" ELSE "done"
       /\ entry' = [entry EXCEPT ![lookup].state = "found"]

WorkerExits == thread = "done" /\ thread' = "exited" /\ UNCHANGED entry

Worker ==
    /\ WorkerMisses \/ WorkerFinds \/ WorkerExits
    /\ UNCHANGED <<queue, lookup, live, idle, slipped>>

-----------------------------------------------------------------------------
(* The queue *)

Forget(ps, x) == {p \in ps : p.handle # x}
Remembers(ps, x) == \E p \in ps : p.handle = x

\* DnsAddLookup and Dns_Remember: a new entry at the tail, and who asked for it.
\* Entries are only ever compared, so which free one it is makes no difference.
Dns_Lookup(i, h) ==
    /\ i \in live
    /\ \E y \in Entries : entry[y] = Free
    /\ LET x == CHOOSE y \in Entries : entry[y] = Free
       IN  /\ entry' = [entry EXCEPT ![x] = [state |-> "processing", host |-> h,
                                             addr |-> "junk", data |-> i, wanted |-> TRUE]]
           /\ queue' = Append(queue, x)
           /\ pending' = [pending EXCEPT ![i] = @ \cup {[handle |-> x, host |-> h]}]
    /\ outstanding' = [outstanding EXCEPT ![i] = @ + 1]
    /\ armed' = [armed EXCEPT ![i] = IF scheduled[i] THEN @ ELSE @ + 1]
    /\ scheduled' = [scheduled EXCEPT ![i] = TRUE]
    /\ UNCHANGED <<lookup, thread, live, slipped>>

\* DnsDelLookup on a set of entries: what waits is unlinked and freed, what is
\* running stays, and nobody wants it any more.
DnsDelLookup(xs) ==
    /\ queue' = Without(queue, xs)
    /\ entry' = [x \in Entries |-> IF x \notin xs THEN entry[x]
                                   ELSE IF x = lookup THEN [entry[x] EXCEPT !.wanted = FALSE]
                                   ELSE Free]

\* Dns_Cancel: every lookup of that name is forgotten, and its answer no
\* longer counted as owed.
Dns_Cancel(i, h) ==
    /\ i \in live
    /\ LET ps == {p \in pending[i] : p.host = h}
           n  == Cardinality(ps)
       IN  /\ DnsDelLookup({p.handle : p \in ps})
           /\ slipped' = (slipped \/ Remembers(ps, lookup))
           /\ pending' = [pending EXCEPT ![i] = @ \ ps]
           /\ outstanding' = [outstanding EXCEPT ![i] = IF @ > n THEN @ - n ELSE 0]
    /\ UNCHANGED <<lookup, thread, live, scheduled, armed>>

-----------------------------------------------------------------------------
(* The pump *)

\* Is entry x, whose lookup is over, handed to the instance it was made for?
Delivers(x) == entry[x].data \in live /\ Remembers(pending[entry[x].data], x)

\* Faulty variant: the thread's end is not awaited.
CompleteUnjoined == lookup # None /\ entry[lookup].state # "processing"

\* A finished lookup that can be collected: DnsProcess joins the thread.
Complete == lookup # None /\ entry[lookup].state # "processing" /\ thread = "exited"

\* Would DnsProcess have to wait for the thread?
Joining == lookup # None /\ entry[lookup].state # "processing" /\ ~Complete

\* Dns_Answer: an instance that is alive counts the answer off, and takes it
\* only if it still remembers having asked (Delivers).
Dns_Answer(x) ==
    LET i == entry[x].data
    IN  /\ i \in live
        /\ outstanding' = [outstanding EXCEPT ![i] = IF @ > 0 THEN @ - 1 ELSE 0]
        /\ pending' = [pending EXCEPT ![i] = Forget(@, x)]

\* DnsProcess: collect a finished lookup and start the next one waiting.
DnsProcess ==
    LET next == IF Complete \/ lookup = None THEN IF queue = <<>> THEN None ELSE Head(queue)
                ELSE lookup
    IN  /\ \/ Complete /\ Dns_Answer(lookup)
           \/ /\ ~(Complete /\ entry[lookup].data \in live)
              /\ UNCHANGED <<outstanding, pending>>
        /\ entry' = IF Complete THEN [entry EXCEPT ![lookup] = Free] ELSE entry
        /\ lookup' = next
        /\ queue' = IF next # lookup /\ queue # <<>> THEN Tail(queue) ELSE queue
        /\ thread' = IF next = lookup THEN thread ELSE IF next = None THEN None ELSE "run"

\* Faulty variants: the pump looks at what was owed before it collected; it
\* is armed for ever.
ArmsBefore(i) == outstanding[i] > 1
ArmsAlways(i) == TRUE

\* The pump goes on while answers are owed.
Arms(i) == outstanding'[i] > 0

Dns_Poll(i) ==
    /\ armed[i] > 0 /\ ~Joining
    /\ DnsProcess
    /\ armed' = [armed EXCEPT ![i] = @ - 1 + IF Arms(i) THEN 1 ELSE 0]
    /\ scheduled' = [scheduled EXCEPT ![i] = Arms(i)]
    /\ UNCHANGED <<live, slipped>>

-----------------------------------------------------------------------------
(* Instances come and go *)

InstanceStart(i) ==
    /\ i \notin live /\ live' = live \cup {i}
    /\ slipped' = (slipped \/ (lookup # None /\ entry[lookup].data = i))
    /\ UNCHANGED <<entry, queue, lookup, thread, idle>>

\* Faulty variant: what the instance asked for stays in the queue.
InstanceEndLeavesQueue(i) ==
    /\ i \in live /\ live' = live \ {i}
    /\ entry' = [x \in Entries |-> IF entry[x].data = i THEN [entry[x] EXCEPT !.wanted = FALSE]
                                   ELSE entry[x]]
    /\ pending' = [pending EXCEPT ![i] = {}]
    /\ outstanding' = [outstanding EXCEPT ![i] = 0]
    /\ scheduled' = [scheduled EXCEPT ![i] = FALSE] /\ armed' = [armed EXCEPT ![i] = 0]
    /\ UNCHANGED <<queue, lookup, thread, slipped>>

\* InstanceEnd: queued lookups go, the task is deleted, the instance leaves
\* the ring.
InstanceEnd(i) ==
    /\ i \in live /\ live' = live \ {i}
    /\ DnsDelLookup({p.handle : p \in pending[i]})
    /\ pending' = [pending EXCEPT ![i] = {}]
    /\ outstanding' = [outstanding EXCEPT ![i] = 0]
    /\ scheduled' = [scheduled EXCEPT ![i] = FALSE] /\ armed' = [armed EXCEPT ![i] = 0]
    /\ UNCHANGED <<lookup, thread, slipped>>
==============================================================================
