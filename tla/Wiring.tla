------------------------------- MODULE Wiring --------------------------------
(***************************************************************************)
(* What the message fabric of src/src/object.c and src/src/node.c promises *)
(* with its property lists replaced by sets.  An end is a property of an   *)
(* instance; a wire joins two ends; a property may be a link that stands   *)
(* for a property of another instance.  A write or a send queues one       *)
(* envelope per property; a tick takes what is queued and dispatches it    *)
(* one envelope at a time to the wires of its property.  Handlers run to   *)
(* completion and may do whatever a client may.                            *)
(***************************************************************************)
EXTENDS WireEnds, FiniteSets

VARIABLES alive,    \* the instances that exist
          wires,    \* the wires between their properties
          link,     \* the end each property stands for, or NULL
          handles,  \* the ends with a handler
          queue,    \* envelopes sent: the property each was sent out of, NULL once cancelled
          batch,    \* envelopes of the running tick
          cur,      \* the property being dispatched
          pending,  \* the sinks it has still to reach
          phase     \* "idle", "walk" or "handler"

vars == <<alive, wires, link, handles, queue, batch, cur, pending, phase>>

\* An alias stands for the original; anything else for itself.
Resolve(e) == IF link[e] = NULL THEN e ELSE link[e]

SinksOf(W, e) == {w[2] : w \in {x \in W : x[1] = e}}

\* A write queues an envelope when something is wired to the property.
FanOut(W, e, q) == IF SinksOf(W, e) = {} THEN q ELSE Append(q, e)

\* Clients leave room for what the running dispatch may still store.
Room == Len(queue) + Len(batch) + Cardinality(pending) < MaxSends

Init ==
    /\ alive = {} /\ wires = {} /\ handles = {}
    /\ link = [e \in Ends |-> NULL]
    /\ queue = <<>> /\ batch = <<>>
    /\ cur = NULL /\ pending = {} /\ phase = "idle"

\* Client code: tasks of the tick other than dispatch, and handlers.
ClientTurn == phase \in {"idle", "handler"}

Create(i) ==
    /\ ClientTurn /\ i \notin alive
    /\ alive' = alive \cup {i}
    /\ UNCHANGED <<wires, link, handles, queue, batch, cur, pending, phase>>

\* A class puts its handler on a property.
Stamp(e) ==
    /\ ClientTurn /\ e[1] \in alive /\ e \notin handles
    /\ handles' = handles \cup {e}
    /\ UNCHANGED <<alive, wires, link, queue, batch, cur, pending, phase>>

\* Either end may be a link.  The sink hears that its wiring changed, also when
\* the wire was there already.
Connect(e, f) ==
    /\ ClientTurn /\ Room /\ e[1] \in alive /\ f[1] \in alive
    /\ wires' = wires \cup {<<Resolve(e), Resolve(f)>>}
    /\ queue' = FanOut(wires', Resolve(<<Resolve(f)[1], WiringPort>>), queue)
    /\ UNCHANGED <<alive, link, handles, batch, cur, pending, phase>>

Disconnect(e, f) ==
    /\ ClientTurn /\ Room /\ e[1] \in alive /\ f[1] \in alive
    /\ <<Resolve(e), Resolve(f)>> \in wires
    /\ wires' = wires \ {<<Resolve(e), Resolve(f)>>}
    /\ queue' = FanOut(wires', Resolve(<<Resolve(f)[1], WiringPort>>), queue)
    /\ pending' = IF cur = Resolve(e) THEN pending \ {Resolve(f)} ELSE pending
    /\ UNCHANGED <<alive, link, handles, batch, cur, phase>>

\* Making e stand for f.  Nothing stands for e yet.
Link(e, f) ==
    /\ ClientTurn /\ e[1] \in alive /\ f[1] \in alive
    /\ Resolve(f) # e /\ \A x \in Ends : link[x] # e
    /\ link' = [link EXCEPT ![e] = Resolve(f)]
    /\ UNCHANGED <<alive, wires, handles, queue, batch, cur, pending, phase>>

Write(e) ==
    /\ ClientTurn /\ Room /\ e[1] \in alive
    /\ queue' = FanOut(wires, Resolve(e), queue)
    /\ UNCHANGED <<alive, wires, link, handles, batch, cur, pending, phase>>

Send(e) ==
    /\ ClientTurn /\ Room /\ e[1] \in alive
    /\ queue' = Append(queue, Resolve(e))
    /\ UNCHANGED <<alive, wires, link, handles, batch, cur, pending, phase>>

\* s with the sends of i cancelled.
Cancel(s, i) == [k \in DOMAIN s |-> IF s[k] # NULL /\ s[k][1] = i THEN NULL ELSE s[k]]

\* DeleteInstance: wires and links at both ends go, and so do sends in flight.
Delete(i) ==
    /\ ClientTurn /\ i \in alive
    /\ alive' = alive \ {i}
    /\ wires' = {w \in wires : w[1][1] # i /\ w[2][1] # i}
    /\ link' = [e \in Ends |-> IF link[e] = NULL \/ e[1] = i \/ link[e][1] = i
                               THEN NULL ELSE link[e]]
    /\ handles' = {e \in handles : e[1] # i}
    /\ queue' = Cancel(queue, i) /\ batch' = Cancel(batch, i)
    /\ cur' = IF cur # NULL /\ cur[1] = i THEN NULL ELSE cur
    /\ pending' = IF cur # NULL /\ cur[1] = i THEN {} ELSE {s \in pending : s[1] # i}
    /\ UNCHANGED phase

\* A tick collects every send that is queued.
Tick ==
    /\ phase = "idle" /\ batch = <<>> /\ queue # <<>>
    /\ batch' = queue /\ queue' = <<>>
    /\ UNCHANGED <<alive, wires, link, handles, cur, pending, phase>>

\* DispatchMsg begins on the next envelope; a cancelled one is dropped.
Dispatch ==
    /\ phase = "idle" /\ batch # <<>>
    /\ Head(batch) # NULL =>
          Len(queue) + Len(batch) + Cardinality(SinksOf(wires, Head(batch))) <= MaxSends + 1
    /\ batch' = Tail(batch)
    /\ IF Head(batch) = NULL THEN UNCHANGED <<cur, pending, phase>>
       ELSE /\ cur' = Head(batch) /\ pending' = SinksOf(wires, Head(batch))
            /\ phase' = "walk"
    /\ UNCHANGED <<alive, wires, link, handles, queue>>

\* One wire gets the message: the sink's handler is called, or the value is
\* stored, and that write fans out in turn.
Deliver(s) ==
    /\ phase = "walk" /\ s \in pending
    /\ pending' = pending \ {s}
    /\ IF s \in handles THEN phase' = "handler" /\ UNCHANGED queue
       ELSE queue' = FanOut(wires, Resolve(s), queue) /\ UNCHANGED phase
    /\ UNCHANGED <<alive, wires, link, handles, batch, cur>>

HandlerReturn ==
    /\ phase = "handler" /\ phase' = "walk"
    /\ UNCHANGED <<alive, wires, link, handles, queue, batch, cur, pending>>

DispatchEnd ==
    /\ phase = "walk" /\ pending = {} /\ phase' = "idle" /\ cur' = NULL
    /\ UNCHANGED <<alive, wires, link, handles, queue, batch, pending>>

Next ==
    \/ \E i \in Insts : Create(i) \/ Delete(i)
    \/ \E e \in Handled : Stamp(e)
    \/ \E w \in Wirable : Connect(w[1], w[2]) \/ Disconnect(w[1], w[2])
    \/ \E l \in Linkable : Link(l[1], l[2])
    \/ \E e \in Written : Write(e) \/ Send(e)
    \/ Tick \/ Dispatch \/ HandlerReturn \/ DispatchEnd
    \/ \E s \in Ends : Deliver(s)

Spec == Init /\ [][Next]_vars

-----------------------------------------------------------------------------
(* Properties *)

\* Type correctness of the fabric.
TypeOK ==
    /\ alive \subseteq Insts /\ wires \subseteq Ends \X Ends
    /\ link \in [Ends -> Ends \cup {NULL}] /\ handles \subseteq Ends
    /\ queue \in Seq(Ends \cup {NULL}) /\ batch \in Seq(Ends \cup {NULL})
    /\ cur \in Ends \cup {NULL} /\ pending \subseteq Ends
    /\ phase \in {"idle", "walk", "handler"}

Live(e) == e = NULL \/ e[1] \in alive

\* Nothing in the fabric names an instance that is gone: no wire, no link, no
\* envelope that still has its property, no sink a running dispatch has still to
\* reach (object.c:3849-3861: either end of a message may be deleted while it is
\* in flight).
NoDangling ==
    /\ \A w \in wires : Live(w[1]) /\ Live(w[2])
    /\ \A e \in Ends : Live(link[e])
    /\ \A k \in DOMAIN queue : Live(queue[k])
    /\ \A k \in DOMAIN batch : Live(batch[k])
    /\ Live(cur) /\ \A s \in pending : Live(s)

\* A link leads to an original in one hop (object.c:1581: aliasing an alias
\* collapses to the final original at creation, so chains never grow at use time).
OneHop == \A e \in Ends : link[e] # NULL => link[e] # e /\ link[link[e]] = NULL
==============================================================================
