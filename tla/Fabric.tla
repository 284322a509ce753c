------------------------------- MODULE Fabric --------------------------------
(***************************************************************************)
(* The message fabric of src/src/object.c and src/src/node.c at the level  *)
(* of the records it keeps.  A wire is two records: a Subscriber in the    *)
(* property list of its source and a Subscription in that of its sink,     *)
(* each naming the other end by instance pointer and property name.  A     *)
(* link is a pointer to a property node and, apart from it, the instance   *)
(* pointer LinkInst.  An envelope names the instance that sent it and the  *)
(* property node it goes out of.  DispatchMsg walks the live list of that  *)
(* node with a cursor, across the handlers it calls.                       *)
(*                                                                         *)
(* The code leaves two rules to its clients.  No handler removes the       *)
(* record it was called through or deletes the instance at either end of   *)
(* it (Reentrant lets it).  No property that something links to becomes a  *)
(* link itself (Relink lets it).                                           *)
(***************************************************************************)
EXTENDS WireEnds, Lists

CONSTANTS Reentrant, Relink

\* A null record pointer is not a Subscriber record.
ASSUME FabricAssumption ==
    /\ Reentrant \in BOOLEAN /\ Relink \in BOOLEAN
    /\ NULL \notin [inst : Insts, port : Ports, callback : BOOLEAN]

VARIABLES alive,    \* the instances that exist
          handles,  \* the properties with an OnMsg
          subs,     \* Subscriber records of each property, newest first
          backs,    \* Subscription records of each property, newest first
          link,     \* the property node each property links to
          linkInst, \* LinkInst of each property
          queued,    \* envelopes in the main task list
          runnow,    \* envelopes in runnow
          outPort,  \* the property of the envelope being dispatched
          cursor,   \* the Subscriber record DispatchMsg is at
          stage     \* "idle", "walk" or "handler"

fabricVars == <<alive, handles, subs, backs, link, linkInst, queued, runnow, outPort,
                cursor, stage>>

Subscriber == [inst : Insts, port : Ports, callback : BOOLEAN]
Subscription == [inst : Insts, port : Ports]
Envelope == [inst : Insts, port : Ends \cup {NULL}]

\* The end a record names.
EndOf(r) == <<r.inst, r.port>>

-----------------------------------------------------------------------------
(* Links *)

Hop(e) == IF link[e] = NULL THEN e ELSE link[e]

\* ResolveNode gives up after eight hops.
ResolveNode(e) == Hop(Hop(Hop(Hop(Hop(Hop(Hop(Hop(e))))))))

\* Faulty variant of ResolvePort: the node alone is resolved.
ResolvePortNodeOnly(e) == [owner |-> e[1], node |-> ResolveNode(e)]

\* ResolvePort, and ResolveOwned for plain writes: the node at the end of the
\* chain, with the owner that the first hop records.
ResolvePort(e) ==
    [owner |-> IF link[e] # NULL /\ linkInst[e] # NULL THEN linkInst[e] ELSE e[1],
     node  |-> ResolveNode(e)]

-----------------------------------------------------------------------------
(* Records *)

\* The Subscriber records that name an end, and those that name an instance.
SubscribersTo(f) == {r \in Subscriber : EndOf(r) = f}
SubscribersOf(i) == {r \in Subscriber : r.inst = i}
SubscriptionsOf(i) == {r \in Subscription : r.inst = i}

\* The record that Connect has AddSubscription make: its Callback is the OnMsg
\* of the sink's property, if it has one.
NewSubscriber(to) == [inst |-> to.owner, port |-> to.node[2], callback |-> to.node \in handles]

\* Faulty variant of AddSubscription: new records go to the tail.
AddSubscriptionTail(S, fromNode, to) ==
    LET rec == NewSubscriber(to)
    IN  IF \E r \in Elems(S[fromNode]) : EndOf(r) = EndOf(rec) THEN S
        ELSE [S EXCEPT ![fromNode] = Append(@, rec)]

\* The list with the callback of a wire's record noted.
NoteCallback(s, rec) ==
    [k \in DOMAIN s |-> IF EndOf(s[k]) = EndOf(rec) /\ rec.callback
                        THEN [s[k] EXCEPT !.callback = TRUE] ELSE s[k]]

\* AddSubscription adds to the head of both lists, unless the Subscriber record
\* is there; then a handler that came later is recorded in it.
AddSubscription(S, fromNode, to) ==
    LET rec == NewSubscriber(to)
    IN  [S EXCEPT ![fromNode] = IF \E r \in Elems(@) : EndOf(r) = EndOf(rec)
                                THEN NoteCallback(@, rec) ELSE <<rec>> \o @]

AddSubscriptionBack(B, toNode, from) ==
    LET rec == [inst |-> from.owner, port |-> from.node[2]]
    IN  IF rec \in Elems(B[toNode]) THEN B ELSE [B EXCEPT ![toNode] = <<rec>> \o @]

\* The Wiring property of the sink's owner is written: that fans out like any
\* write, and so does a plain store.
Envelopes(S, e) ==
    LET to == ResolvePort(e)
    IN  IF S[to.node] = <<>> THEN <<>> ELSE <<[inst |-> to.owner, port |-> to.node]>>

\* What a walk of s that is at the record of c has still to reach: c itself until
\* the handler behind it has been called.
Reach(s, c, p) ==
    {EndOf(s[k]) : k \in {j \in DOMAIN s : \E i \in 1 .. j : EndOf(s[i]) = c /\ (i < j \/ p = "walk")}}

\* The wires the running dispatch has still to reach.
ToReach == IF outPort = NULL \/ cursor = NULL THEN {} ELSE Reach(subs[outPort], EndOf(cursor), stage)

\* Clients leave room for what the running dispatch may still store.
Room == Len(queued) + Len(runnow) + Cardinality(ToReach) < MaxSends

-----------------------------------------------------------------------------
FabricInit ==
    /\ alive = {} /\ handles = {}
    /\ subs = [e \in Ends |-> <<>>] /\ backs = [e \in Ends |-> <<>>]
    /\ link = [e \in Ends |-> NULL] /\ linkInst = [e \in Ends |-> NULL]
    /\ queued = <<>> /\ runnow = <<>>
    /\ outPort = NULL /\ cursor = NULL /\ stage = "idle"

FabricTurn == stage \in {"idle", "handler"}

\* CreateObject and RegisterInstance.
Create(i) ==
    /\ FabricTurn /\ i \notin alive
    /\ alive' = alive \cup {i}
    /\ UNCHANGED <<handles, subs, backs, link, linkInst, queued, runnow, outPort, cursor, stage>>

Stamp(e) ==
    /\ FabricTurn /\ e[1] \in alive /\ e \notin handles
    /\ handles' = handles \cup {e}
    /\ UNCHANGED <<alive, subs, backs, link, linkInst, queued, runnow, outPort, cursor, stage>>

Connect(e, f) ==
    LET from == ResolvePort(e)
        to == ResolvePort(f)
        known == \E r \in Elems(subs[from.node]) : EndOf(r) = <<to.owner, to.node[2]>>
    IN  /\ FabricTurn /\ Room /\ e[1] \in alive /\ f[1] \in alive
        /\ subs' = AddSubscription(subs, from.node, to)
        /\ backs' = IF known THEN backs ELSE AddSubscriptionBack(backs, to.node, from)
        /\ queued' = queued \o Envelopes(subs', <<to.owner, WiringPort>>)
        /\ UNCHANGED <<alive, handles, link, linkInst, runnow, outPort, cursor, stage>>

\* A handler is running and r is the record it was called through.
Underfoot(e, r) == stage = "handler" /\ outPort = e /\ EndOf(cursor) = EndOf(r)

\* Faulty variant of Disconnect: the source's record goes, the sink's stays.
DisconnectOneEnd(e, f) ==
    LET from == ResolvePort(e)
        to == ResolvePort(f)
    IN  /\ FabricTurn /\ Room /\ e[1] \in alive /\ f[1] \in alive
        /\ subs' = [subs EXCEPT ![from.node] =
                      Without(@, SubscribersTo(<<to.owner, to.node[2]>>))]
        /\ UNCHANGED <<alive, handles, backs, link, linkInst, queued, runnow, outPort, cursor, stage>>

Disconnect(e, f) ==
    LET from == ResolvePort(e)
        to == ResolvePort(f)
        out == [inst |-> to.owner, port |-> to.node[2]]
        back == [inst |-> from.owner, port |-> from.node[2]]
    IN  /\ FabricTurn /\ Room /\ e[1] \in alive /\ f[1] \in alive
        /\ \E r \in Elems(subs[from.node]) : EndOf(r) = EndOf(out)
        /\ Underfoot(from.node, out) => Reentrant
        /\ subs' = [subs EXCEPT ![from.node] = Without(@, SubscribersTo(EndOf(out)))]
        /\ backs' = [backs EXCEPT ![to.node] = Without(@, {back})]
        /\ queued' = queued \o Envelopes(subs', <<to.owner, WiringPort>>)
        /\ UNCHANGED <<alive, handles, link, linkInst, runnow, outPort, cursor, stage>>

LinkPropertyAs(e, f) ==
    LET target == ResolvePort(f)
    IN  /\ FabricTurn /\ e[1] \in alive /\ f[1] \in alive
        /\ target.node # e
        /\ (\E x \in Ends : link[x] = e) => Relink
        /\ link' = [link EXCEPT ![e] = target.node]
        /\ linkInst' = [linkInst EXCEPT ![e] = target.owner]
        /\ UNCHANGED <<alive, handles, subs, backs, queued, runnow, outPort, cursor, stage>>

\* SetPropStr and its kin on a property that exists.
SetProp(e) ==
    /\ FabricTurn /\ Room /\ e[1] \in alive
    /\ queued' = queued \o Envelopes(subs, e)
    /\ UNCHANGED <<alive, handles, subs, backs, link, linkInst, runnow, outPort, cursor, stage>>

SndMsg(e) ==
    LET out == ResolvePort(e)
    IN  /\ FabricTurn /\ Room /\ e[1] \in alive
        /\ queued' = Append(queued, [inst |-> out.owner, port |-> out.node])
        /\ UNCHANGED <<alive, handles, subs, backs, link, linkInst, runnow, outPort, cursor, stage>>

-----------------------------------------------------------------------------
(* DeleteInstance *)

\* The Subscriber records that the dying i takes down: those on the properties
\* its own Subscription records name, then whatever the sweep of the registry
\* still finds.  Its own lists go with it.
ScrubSubscribers(S, i) ==
    [e \in Ends |-> IF e[1] = i THEN <<>> ELSE Without(S[e], SubscribersOf(i))]

\* The Subscription records it takes down: those of i on the properties its own
\* Subscriber records name.  Nothing sweeps for the rest.
ScrubSubscriptions(B, S, i) ==
    LET sinks == UNION {{EndOf(r) : r \in Elems(S[e])} : e \in {x \in Ends : x[1] = i}}
    IN  [e \in Ends |-> IF e[1] = i THEN <<>>
                        ELSE IF e \in sinks THEN Without(B[e], SubscriptionsOf(i)) ELSE B[e]]

\* Links whose LinkInst is i, and i's own.
ScrubLinks(i, F) ==
    [e \in Ends |-> IF e[1] = i \/ (link[e] # NULL /\ linkInst[e] = i) THEN NULL ELSE F[e]]

\* Faulty variant of CancelPendingSends: no envelope is matched.
CancelNothing(s, i) == s

CancelPendingSends(s, i) ==
    [k \in DOMAIN s |-> IF s[k].inst = i THEN [s[k] EXCEPT !.port = NULL] ELSE s[k]]

DeleteInstance(i) ==
    /\ FabricTurn /\ i \in alive
    /\ ~Reentrant /\ stage = "handler" => outPort[1] # i /\ cursor.inst # i
    /\ alive' = alive \ {i}
    /\ handles' = {e \in handles : e[1] # i}
    /\ subs' = ScrubSubscribers(subs, i)
    /\ backs' = ScrubSubscriptions(backs, subs, i)
    /\ link' = ScrubLinks(i, link) /\ linkInst' = ScrubLinks(i, linkInst)
    /\ queued' = CancelPendingSends(queued, i)
    /\ runnow' = CancelPendingSends(runnow, i)
    /\ UNCHANGED <<outPort, cursor, stage>>

-----------------------------------------------------------------------------
(* Dispatch *)

TakeTick ==
    /\ stage = "idle" /\ runnow = <<>> /\ queued # <<>>
    /\ runnow' = queued /\ queued' = <<>>
    /\ UNCHANGED <<alive, handles, subs, backs, link, linkInst, outPort, cursor, stage>>

First(e) == IF subs[e] = <<>> THEN NULL ELSE Head(subs[e])

\* DispatchMsg up to its loop.
Dispatch ==
    /\ stage = "idle" /\ runnow # <<>>
    /\ Head(runnow).port # NULL =>
          Len(queued) + Len(runnow) + Len(subs[Head(runnow).port]) <= MaxSends + 1
    /\ runnow' = Tail(runnow)
    /\ IF Head(runnow).port = NULL THEN UNCHANGED <<outPort, cursor, stage>>
       ELSE /\ outPort' = Head(runnow).port /\ stage' = "walk"
            /\ cursor' = First(Head(runnow).port)
    /\ UNCHANGED <<alive, handles, subs, backs, link, linkInst, queued>>

\* The record after the cursor in the list as it is now; a cursor that has been
\* freed leads nowhere.
AfterCursor ==
    IF \E k \in DOMAIN subs[outPort] : k < Len(subs[outPort]) /\ EndOf(subs[outPort][k]) = EndOf(cursor)
    THEN LET k == CHOOSE k \in DOMAIN subs[outPort] : EndOf(subs[outPort][k]) = EndOf(cursor)
         IN  subs[outPort][k + 1]
    ELSE NULL

\* DeliverToSubscriber: a handler, recorded in the wire or found on the property,
\* is called; otherwise the value is stored and that write fans out.
Deliver ==
    /\ stage = "walk" /\ cursor # NULL
    /\ IF cursor.callback \/ EndOf(cursor) \in handles
       THEN stage' = "handler" /\ UNCHANGED <<queued, cursor>>
       ELSE /\ queued' = queued \o Envelopes(subs, EndOf(cursor))
            /\ cursor' = AfterCursor /\ UNCHANGED stage
    /\ UNCHANGED <<alive, handles, subs, backs, link, linkInst, runnow, outPort>>

HandlerReturn ==
    /\ stage = "handler" /\ stage' = "walk"
    /\ cursor' = AfterCursor
    /\ UNCHANGED <<alive, handles, subs, backs, link, linkInst, queued, runnow, outPort>>

DispatchEnd ==
    /\ stage = "walk" /\ cursor = NULL /\ stage' = "idle" /\ outPort' = NULL
    /\ UNCHANGED <<alive, handles, subs, backs, link, linkInst, queued, runnow, cursor>>

FabricNext ==
    \/ \E i \in Insts : Create(i) \/ DeleteInstance(i)
    \/ \E e \in Handled : Stamp(e)
    \/ \E w \in Wirable : Connect(w[1], w[2]) \/ Disconnect(w[1], w[2])
    \/ \E l \in Linkable : LinkPropertyAs(l[1], l[2])
    \/ \E e \in Written : SetProp(e) \/ SndMsg(e)
    \/ TakeTick \/ Dispatch \/ Deliver \/ HandlerReturn \/ DispatchEnd

FabricSpec == FabricInit /\ [][FabricNext]_fabricVars

\* Handlers return, and ExecTasks calls DispatchMsg until runnow is empty.
FabricFairness == WF_fabricVars(HandlerReturn) /\ WF_fabricVars(Deliver \/ DispatchEnd)

-----------------------------------------------------------------------------
(* Properties *)

\* Type correctness of the records and of the dispatcher.
FabricTypeOK ==
    /\ alive \subseteq Insts /\ handles \subseteq Ends
    /\ subs \in [Ends -> Seq(Subscriber)] /\ backs \in [Ends -> Seq(Subscription)]
    /\ link \in [Ends -> Ends \cup {NULL}] /\ linkInst \in [Ends -> Insts \cup {NULL}]
    /\ queued \in Seq(Envelope) /\ runnow \in Seq(Envelope)
    /\ outPort \in Ends \cup {NULL} /\ cursor \in Subscriber \cup {NULL}
    /\ stage \in {"idle", "walk", "handler"}

\* A wire is two records, one at each end, each there once (object.c:2176-2193:
\* Connect keeps the two ends in step by construction; 2232: the same wire twice
\* delivers every message twice).
WireSymmetry ==
    /\ \A e, f \in Ends :
          (\E r \in Elems(subs[e]) : EndOf(r) = f) <=> (\E r \in Elems(backs[f]) : EndOf(r) = e)
    /\ \A e \in Ends : /\ Cardinality({EndOf(r) : r \in Elems(subs[e])}) = Len(subs[e])
                       /\ Cardinality({EndOf(r) : r \in Elems(backs[e])}) = Len(backs[e])

\* An envelope that still has its property names the instance that owns it, which
\* is what CancelPendingSends goes by (object.c:3021-3023).
EnvelopeOwner ==
    \A x \in Elems(queued) \cup Elems(runnow) : x.port # NULL => x.port[1] = x.inst

\* No record, link or envelope leads to an instance that has been freed
\* (object.c:3849-3861).
NoFreedTarget ==
    /\ \A e \in Ends : /\ \A r \in Elems(subs[e]) \cup Elems(backs[e]) : {e[1], r.inst} \subseteq alive
                       /\ link[e] # NULL => {e[1], link[e][1], linkInst[e]} \subseteq alive
    /\ \A x \in Elems(queued) \cup Elems(runnow) : x.port # NULL => x.port[1] \in alive

\* When a handler returns, DispatchMsg goes on from the record it called through
\* (object.c:2908), so that record and the property it is on still exist.
CursorLive ==
    stage = "handler" => /\ outPort[1] \in alive
                         /\ \E r \in Elems(subs[outPort]) : EndOf(r) = EndOf(cursor)

\* A dispatch comes to its end whatever its handlers wire and unwire.
DispatchEnds == stage # "idle" ~> stage = "idle"

\* The record lists implement the sets of Wiring: a message reaches every wire
\* that was there when its dispatch began and is not removed before its turn,
\* each once, and no wire made meanwhile; what is written, deleted and linked in
\* between is as Wiring says.
Wires == {w \in Ends \X Ends : \E r \in Elems(subs[w[1]]) : EndOf(r) = w[2]}
Outport(s) == [k \in DOMAIN s |-> s[k].port]
Abstract == INSTANCE Wiring WITH
    wires <- Wires,
    queue <- Outport(queued), batch <- Outport(runnow), cur <- outPort,
    pending <- ToReach, phase <- stage

ImplementsWiring == Abstract!Spec
==============================================================================
