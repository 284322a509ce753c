----------------------------- MODULE BridgeTaps ------------------------------
(***************************************************************************)
(* The bridge's taps (src/objects/bridge/bridge.c): what its clients watch *)
(* and how they are told.  A name is an instance watched at its Value, an  *)
(* original or a control whose Value is a link to an original's.  The node *)
(* of a name stands for the address of its own Value property; a name that *)
(* is created again after its deletion reuses the address.                 *)
(*                                                                         *)
(* A tap is a record [target, node, conns]: who was asked for, the node it *)
(* resolved to and the connections to tell.  All taps on one node share    *)
(* one Subscriber record there, whose port is the bridge's Taps.  Changes  *)
(* and re-points reach the bridge through the scheduler, first come first  *)
(* served (TaskQueue.Fifo).  What the bridge sends out keeps its order, so *)
(* a client shows what was sent last.                                      *)
(*                                                                         *)
(* Risks says what clients may do that the taps do not cope with:          *)
(*   "share"   re-point a control away from, or onto, a node that another  *)
(*             tap is on or is about to leave                              *)
(*   "orphan"  delete an original that a watched control stands for        *)
(*   "destroy" free a watched thing, or what a watched control stands for, *)
(*             past the bridge, as a script's destroy or a table view that *)
(*             shrinks does                                                *)
(*   "late"    subscribe, or re-point a control, where the bridge has let  *)
(*             go of its record and a change written before that is still  *)
(*             under way: it arrives behind the newer value handed out     *)
(*   "load"    subscribe, delete, or load again, while a load is under way *)
(***************************************************************************)
EXTENDS Lists

CONSTANTS Originals, Aliases, Conns, Written, NULL, Risks,
          MaxQueue, MaxTaps  \* bounds on what is queued and on tap records

ConstantsOK ==
    /\ Originals \cap Aliases = {} /\ NULL \notin Originals \cup Written /\ Written # {}
    /\ Risks \subseteq {"share", "orphan", "destroy", "late", "load"}
    /\ MaxQueue \in Nat /\ MaxTaps \in Nat

TapNames == Originals \cup Aliases

\* What a property holds before anything is written to it.
Default == CHOOSE v \in Written : TRUE

VARIABLES live,     \* the names that exist
          link,     \* what a control's Value is linked to, or NULL
          val,      \* the value held by each node
          subs,     \* the nodes that carry the bridge's Subscriber record
          rel,      \* the controls whose TargetProp is wired to Relink
          taps,     \* the children of the Taps property
          queue,    \* envelopes for the bridge, and the task of a load
          shown,    \* what a connection shows for a name, NULL if it never asked
          victims   \* what a load under way has still to destroy

tapVars == <<live, link, val, subs, rel, taps, queue, shown, victims>>

Init ==
    /\ live = {} /\ link = [c \in Aliases |-> NULL]
    /\ val = [n \in TapNames |-> Default]
    /\ subs = {} /\ rel = {} /\ taps = <<>> /\ queue = <<>>
    /\ shown = [k \in Conns |-> [n \in TapNames |-> NULL]]
    /\ victims = {}

-----------------------------------------------------------------------------
(* What the commands are made of *)

ResolvePort(n) == IF n \in Aliases /\ link[n] # NULL THEN link[n] ELSE n

Tapped == Elems(taps)

\* The value of every name, as a reader sees it now.
Current == [n \in TapNames |-> val[ResolvePort(n)]]

\* The taps in ts send what is said of their name to every connection in their
\* Conns table.
TapEmit(ts, said) ==
    [k \in Conns |-> [n \in TapNames |->
        IF \E t \in ts : t.target = n /\ k \in t.conns THEN said[n] ELSE shown[k][n]]]

\* A write to a node fans out only when somebody subscribed to it; the
\* envelope carries a copy of the value.
FanOut(q, n, value) ==
    IF n \in subs THEN Append(q, [kind |-> "change", from |-> n, value |-> value]) ELSE q

\* The tap that answers for a name: the one recorded for it on this node.  The
\* code compares the path it was asked for under; here nothing is renamed or
\* moved while it is watched, so a path stands for one thing.
FindTap(n) == {i \in DOMAIN taps : taps[i].node = ResolvePort(n) /\ taps[i].target = n}

\* AddChild puts a new record right behind the first.
MakeTap(t) == IF taps = <<>> THEN <<t>> ELSE <<Head(taps), t>> \o Tail(taps)

\* Faulty variant: a dying name's taps stay.
FreeTapsNone(n) == taps

FreeTaps(n) == Without(taps, {t \in Tapped : t.target = n})

\* DeleteInstance: wires and links of n go, what it sent is cancelled.  A node
\* at the same address starts anew.
DeleteInstance(n, q) ==
    /\ live' = live \ {n}
    /\ link' = [c \in Aliases |-> IF c = n \/ link[c] = n THEN NULL ELSE link[c]]
    /\ val' = [val EXCEPT ![n] = Default]
    /\ subs' = subs \ {n} /\ rel' = rel \ {n}
    /\ queue' = Without(q, {e \in Elems(q) : e.from = n})
    /\ shown' = [k \in Conns |-> [shown[k] EXCEPT ![n] = NULL]]

\* load-flow stages the destruction in a task that arms itself again.
Loading == \E i \in DOMAIN queue : queue[i].kind = "destroy"

\* The taps whose name has been re-pointed and that have not followed yet.
Leaving == {t \in Tapped : t.node # ResolvePort(t.target)}

\* Another name's tap is on the node, or about to be.
Shared(n, node) == \E t \in Tapped : t.target # n /\ (t.node = node \/ ResolvePort(t.target) = node)

\* What is under way from a node is what a reader will go on to hear.
Fresh(node) == node \in subs \/ \A e \in Elems(queue) : e.from # node

-----------------------------------------------------------------------------
(* Commands and what other parts of the program do *)

Create(n) ==
    /\ n \in Originals \ live /\ live' = live \cup {n}
    /\ UNCHANGED <<link, val, subs, rel, taps, queue, shown, victims>>

CreateAlias(c, o) ==
    /\ c \in Aliases \ live /\ o \in Originals \cap live
    /\ live' = live \cup {c} /\ link' = [link EXCEPT ![c] = o]
    /\ UNCHANGED <<val, subs, rel, taps, queue, shown, victims>>

\* A client, a script or an object writes the Value of a name.
Write(n, v) ==
    /\ n \in live /\ Len(queue) < MaxQueue
    /\ val' = [val EXCEPT ![ResolvePort(n)] = v]
    /\ queue' = FanOut(queue, ResolvePort(n), v)
    /\ UNCHANGED <<live, link, subs, rel, taps, shown, victims>>

\* A table view that scrolls makes a control stand for another cell: the link
\* moves, TargetProp is written, and the cell's own value is written through
\* the control.
Point(c, o) ==
    /\ c \in Aliases \cap live /\ o \in Originals \cap live
    /\ Len(queue) < MaxQueue
    /\ "share" \in Risks \/
         /\ \A t \in {u \in Tapped : u.target = c} : ~Shared(c, t.node)
         /\ \A t \in Leaving : t.target # c => t.node # o
    /\ "late" \in Risks \/ Fresh(o)
    /\ link' = [link EXCEPT ![c] = o]
    /\ queue' = FanOut(IF c \in rel THEN Append(queue, [kind |-> "relink", from |-> c])
                       ELSE queue, o, val[o])
    /\ UNCHANGED <<live, val, subs, rel, taps, shown, victims>>

\* One connection starts watching a name and is handed the value it has.
Subscribe(k, n) ==
    /\ n \in live
    /\ "share" \in Risks \/ \A t \in Leaving : t.target # n => t.node # ResolvePort(n)
    /\ "late" \in Risks \/ Fresh(ResolvePort(n))
    /\ "load" \in Risks \/ ~Loading
    /\ \/ \E i \in FindTap(n) :
            /\ \A j \in FindTap(n) : i <= j
            /\ taps' = [taps EXCEPT ![i].conns = @ \cup {k}]
            /\ shown' = TapEmit({taps'[i]}, Current)
            /\ UNCHANGED <<subs, rel>>
       \/ LET fresh == [target |-> n, node |-> ResolvePort(n), conns |-> {k}]
          IN  /\ FindTap(n) = {} /\ Len(taps) < MaxTaps
              /\ taps' = MakeTap(fresh)
              /\ subs' = subs \cup {fresh.node}
              /\ rel' = rel \cup ({n} \cap Aliases)
              /\ shown' = TapEmit({fresh}, Current)
    /\ UNCHANGED <<live, link, val, queue, victims>>

\* delete-instance: the taps of the name first, then the instance.
Delete(n) ==
    /\ n \in live
    /\ "orphan" \in Risks \/ ~Shared(n, n)
    /\ "load" \in Risks \/ ~Loading
    /\ taps' = FreeTaps(n)
    /\ DeleteInstance(n, queue) /\ UNCHANGED victims

\* Freed past the bridge: a script's destroy, or a table view's spare cells.
Destroy(n) ==
    /\ n \in live
    /\ "destroy" \in Risks \/ ~\E t \in Tapped : n \in {t.node, t.target, ResolvePort(t.target)}
    /\ "load" \in Risks \/ ~Loading
    /\ DeleteInstance(n, queue) /\ UNCHANGED <<taps, victims>>

\* load-flow: every tap is let go of, through the links as they are now; then
\* what the container holds is destroyed, one instance a tick.
LoadFlow ==
    /\ "load" \in Risks \/ ~Loading
    /\ Len(queue) < MaxQueue
    /\ \E contents \in SUBSET live : victims' = victims \cup contents
    /\ subs' = subs \ {ResolvePort(t.target) : t \in Tapped}
    /\ taps' = <<>>
    /\ queue' = Append(queue, [kind |-> "destroy", from |-> NULL])
    /\ shown' = [k \in Conns |-> [n \in TapNames |-> NULL]]
    /\ UNCHANGED <<live, link, val, rel>>

-----------------------------------------------------------------------------
(* What the scheduler delivers *)

\* What the head of the queue says, of whatever name.
Told == [n \in TapNames |-> Head(queue).value]

\* Faulty variant: the walk ends at the first tap on the node.
TapOnInFirst ==
    /\ queue # <<>> /\ Head(queue).kind = "change" /\ queue' = Tail(queue)
    /\ LET hit == {i \in DOMAIN taps : taps[i].node = Head(queue).from}
       IN  shown' = IF Head(queue).from \notin subs THEN shown
                    ELSE TapEmit({taps[i] : i \in {j \in hit : \A m \in hit : j <= m}}, Told)
    /\ UNCHANGED <<live, link, val, subs, rel, taps, victims>>

\* A change: every tap on that node is owed it, under its own name.  The
\* record may have gone since the write.
TapOnIn ==
    /\ queue # <<>> /\ Head(queue).kind = "change" /\ queue' = Tail(queue)
    /\ shown' = IF Head(queue).from \notin subs THEN shown
                ELSE TapEmit({t \in Tapped : t.node = Head(queue).from}, Told)
    /\ UNCHANGED <<live, link, val, subs, rel, taps, victims>>

\* The nodes that carry the record after a walk of the taps: one that moves
\* drops the record at its old node by address, whoever else is on that node,
\* and connects at its new one.
Reconnected ==
    LET moving == {i \in DOMAIN taps : taps[i] \in Leaving}
        left(n) == {i \in moving : taps[i].node = n}
    IN  {n \in TapNames :
            \/ n \in subs /\ left(n) = {}
            \/ \E i \in moving : ResolvePort(taps[i].target) = n /\ \A j \in left(n) : j < i}

\* Every tap follows its name, whichever re-point is told of.
Relink ==
    /\ queue # <<>> /\ Head(queue).kind = "relink" /\ queue' = Tail(queue)
    /\ subs' = Reconnected
    /\ taps' = [i \in DOMAIN taps |-> [taps[i] EXCEPT !.node = ResolvePort(taps[i].target)]]
    /\ shown' = TapEmit(Leaving, Current)
    /\ UNCHANGED <<live, link, val, rel, victims>>

\* One victim, whichever the registry names next, and the task again; without
\* a victim left the load is over.
DestroyContentsStep ==
    /\ queue # <<>> /\ Head(queue).kind = "destroy"
    /\ \/ /\ victims = {} /\ queue' = Tail(queue)
          /\ UNCHANGED <<live, link, val, subs, rel, shown, victims>>
       \/ \E n \in victims :
            /\ victims' = victims \ {n}
            /\ DeleteInstance(n, Append(Tail(queue), Head(queue)))
    /\ UNCHANGED taps

Next ==
    \/ \E n \in TapNames :
         \/ Create(n) \/ Delete(n) \/ Destroy(n)
         \/ \E o \in Originals : CreateAlias(n, o) \/ Point(n, o)
         \/ \E v \in Written : Write(n, v)
         \/ \E k \in Conns : Subscribe(k, n)
    \/ LoadFlow \/ TapOnIn \/ Relink \/ DestroyContentsStep

Spec == Init /\ [][Next]_tapVars

-----------------------------------------------------------------------------
(* Properties *)

\* "A tap is recorded on the RESOLVED node, so re-pointing a control at a
\* different property leaves the subscription on the old one: writes land where
\* nobody is listening" (bridge.c, Bridge_Relink): every tap is on a node that
\* exists and carries the bridge's Subscriber record, so that what is written
\* there is heard.
TapsGrounded == \A t \in Tapped : t.target \in live /\ t.node \in live \cap subs

\* Once everything queued has arrived every connection shows the value of what
\* it asked for, under the name it asked for and not another's, however the
\* control was re-pointed, written and watched meanwhile.
ViewsTrue ==
    queue = <<>> => \A k \in Conns, n \in live :
        shown[k][n] # NULL => shown[k][n] = val[ResolvePort(n)]
==============================================================================
