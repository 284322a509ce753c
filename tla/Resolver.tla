------------------------------ MODULE Resolver -------------------------------
(***************************************************************************)
(* Resolver panels (src/objects/resolver/resolver.c), each in front of a   *)
(* DNS instance of its own that lives and dies with it; a panel and its    *)
(* engine are named by one address.  The State line and the lamps Busy and *)
(* Found are always written together and are one value here.  HostName is  *)
(* read only when Lookup or Cancel is pressed and can be typed over at any *)
(* time before: the presses take any name.                                 *)
(***************************************************************************)
EXTENDS Dns

VARIABLES enabled,  \* Enable
          state,    \* State with the name it is about, Busy and Found
          address   \* Address

panel == <<enabled, state, address>>
vars  == <<engine, panel>>

Idle    == [lamp |-> "idle", host |-> None]
Looking == [lamp |-> "looking", host |-> None]

TypeOK ==
    /\ EngineTypeOK
    /\ enabled \in [Instances -> BOOLEAN]
    /\ state \in [Instances -> [lamp : {"idle", "looking", "found", "notfound"},
                               host : Hosts \cup {None}]]
    /\ address \in [Instances -> {None, "junk", "true"}]

Init ==
    /\ EngineInit
    /\ enabled = [i \in Instances |-> TRUE]
    /\ state = [i \in Instances |-> Idle] /\ address = [i \in Instances |-> None]

Busy(i) == state[i].lamp = "looking"

-----------------------------------------------------------------------------
\* The panel is placed and makes its engine; a deleted one takes it along.
Place(i) == InstanceStart(i) /\ UNCHANGED panel

Discard(i) ==
    /\ InstanceEnd(i)
    /\ enabled' = [enabled EXCEPT ![i] = TRUE]
    /\ state' = [state EXCEPT ![i] = Idle] /\ address' = [address EXCEPT ![i] = None]

\* Resolver_Ask: a disabled panel and an empty name ask for nothing.
Resolver_Ask(i, h) ==
    IF enabled[i] /\ h # None
    THEN /\ Dns_Lookup(i, h)
         /\ state' = [state EXCEPT ![i] = Looking]
         /\ address' = [address EXCEPT ![i] = None]
    ELSE UNCHANGED <<engine, state, address>>

\* The Lookup button is pressed, or a name arrives on the In port.
OnLookup(i, h) == i \in live /\ Resolver_Ask(i, h) /\ UNCHANGED enabled

\* Cancel gives up the name that is in the box now.
OnCancel(i, h) ==
    /\ h # None /\ Dns_Cancel(i, h)
    /\ state' = [state EXCEPT ![i] = Idle]
    /\ UNCHANGED <<enabled, address>>

\* Disabling darkens the lamps; lookups under way go on.
OnEnable(i, value) ==
    /\ i \in live /\ enabled' = [enabled EXCEPT ![i] = value]
    /\ state' = IF value THEN state ELSE [state EXCEPT ![i] = Idle]
    /\ UNCHANGED <<engine, address>>

\* The engine calls back with the answer of entry x: the address is empty when
\* nothing was found, and a panel that was disabled since is set like any other.
OnAnswer(i, x) ==
    LET addr == IF entry[x].state = "found" THEN entry[x].addr ELSE None
    IN  /\ state' = [state EXCEPT ![i] =
                        [lamp |-> IF addr = None THEN "notfound" ELSE "found",
                         host |-> entry[x].host]]
        /\ address' = [address EXCEPT ![i] = addr]

\* A pump turns; an answer that is delivered reaches its panel in that step.
Pump(i) ==
    /\ Dns_Poll(i)
    /\ IF Complete /\ Delivers(lookup) THEN OnAnswer(entry[lookup].data, lookup)
       ELSE UNCHANGED <<state, address>>
    /\ UNCHANGED enabled

Work == Worker /\ UNCHANGED panel

Next ==
    \/ Work
    \/ \E i \in Instances :
         \/ Place(i) \/ Discard(i) \/ Pump(i)
         \/ \E h \in Hosts \cup {None} : OnLookup(i, h) \/ OnCancel(i, h)
         \/ \E v \in BOOLEAN : OnEnable(i, v)

\* An armed pump is run by a later tick of the main loop whatever else goes on
\* (strong fairness: a tick that has to join the thread waits, it is not
\* skipped), and the system's resolver gives up on a name in the end, so the
\* thread ends.
Spec == Init /\ [][Next]_vars /\ WF_vars(Work) /\ \A i \in Instances : SF_vars(Pump(i))

-----------------------------------------------------------------------------
(* Properties *)

\* No pointer into freed memory: what waits, runs or is remembered by an
\* instance is an entry in use, each in one place, and an instance remembers
\* only what it asked for itself.
NoFreedEntry ==
    /\ \A n \in 1 .. Len(queue) : /\ entry[queue[n]].state = "processing"
                                  /\ entry[queue[n]].data \in live
    /\ NoDup(queue) /\ lookup \notin Elems(queue)
    /\ lookup # None => entry[lookup].state # "free"
    /\ \A i \in Instances : \A p \in pending[i] :
         entry[p.handle].wanted /\ entry[p.handle].data = i /\ entry[p.handle].host = p.host

\* "Armed when something is asked for, re-armed while answers are owed" (dns.c,
\* above Dns_Poll): an instance with lookups it has not forgotten has its pump
\* armed, once.
OwedIsPumped == \A i \in live : pending[i] # {} => armed[i] = 1

\* Until somebody cancels the very lookup that is running, or takes over the
\* address of the instance that asked for it, that is so; and the Busy lamp is
\* lit only while an answer is owed.
OwedIsPumpedAndShown ==
    (slipped \/ OwedIsPumped) /\ \A i \in live : Busy(i) => pending[i] # {}

\* An answer goes home: when the engine is done with an entry, the panel that
\* asked shows that name's own address, fully written; with its asker gone or
\* the name cancelled no panel changes, whoever lives at that address now.
AnswerGoesHome ==
    [][lookup # None /\ lookup' # lookup =>
         LET x == lookup
             i == entry[x].data
         IN  IF entry[x].wanted
             THEN /\ state'[i] = [lamp |-> entry[x].state, host |-> entry[x].host]
                  /\ address'[i] = IF entry[x].state = "found" THEN "true" ELSE None
             ELSE UNCHANGED <<panel, pending>>]_vars

\* Every name asked for is answered, unless it is cancelled or its panel
\* removed: no lookup is left in the queue with nobody pumping.
EveryAskEnds == []~slipped => \A x \in Entries : entry[x].wanted ~> ~entry[x].wanted

\* An engine nobody waits for schedules nothing and holds no program open.
PumpRests == \A i \in Instances : pending[i] = {} ~> (armed[i] = 0 \/ pending[i] # {})
==============================================================================
