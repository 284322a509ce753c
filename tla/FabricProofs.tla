---------------------------- MODULE FabricProofs -----------------------------
(***************************************************************************)
(* The record lists of the message fabric, for any instances, properties   *)
(* and lists of any length, and for clients that keep the two rules of     *)
(* Fabric (Reentrant = FALSE, Relink = FALSE).  The inductive invariant    *)
(* says of every list which ends it names, rather than which records are   *)
(* where: a wire is named once by each of its two lists, only the living   *)
(* are named, links are one hop long and agree with LinkInst, an envelope  *)
(* belongs to the owner of its property, and the dispatcher's cursor       *)
(* stands in the list that it walks.  With it the lists implement the sets *)
(* of Wiring, step by step.                                                *)
(***************************************************************************)
EXTENDS Fabric, ListProofs

\* The ends a list of records names, and that it names none twice.
Named(s) == {EndOf(s[k]) : k \in DOMAIN s}
Distinct(s) == \A m, n \in DOMAIN s : EndOf(s[m]) = EndOf(s[n]) => m = n

\* The ends that come after c in the list.
After(s, c) == {EndOf(s[k]) : k \in {j \in DOMAIN s : \E i \in DOMAIN s : i < j /\ EndOf(s[i]) = c}}

\* Among the records of a kind, D are those that name an end of X.
Picks(D, S, X) == \A r \in S : r \in D <=> EndOf(r) \in X

-----------------------------------------------------------------------------
(* Lists of records *)

\* A list with another record at its head names one end more.
LEMMA PrependNamed ==
    ASSUME NEW S, NEW s \in Seq(S), NEW r \in S, Distinct(s), EndOf(r) \notin Named(s)
    PROVE  /\ <<r>> \o s \in Seq(S) /\ Distinct(<<r>> \o s)
           /\ Named(<<r>> \o s) = Named(s) \cup {EndOf(r)}
<1> DEFINE t == <<r>> \o s
<1>1. /\ t \in Seq(S) /\ t[1] = r /\ 1 \in DOMAIN t
      /\ \A k \in DOMAIN s : k + 1 \in DOMAIN t /\ t[k + 1] = s[k]
      /\ \A k \in DOMAIN t : k = 1 \/ (k - 1 \in DOMAIN s /\ t[k] = s[k - 1])
  OBVIOUS
<1> HIDE DEF t
<1>2. Named(t) = Named(s) \cup {EndOf(r)}
  <2>1. ASSUME NEW x \in Named(t) PROVE x \in Named(s) \cup {EndOf(r)}
    BY <1>1 DEF Named
  <2>2. ASSUME NEW x \in Named(s) PROVE x \in Named(t)
    <3>1. PICK k \in DOMAIN s : x = EndOf(s[k])
      BY DEF Named
    <3> QED
      BY <1>1, <3>1 DEF Named
  <2>3. EndOf(r) \in Named(t)
    BY <1>1 DEF Named
  <2> QED
    BY <2>1, <2>2, <2>3
<1>3. ASSUME NEW m \in DOMAIN t, NEW n \in DOMAIN t, EndOf(t[m]) = EndOf(t[n])
      PROVE  m = n
  <2>1. m \in Nat /\ n \in Nat
    BY <1>1
  <2>2. CASE m = 1 /\ n # 1
    BY <1>1, <1>3, <2>2 DEF Named
  <2>3. CASE n = 1 /\ m # 1
    BY <1>1, <1>3, <2>3 DEF Named
  <2>4. CASE m # 1 /\ n # 1
    BY <1>1, <1>3, <2>1, <2>4 DEF Distinct
  <2> QED
    BY <2>2, <2>3, <2>4
<1> QED
  BY <1>1, <1>2, <1>3 DEF Distinct, t

\* A record put at the head comes after nothing.
LEMMA PrependAfter ==
    ASSUME NEW S, NEW s \in Seq(S), NEW r \in S, NEW c \in Named(s), EndOf(r) \notin Named(s)
    PROVE  After(<<r>> \o s, c) = After(s, c)
<1> DEFINE t == <<r>> \o s
<1>1. /\ t \in Seq(S) /\ t[1] = r
      /\ \A k \in DOMAIN s : k \in Nat /\ k + 1 \in DOMAIN t /\ t[k + 1] = s[k]
      /\ \A k \in DOMAIN t : k \in Nat /\ (k = 1 \/ (k - 1 \in DOMAIN s /\ t[k] = s[k - 1]))
  OBVIOUS
<1>2. EndOf(r) # c
  OBVIOUS
<1> HIDE DEF t
<1>3. ASSUME NEW x \in After(t, c) PROVE x \in After(s, c)
  <2>1. PICK j \in DOMAIN t, i \in DOMAIN t : i < j /\ EndOf(t[i]) = c /\ EndOf(t[j]) = x
    BY DEF After
  <2>2. i \in Nat /\ j \in Nat /\ i # 1 /\ j # 1 /\ 1 <= i
    BY <1>1, <1>2, <2>1
  <2>3. /\ i - 1 \in DOMAIN s /\ t[i] = s[i - 1]
        /\ j - 1 \in DOMAIN s /\ t[j] = s[j - 1] /\ i - 1 < j - 1
    BY <1>1, <2>1, <2>2
  <2> QED
    BY <2>1, <2>3 DEF After
<1>4. ASSUME NEW x \in After(s, c) PROVE x \in After(t, c)
  <2>1. PICK j \in DOMAIN s, i \in DOMAIN s : i < j /\ EndOf(s[i]) = c /\ EndOf(s[j]) = x
    BY DEF After
  <2>2. /\ i + 1 \in DOMAIN t /\ t[i + 1] = s[i]
        /\ j + 1 \in DOMAIN t /\ t[j + 1] = s[j] /\ i + 1 < j + 1
    BY <1>1, <2>1
  <2> QED
    BY <2>1, <2>2 DEF After
<1> QED
  BY <1>3, <1>4 DEF t

\* A list from which the records that name an end of X are unlinked names what
\* the others name, in the same order.
LEMMA Unlink ==
    ASSUME NEW S, NEW s \in Seq(S), NEW D, NEW X, Picks(D, S, X)
    PROVE  /\ Without(s, D) \in Seq(S) /\ Named(Without(s, D)) = Named(s) \ X
           /\ Distinct(s) => Distinct(Without(s, D))
           /\ \A n \in DOMAIN Without(s, D) : \E k \in DOMAIN s : Without(s, D)[n] = s[k]
           /\ \A c : c \notin X => After(Without(s, D), c) = After(s, c) \ X
<1> DEFINE t == Without(s, D)
<1>1. t \in Seq(S)
  BY WithoutTrace
<1>2. PICK g : IsTrace(g, t, s, D)
  BY WithoutTrace
<1> HIDE DEF t
<1>3. /\ \A n \in DOMAIN t : g[n] \in DOMAIN s /\ t[n] = s[g[n]] /\ EndOf(s[g[n]]) \notin X
      /\ \A k \in DOMAIN s : EndOf(s[k]) \notin X => \E n \in DOMAIN t : g[n] = k
  BY <1>2 DEF IsTrace, Picks
<1>4. \A m, n \in DOMAIN t : m \in Nat /\ g[m] \in Nat /\ (m < n <=> g[m] < g[n])
  <2>1. ASSUME NEW m \in DOMAIN t, NEW n \in DOMAIN t
        PROVE  m \in Nat /\ n \in Nat /\ g[m] \in Nat /\ g[n] \in Nat
    BY <1>1, <1>3
  <2>2. ASSUME NEW m \in DOMAIN t, NEW n \in DOMAIN t
        PROVE  m < n <=> g[m] < g[n]
    <3>1. (m < n => g[m] < g[n]) /\ (n < m => g[n] < g[m])
      BY <1>2 DEF IsTrace
    <3> QED
      BY <2>1, <3>1
  <2> QED
    BY <2>1, <2>2
<1>5. Named(t) = Named(s) \ X
  BY <1>3 DEF Named
<1>6. ASSUME Distinct(s), NEW m \in DOMAIN t, NEW n \in DOMAIN t, EndOf(t[m]) = EndOf(t[n])
      PROVE  m = n
  <2>1. g[m] = g[n]
    BY <1>3, <1>6 DEF Distinct
  <2> QED
    BY <1>4, <2>1
<1>7. ASSUME NEW c, c \notin X
      PROVE  After(t, c) = After(s, c) \ X
  <2>1. ASSUME NEW x \in After(t, c) PROVE x \in After(s, c) \ X
    BY <1>3, <1>4, <2>1 DEF After
  <2>2. ASSUME NEW x \in After(s, c), x \notin X PROVE x \in After(t, c)
    <3>1. PICK i \in DOMAIN s, j \in DOMAIN s : i < j /\ EndOf(s[i]) = c /\ EndOf(s[j]) = x
      BY DEF After
    <3>2. PICK m \in DOMAIN t : g[m] = i
      BY <1>3, <1>7, <3>1
    <3>3. PICK n \in DOMAIN t : g[n] = j
      BY <1>3, <2>2, <3>1
    <3> QED
      BY <1>3, <1>4, <3>1, <3>2, <3>3 DEF After
  <2> QED
    BY <2>1, <2>2
<1> QED
  BY <1>1, <1>3, <1>5, <1>6, <1>7 DEF Distinct, t

\* A list that names no end twice names as many ends as it is long.
LEMMA NamedCount ==
    ASSUME NEW S, NEW s \in Seq(S), Distinct(s)
    PROVE  IsFiniteSet(Named(s)) /\ Cardinality(Named(s)) = Len(s)
<1> DEFINE f == [k \in 1 .. Len(s) |-> EndOf(s[k])]
<1>1. f \in Bijection(1 .. Len(s), Named(s))
  <2>1. f \in [1 .. Len(s) -> Named(s)]
    BY DEF Named
  <2>2. \A m, n \in 1 .. Len(s) : f[m] = f[n] => m = n
    BY DEF Distinct
  <2>3. \A x \in Named(s) : \E k \in 1 .. Len(s) : f[k] = x
    BY DEF Named
  <2> HIDE DEF f
  <2>4. f \in Injection(1 .. Len(s), Named(s))
    BY <2>1, <2>2 DEF Injection, IsInjective
  <2>5. f \in Surjection(1 .. Len(s), Named(s))
    BY <2>1, <2>3 DEF Surjection
  <2> QED
    BY <2>4, <2>5 DEF Bijection
<1>2. IsFiniteSet(1 .. Len(s)) /\ Cardinality(1 .. Len(s)) = Len(s)
  <2>1. Len(s) \in Nat
    OBVIOUS
  <2> QED
    BY <2>1, FS_Interval, SMTT(30)
<1> QED
  BY <1>1, <1>2, FS_Bijection DEF ExistsBijection

-----------------------------------------------------------------------------
(* The inductive invariant *)

\* The two records of every wire are there, each once, between ends that exist,
\* and a callback is recorded only for an end with a handler.
RecordsOK ==
    /\ alive \subseteq Insts /\ handles \subseteq Ends
    /\ subs \in [Ends -> Seq(Subscriber)] /\ backs \in [Ends -> Seq(Subscription)]
    /\ \A e \in Ends : Distinct(subs[e]) /\ Distinct(backs[e])
    /\ \A e, f \in Ends : f \in Named(subs[e]) <=> e \in Named(backs[f])
    /\ \A e \in Ends : \A f \in Named(subs[e]) : e[1] \in alive /\ f[1] \in alive
    /\ \A e \in Ends : \A k \in DOMAIN subs[e] :
          subs[e][k].callback => EndOf(subs[e][k]) \in handles

\* Links are one hop long, between ends that exist, and LinkInst is the owner of
\* the node they lead to.
LinksOK ==
    /\ link \in [Ends -> Ends \cup {NULL}] /\ linkInst \in [Ends -> Insts \cup {NULL}]
    /\ \A e \in Ends : link[e] # NULL =>
          /\ link[link[e]] = NULL /\ linkInst[e] = link[e][1]
          /\ e[1] \in alive /\ link[e][1] \in alive

\* Envelopes name the owner of their property, which exists.
EnvelopesIn(s) ==
    /\ s \in Seq(Envelope)
    /\ \A k \in DOMAIN s : s[k].port # NULL => s[k].port[1] = s[k].inst /\ s[k].inst \in alive

\* The dispatcher stands on a record of the list it walks.
WalkOK ==
    /\ stage \in {"idle", "walk", "handler"}
    /\ outPort \in Ends \cup {NULL} /\ cursor \in Subscriber \cup {NULL}
    /\ stage = "idle" <=> outPort = NULL
    /\ stage = "idle" => cursor = NULL
    /\ stage = "handler" => cursor # NULL
    /\ cursor # NULL => /\ EndOf(cursor) \in Named(subs[outPort])
                        /\ cursor.callback => EndOf(cursor) \in handles

IInv == RecordsOK /\ LinksOK /\ EnvelopesIn(queued) /\ EnvelopesIn(runnow) /\ WalkOK

-----------------------------------------------------------------------------
(* What the operators of the model give under the invariant *)

\* Records name ends.
LEMMA NamedEnds ==
    ASSUME RecordsOK, NEW e \in Ends
    PROVE  Named(subs[e]) \subseteq Ends /\ Named(backs[e]) \subseteq Ends
<1>1. subs[e] \in Seq(Subscriber) /\ backs[e] \in Seq(Subscription)
  BY DEF RecordsOK
<1>2. \A r \in Subscriber : EndOf(r) \in Ends
  BY DEF EndOf, Ends, Subscriber
<1>3. \A r \in Subscription : EndOf(r) \in Ends
  BY DEF EndOf, Ends, Subscription
<1> QED
  BY <1>1, <1>2, <1>3 DEF Named

\* An end is spelled by its parts.
LEMMA EndParts ==
    ASSUME NEW e \in Ends
    PROVE  e[1] \in Insts /\ e[2] \in Ports /\ <<e[1], e[2]>> = e
BY DEF Ends

\* Resolution takes one hop, and finds the owner along with the node.
LEMMA ResolveIs ==
    ASSUME LinksOK, NEW e \in Ends
    PROVE  /\ Hop(e) \in Ends /\ ResolvePort(e) = [owner |-> Hop(e)[1], node |-> Hop(e)]
           /\ <<Hop(e)[1], Hop(e)[2]>> = Hop(e)
           /\ e[1] \in alive => Hop(e)[1] \in alive
<1>1. Hop(e) \in Ends /\ Hop(Hop(e)) = Hop(e) /\ (e[1] \in alive => Hop(e)[1] \in alive)
  BY EndsAssumption DEF LinksOK, Hop
<1>2. ResolveNode(e) = Hop(e)
  BY <1>1 DEF ResolveNode
<1>3. link[e] # NULL => linkInst[e] = Hop(e)[1] /\ linkInst[e] # NULL
  BY EndsAssumption, EndParts DEF LinksOK, Hop
<1>4. link[e] = NULL => e = Hop(e)
  BY DEF Hop
<1> QED
  BY <1>1, <1>2, <1>3, <1>4, EndParts DEF ResolvePort

\* What a write queues, if anything, is an envelope of the resolved property.
LEMMA EnvelopesIs ==
    ASSUME LinksOK, NEW e \in Ends, NEW S
    PROVE  Envelopes(S, e) = IF S[Hop(e)] = <<>> THEN <<>>
                             ELSE <<[inst |-> Hop(e)[1], port |-> Hop(e)]>>
BY ResolveIs DEF Envelopes

\* Queueing an envelope of a live property.
LEMMA AppendEnvelope ==
    ASSUME NEW s, EnvelopesIn(s), NEW e \in Ends, e[1] \in alive
    PROVE  /\ EnvelopesIn(Append(s, [inst |-> e[1], port |-> e]))
           /\ s \o <<[inst |-> e[1], port |-> e]>> = Append(s, [inst |-> e[1], port |-> e])
           /\ s \o <<>> = s
<1> DEFINE x == [inst |-> e[1], port |-> e]
           t == Append(s, x)
<1>1. x \in Envelope /\ s \in Seq(Envelope)
  BY EndParts DEF EnvelopesIn, Envelope
<1>2. t \in Seq(Envelope) /\ s \o <<x>> = t /\ s \o <<>> = s
  BY <1>1
<1>3. ASSUME NEW k \in DOMAIN t PROVE t[k] = x \/ (k \in DOMAIN s /\ t[k] = s[k])
  BY <1>1
<1>4. x.port[1] = x.inst /\ x.inst \in alive
  OBVIOUS
<1> HIDE DEF t, x
<1>5. \A k \in DOMAIN t : t[k].port # NULL => t[k].port[1] = t[k].inst /\ t[k].inst \in alive
  BY <1>3, <1>4 DEF EnvelopesIn
<1>6. EnvelopesIn(t)
  BY <1>2, <1>5 DEF EnvelopesIn
<1> QED
  BY <1>2, <1>6 DEF t, x

\* A property with a record is live, so what a write queues is in order.
LEMMA WriteEnvelopes ==
    ASSUME LinksOK, NEW s, EnvelopesIn(s), NEW e \in Ends, NEW S, S[Hop(e)] # <<>> => Hop(e)[1] \in alive
    PROVE  EnvelopesIn(s \o Envelopes(S, e))
<1>1. Hop(e) \in Ends
  BY ResolveIs
<1>2. CASE S[Hop(e)] = <<>>
  <2>1. s \o <<>> = s
    BY DEF EnvelopesIn
  <2> QED
    BY <1>2, <2>1, EnvelopesIs
<1>3. CASE S[Hop(e)] # <<>>
  <2> DEFINE x == [inst |-> Hop(e)[1], port |-> Hop(e)]
  <2>1. Envelopes(S, e) = <<x>>
    BY <1>3, EnvelopesIs
  <2>2. EnvelopesIn(Append(s, x)) /\ s \o <<x>> = Append(s, x)
    BY <1>1, <1>3, AppendEnvelope
  <2> QED
    BY <2>1, <2>2
<1> QED
  BY <1>2, <1>3

\* A list that is not empty names something.
LEMMA NamedNonempty ==
    ASSUME NEW S, NEW s \in Seq(S)
    PROVE  s = <<>> <=> Named(s) = {}
BY DEF Named

-----------------------------------------------------------------------------
(* Every step keeps the invariant *)

\* Nothing exists in the beginning.
LEMMA InitInv == FabricInit => IInv
<1> SUFFICES ASSUME FabricInit PROVE IInv
  OBVIOUS
<1>1. Named(<<>>) = {} /\ Distinct(<<>>)
  BY DEF Named, Distinct
<1>2. RecordsOK
  BY <1>1 DEF FabricInit, RecordsOK
<1>3. LinksOK
  BY DEF FabricInit, LinksOK
<1>4. EnvelopesIn(queued) /\ EnvelopesIn(runnow)
  BY DEF FabricInit, EnvelopesIn
<1>5. WalkOK
  BY EndsAssumption DEF FabricInit, WalkOK
<1> QED
  BY <1>2, <1>3, <1>4, <1>5 DEF IInv

\* A new record is put at the head, or its callback is noted.
LEMMA AddedTo ==
    ASSUME RecordsOK, NEW F \in Ends, NEW T \in Ends
    PROVE  LET t == AddSubscription(subs, F, [owner |-> T[1], node |-> T])[F]
           IN  /\ t \in Seq(Subscriber) /\ Distinct(t)
               /\ Named(t) = Named(subs[F]) \cup {T}
               /\ \A k \in DOMAIN t : t[k].callback => EndOf(t[k]) \in handles
               /\ \A c \in Named(subs[F]) : After(t, c) = After(subs[F], c)
<1> DEFINE s == subs[F]
           h == T \in handles
           to == [owner |-> T[1], node |-> T]
           rec == NewSubscriber(to)
           t == AddSubscription(subs, F, to)[F]
           u == NoteCallback(s, rec)
<1>1. s \in Seq(Subscriber) /\ Distinct(s) /\ subs \in [Ends -> Seq(Subscriber)]
  BY DEF RecordsOK
<1>5. h \in BOOLEAN /\ \A k \in DOMAIN s : s[k].callback => EndOf(s[k]) \in handles
  BY DEF RecordsOK
<1>2. rec \in Subscriber /\ EndOf(rec) = T /\ rec.callback = h
  BY EndParts DEF Subscriber, EndOf, NewSubscriber
<1> HIDE DEF rec
<1>3. CASE T \in Named(s)
  <2>1. t = u
    <3>1. \E r \in Elems(s) : EndOf(r) = EndOf(rec)
      BY <1>2, <1>3 DEF Named, Elems
    <3>2. AddSubscription(subs, F, to) = [subs EXCEPT ![F] = NoteCallback(@, rec)]
      BY <3>1 DEF AddSubscription, rec
    <3> QED
      BY <1>1, <1>2, <3>2
  <2>2. \A k \in DOMAIN s : s[k] \in Subscriber
    BY <1>1
  <2>3. /\ DOMAIN u = DOMAIN s
        /\ \A k \in DOMAIN s : u[k] \in Subscriber /\ EndOf(u[k]) = EndOf(s[k])
        /\ \A k \in DOMAIN s : u[k].callback => s[k].callback \/ (h /\ EndOf(s[k]) = T)
    BY <1>2, <2>2 DEF Subscriber, EndOf, NoteCallback
  <2> HIDE DEF u
  <2>4. u \in Seq(Subscriber)
    <3>1. u \in [1 .. Len(s) -> Subscriber]
      BY <1>1, <2>3 DEF u, NoteCallback
    <3> QED
      BY <1>1, <3>1
  <2>5. Distinct(u) /\ Named(u) = Named(s)
    BY <1>1, <2>3 DEF Distinct, Named
  <2>6. \A c : After(u, c) = After(s, c)
    BY <2>3 DEF After
  <2> QED
    BY <1>3, <1>5, <2>1, <2>3, <2>4, <2>5, <2>6
<1>4. CASE T \notin Named(s)
  <2>1. t = <<rec>> \o s
    <3>1. ~\E r \in Elems(s) : EndOf(r) = EndOf(rec)
      BY <1>2, <1>4 DEF Named, Elems
    <3>2. AddSubscription(subs, F, to) = [subs EXCEPT ![F] = <<rec>> \o @]
      BY <3>1 DEF AddSubscription, rec
    <3> QED
      BY <1>1, <3>2
  <2>2. t \in Seq(Subscriber) /\ Distinct(t) /\ Named(t) = Named(s) \cup {T}
    <3> HIDE DEF rec, s, t
    <3> QED
      BY <1>1, <1>2, <1>4, <2>1, PrependNamed
  <2>3. ASSUME NEW k \in DOMAIN (<<rec>> \o s)
        PROVE  (<<rec>> \o s)[k] = rec \/ (k - 1 \in DOMAIN s /\ (<<rec>> \o s)[k] = s[k - 1])
    BY <1>1, <1>2
  <2>4. \A c \in Named(s) : After(t, c) = After(s, c)
    <3> HIDE DEF rec, s, t
    <3> QED
      BY <1>1, <1>2, <1>4, <2>1, PrependAfter
  <2> QED
    BY <1>2, <1>5, <2>1, <2>2, <2>3, <2>4
<1> QED
  BY <1>3, <1>4

\* The Subscription record of the other end.
LEMMA BackAddedTo ==
    ASSUME RecordsOK, NEW F \in Ends, NEW T \in Ends
    PROVE  LET t == AddSubscriptionBack(backs, T, [owner |-> F[1], node |-> F])[T]
           IN  /\ t \in Seq(Subscription) /\ Distinct(t)
               /\ Named(t) = Named(backs[T]) \cup {F}
<1> DEFINE s == backs[T]
           rec == [inst |-> F[1], port |-> F[2]]
           t == AddSubscriptionBack(backs, T, [owner |-> F[1], node |-> F])[T]
<1>1. s \in Seq(Subscription) /\ Distinct(s) /\ backs \in [Ends -> Seq(Subscription)]
  BY DEF RecordsOK
<1>2. rec \in Subscription /\ EndOf(rec) = F
  BY EndParts DEF Subscription, EndOf
<1>3. \A r \in Subscription : EndOf(r) = F => r = rec
  BY DEF Subscription, EndOf
<1>4. CASE rec \in Elems(s)
  <2>1. t = s
    BY <1>4 DEF AddSubscriptionBack
  <2>2. F \in Named(s)
    BY <1>2, <1>4 DEF Named, Elems
  <2> QED
    BY <1>1, <2>1, <2>2
<1>5. CASE rec \notin Elems(s)
  <2>1. t = <<rec>> \o s
    BY <1>1, <1>5 DEF AddSubscriptionBack
  <2>2. F \notin Named(s)
    BY <1>1, <1>2, <1>3, <1>5 DEF Named, Elems
  <2> HIDE DEF rec, s, t
  <2>3. t \in Seq(Subscription) /\ Distinct(t) /\ Named(t) = Named(s) \cup {F}
    BY <1>1, <1>2, <2>1, <2>2, PrependNamed
  <2> QED
    BY <2>3 DEF t, s
<1> QED
  BY <1>4, <1>5

\* Connecting makes both records of one wire, or finds them there.
LEMMA ConnectRecords ==
    ASSUME IInv, NEW e \in Ends, NEW f \in Ends, Connect(e, f)
    PROVE  /\ RecordsOK'
           /\ \A x \in Ends : x # Hop(e) => subs'[x] = subs[x]
           /\ \A c \in Named(subs[Hop(e)]) : After(subs'[Hop(e)], c) = After(subs[Hop(e)], c)
           /\ Named(subs'[Hop(e)]) = Named(subs[Hop(e)]) \cup {Hop(f)}
<1> DEFINE F == Hop(e)
           T == Hop(f)
           from == [owner |-> F[1], node |-> F]
           to == [owner |-> T[1], node |-> T]
           t == AddSubscription(subs, F, to)[F]
           u == AddSubscriptionBack(backs, T, from)[T]
<1>1. RecordsOK /\ LinksOK
  BY DEF IInv
<1>2. /\ F \in Ends /\ T \in Ends /\ F[1] \in alive /\ T[1] \in alive
      /\ ResolvePort(e) = from /\ ResolvePort(f) = to /\ <<T[1], T[2]>> = T
  BY <1>1, ResolveIs DEF Connect
<1> HIDE DEF F, T
<1>3. /\ t \in Seq(Subscriber) /\ Distinct(t) /\ Named(t) = Named(subs[F]) \cup {T}
      /\ \A k \in DOMAIN t : t[k].callback => EndOf(t[k]) \in handles
      /\ \A c \in Named(subs[F]) : After(t, c) = After(subs[F], c)
  BY <1>1, <1>2, AddedTo
<1>4. u \in Seq(Subscription) /\ Distinct(u) /\ Named(u) = Named(backs[T]) \cup {F}
  BY <1>1, <1>2, BackAddedTo
<1>5. /\ subs' = AddSubscription(subs, F, to) /\ UNCHANGED <<alive, handles>>
      /\ \/ T \in Named(subs[F]) /\ backs' = backs
         \/ backs' = AddSubscriptionBack(backs, T, from)
  <2>1. /\ subs' = AddSubscription(subs, F, to) /\ UNCHANGED <<alive, handles>>
        /\ backs' = IF \E r \in Elems(subs[F]) : EndOf(r) = T THEN backs
                    ELSE AddSubscriptionBack(backs, T, from)
    BY <1>2 DEF Connect
  <2> QED
    BY <2>1 DEF Named, Elems
<1>6. subs' = [subs EXCEPT ![F] = t]
  BY <1>1, <1>2, <1>5 DEF AddSubscription, RecordsOK
<1>7. (backs' = backs /\ F \in Named(backs[T])) \/ backs' = [backs EXCEPT ![T] = u]
  BY <1>1, <1>2, <1>5 DEF AddSubscriptionBack, RecordsOK
<1> HIDE DEF t, u
<1>8. /\ subs' \in [Ends -> Seq(Subscriber)] /\ backs' \in [Ends -> Seq(Subscription)]
      /\ \A x \in Ends : Distinct(subs'[x]) /\ Distinct(backs'[x])
  BY <1>1, <1>2, <1>3, <1>4, <1>6, <1>7 DEF RecordsOK
<1>9. /\ \A x, y \in Ends : y \in Named(subs'[x]) <=> y \in Named(subs[x]) \/ (x = F /\ y = T)
      /\ \A x, y \in Ends : x \in Named(backs'[y]) <=> x \in Named(backs[y]) \/ (x = F /\ y = T)
  BY <1>1, <1>2, <1>3, <1>4, <1>6, <1>7 DEF RecordsOK
<1>10. \A x \in Ends : \A k \in DOMAIN subs'[x] : subs'[x][k].callback => EndOf(subs'[x][k]) \in handles'
  BY <1>1, <1>2, <1>3, <1>5, <1>6 DEF RecordsOK
<1>11. /\ \A x, y \in Ends : y \in Named(subs'[x]) <=> x \in Named(backs'[y])
       /\ \A x \in Ends : \A y \in Named(subs'[x]) : x[1] \in alive' /\ y[1] \in alive'
  <2>1. /\ \A x, y \in Ends : y \in Named(subs[x]) <=> x \in Named(backs[y])
        /\ \A x \in Ends : \A y \in Named(subs[x]) : x[1] \in alive /\ y[1] \in alive
    BY <1>1 DEF RecordsOK
  <2>2. ASSUME NEW x \in Ends, NEW y \in Ends
        PROVE  y \in Named(subs'[x]) <=> x \in Named(backs'[y])
    <3>1. y \in Named(subs'[x]) <=> y \in Named(subs[x]) \/ (x = F /\ y = T)
      BY <1>9
    <3>2. x \in Named(backs'[y]) <=> x \in Named(backs[y]) \/ (x = F /\ y = T)
      BY <1>9
    <3> QED
      BY <2>1, <3>1, <3>2
  <2>3. ASSUME NEW x \in Ends, NEW y \in Named(subs'[x])
        PROVE  x[1] \in alive' /\ y[1] \in alive'
    <3>1. y \in Named(subs[x]) \/ (x = F /\ y = T)
      BY <1>1, <1>2, <1>3, <1>6 DEF RecordsOK
    <3> QED
      BY <1>2, <1>5, <2>1, <3>1
  <2> QED
    BY <2>2, <2>3
<1>12. RecordsOK'
  BY <1>1, <1>5, <1>8, <1>10, <1>11 DEF RecordsOK
<1>13. subs \in [Ends -> Seq(Subscriber)]
  BY <1>1 DEF RecordsOK
<1>14. (\A x \in Ends : x # F => subs'[x] = subs[x]) /\ subs'[F] = t
  BY <1>2, <1>6, <1>13
<1> QED
  BY <1>3, <1>12, <1>14 DEF F, T, t

\* Disconnecting takes both records of one wire.
LEMMA DisconnectRecords ==
    ASSUME IInv, NEW e \in Ends, NEW f \in Ends, Disconnect(e, f)
    PROVE  /\ RecordsOK'
           /\ \A x \in Ends : x # Hop(e) => subs'[x] = subs[x]
           /\ Named(subs'[Hop(e)]) = Named(subs[Hop(e)]) \ {Hop(f)}
           /\ \A c : c # Hop(f) => After(subs'[Hop(e)], c) = After(subs[Hop(e)], c) \ {Hop(f)}
           /\ Hop(f) \in Named(subs[Hop(e)])
<1> DEFINE F == Hop(e)
           T == Hop(f)
           out == SubscribersTo(T)
           back == [inst |-> F[1], port |-> F[2]]
           t == Without(subs[F], out)
           u == Without(backs[T], {back})
<1>1. RecordsOK /\ LinksOK
  BY DEF IInv
<1>2. /\ F \in Ends /\ T \in Ends /\ <<F[1], F[2]>> = F /\ <<T[1], T[2]>> = T
      /\ ResolvePort(e) = [owner |-> F[1], node |-> F]
      /\ ResolvePort(f) = [owner |-> T[1], node |-> T]
  BY <1>1, ResolveIs DEF Disconnect
<1> HIDE DEF F, T
<1>3. EndOf([inst |-> T[1], port |-> T[2]]) = T /\ EndOf(back) = F
  BY <1>2 DEF EndOf
<1>4. /\ subs' = [subs EXCEPT ![F] = t] /\ backs' = [backs EXCEPT ![T] = u]
      /\ UNCHANGED <<alive, handles>> /\ \E r \in Elems(subs[F]) : EndOf(r) = T
  <2>1. /\ subs' = [subs EXCEPT ![F] = Without(@, SubscribersTo(EndOf([inst |-> T[1], port |-> T[2]])))]
        /\ \E r \in Elems(subs[F]) : EndOf(r) = EndOf([inst |-> T[1], port |-> T[2]])
    BY <1>2 DEF Disconnect
  <2>2. backs' = [backs EXCEPT ![T] = Without(@, {back})] /\ UNCHANGED <<alive, handles>>
    BY <1>2 DEF Disconnect
  <2>3. subs' = [subs EXCEPT ![F] = Without(@, out)] /\ \E r \in Elems(subs[F]) : EndOf(r) = T
    BY <1>3, <2>1
  <2> QED
    BY <2>2, <2>3
<1>5. subs \in [Ends -> Seq(Subscriber)] /\ backs \in [Ends -> Seq(Subscription)]
  BY <1>1 DEF RecordsOK
<1>6. ASSUME NEW X, X = {T} PROVE Picks(out, Subscriber, X)
  BY <1>6 DEF SubscribersTo, Picks
<1>7. ASSUME NEW X, X = {F}, NEW D, D = {back} PROVE Picks(D, Subscription, X)
  BY <1>2, <1>7 DEF Subscription, EndOf, Picks
<1> HIDE DEF out, back
<1>8. /\ t \in Seq(Subscriber) /\ Distinct(t) /\ Named(t) = Named(subs[F]) \ {T}
      /\ \A n \in DOMAIN t : \E k \in DOMAIN subs[F] : t[n] = subs[F][k]
      /\ \A c : c # T => After(t, c) = After(subs[F], c) \ {T}
  <2> DEFINE s == subs[F]
             X == {T}
  <2>1. s \in Seq(Subscriber) /\ Distinct(s) /\ Picks(out, Subscriber, X)
    BY <1>1, <1>2, <1>6 DEF RecordsOK
  <2>2. X = {T} /\ t = Without(s, out)
    OBVIOUS
  <2> HIDE DEF s, X, t
  <2>6. /\ Without(s, out) \in Seq(Subscriber) /\ Distinct(Without(s, out)) /\ Named(Without(s, out)) = Named(s) \ X
        /\ \A n \in DOMAIN Without(s, out) : \E k \in DOMAIN s : Without(s, out)[n] = s[k]
        /\ \A c : c \notin X => After(Without(s, out), c) = After(s, c) \ X
    BY <2>1, Unlink
  <2>3. /\ t \in Seq(Subscriber) /\ Distinct(t) /\ Named(t) = Named(s) \ X
        /\ \A n \in DOMAIN t : \E k \in DOMAIN s : t[n] = s[k]
        /\ \A c : c \notin X => After(t, c) = After(s, c) \ X
    BY <2>2, <2>6
  <2>4. ASSUME NEW c, c # T PROVE After(t, c) = After(s, c) \ {T}
    <3>1. c \notin X
      BY <2>2, <2>4
    <3>2. After(t, c) = After(s, c) \ X
      BY <2>3, <3>1
    <3> QED
      BY <2>2, <3>2
  <2>5. Named(t) = Named(s) \ {T}
    BY <2>2, <2>3
  <2> QED
    BY <2>3, <2>4, <2>5 DEF s
<1>9. u \in Seq(Subscription) /\ Distinct(u) /\ Named(u) = Named(backs[T]) \ {F}
  <2> DEFINE s == backs[T]
             X == {F}
             D == {back}
  <2>1. s \in Seq(Subscription) /\ Distinct(s) /\ Picks(D, Subscription, X)
    BY <1>1, <1>2, <1>7 DEF RecordsOK
  <2>2. X = {F} /\ u = Without(s, D)
    OBVIOUS
  <2> HIDE DEF s, X, D, u
  <2>3. u \in Seq(Subscription) /\ Distinct(u) /\ Named(u) = Named(s) \ X
    BY <2>1, <2>2, Unlink
  <2> QED
    BY <2>2, <2>3 DEF s
<1> HIDE DEF t, u
<1>10. /\ subs'[F] = t /\ \A x \in Ends : x # F => subs'[x] = subs[x]
       /\ backs'[T] = u /\ \A x \in Ends : x # T => backs'[x] = backs[x]
       /\ subs' \in [Ends -> Seq(Subscriber)] /\ backs' \in [Ends -> Seq(Subscription)]
  BY <1>2, <1>4, <1>5, <1>8, <1>9
<1>11. \A x \in Ends : Distinct(subs'[x]) /\ Distinct(backs'[x])
  BY <1>1, <1>8, <1>9, <1>10 DEF RecordsOK
<1>12. ASSUME NEW x \in Ends, NEW y \in Ends
       PROVE  y \in Named(subs'[x]) <=> y \in Named(subs[x]) /\ ~(x = F /\ y = T)
  BY <1>8, <1>10
<1>13. ASSUME NEW x \in Ends, NEW y \in Ends
       PROVE  x \in Named(backs'[y]) <=> x \in Named(backs[y]) /\ ~(x = F /\ y = T)
  BY <1>9, <1>10
<1>14. \A x, y \in Ends : y \in Named(subs'[x]) <=> x \in Named(backs'[y])
  BY <1>1, <1>12, <1>13 DEF RecordsOK
<1>15. \A x \in Ends : \A y \in Named(subs'[x]) : x[1] \in alive' /\ y[1] \in alive'
  BY <1>1, <1>4, <1>8, <1>10 DEF RecordsOK
<1>16. \A x \in Ends : \A k \in DOMAIN subs'[x] : subs'[x][k].callback => EndOf(subs'[x][k]) \in handles'
  BY <1>1, <1>2, <1>4, <1>8, <1>10 DEF RecordsOK
<1>17. RecordsOK'
  BY <1>1, <1>4, <1>10, <1>11, <1>14, <1>15, <1>16 DEF RecordsOK
<1>18. T \in Named(subs[F])
  BY <1>4 DEF Named, Elems
<1> QED
  BY <1>8, <1>10, <1>17, <1>18 DEF F, T

\* What DeleteInstance leaves: the records between other instances.
LEMMA DeleteRecords ==
    ASSUME IInv, NEW i \in Insts, DeleteInstance(i)
    PROVE  /\ RecordsOK'
           /\ \A x \in Ends : Named(subs'[x]) = IF x[1] = i THEN {} ELSE {y \in Named(subs[x]) : y[1] # i}
           /\ \A x \in Ends, c \in Ends : x[1] # i /\ c[1] # i =>
                 After(subs'[x], c) = {y \in After(subs[x], c) : y[1] # i}
<1> DEFINE X == {y \in Ends : y[1] = i}
           sinks == UNION {{EndOf(r) : r \in Elems(subs[x])} : x \in {z \in Ends : z[1] = i}}
<1>1. RecordsOK
  BY DEF IInv
<1>2. /\ subs' = [x \in Ends |-> IF x[1] = i THEN <<>> ELSE Without(subs[x], SubscribersOf(i))]
      /\ backs' = [x \in Ends |-> IF x[1] = i THEN <<>>
                     ELSE IF x \in sinks THEN Without(backs[x], SubscriptionsOf(i)) ELSE backs[x]]
      /\ alive' = alive \ {i} /\ handles' = {x \in handles : x[1] # i}
  BY DEF DeleteInstance, ScrubSubscribers, ScrubSubscriptions
<1>3. Picks(SubscribersOf(i), Subscriber, X)
  BY DEF SubscribersOf, Subscriber, EndOf, Ends, Picks
<1>4. Picks(SubscriptionsOf(i), Subscription, X)
  BY DEF SubscriptionsOf, Subscription, EndOf, Ends, Picks
<1>5. \A y \in Ends : y \in sinks <=> \E x \in Ends : x[1] = i /\ y \in Named(subs[x])
  BY DEF Named, Elems
<1>6. \A y \in Ends : y \notin sinks /\ y[1] # i => \A x \in Named(backs[y]) : x[1] # i
  BY <1>1, <1>5, NamedEnds DEF RecordsOK
<1> HIDE DEF sinks, X
<1>7. Named(<<>>) = {} /\ Distinct(<<>>) /\ \A S : <<>> \in Seq(S)
  BY DEF Named, Distinct
<1>8. ASSUME NEW x \in Ends
      PROVE  /\ subs'[x] \in Seq(Subscriber) /\ Distinct(subs'[x])
             /\ Named(subs'[x]) = IF x[1] = i THEN {} ELSE Named(subs[x]) \ X
             /\ \A n \in DOMAIN subs'[x] : \E k \in DOMAIN subs[x] : subs'[x][n] = subs[x][k]
             /\ x[1] # i => \A c : c \notin X => After(subs'[x], c) = After(subs[x], c) \ X
  <2>1. CASE x[1] = i
    <3>1. subs'[x] = <<>>
      BY <1>2, <2>1
    <3> QED
      BY <1>7, <2>1, <3>1
  <2>2. CASE x[1] # i
    <3> DEFINE s == subs[x]
               t == Without(s, SubscribersOf(i))
    <3>1. s \in Seq(Subscriber) /\ Distinct(s) /\ subs'[x] = t
      BY <1>1, <1>2, <2>2 DEF RecordsOK
    <3> HIDE DEF s
    <3>2. /\ t \in Seq(Subscriber) /\ Distinct(t) /\ Named(t) = Named(s) \ X
          /\ \A n \in DOMAIN t : \E k \in DOMAIN s : t[n] = s[k]
          /\ \A c : c \notin X => After(t, c) = After(s, c) \ X
      BY <1>3, <3>1, Unlink
    <3> QED
      BY <2>2, <3>1, <3>2 DEF s
  <2> QED
    BY <2>1, <2>2
<1>9. ASSUME NEW x \in Ends
      PROVE  /\ backs'[x] \in Seq(Subscription) /\ Distinct(backs'[x])
             /\ Named(backs'[x]) = IF x[1] = i THEN {} ELSE Named(backs[x]) \ X
  <2> DEFINE s == backs[x]
             t == Without(s, SubscriptionsOf(i))
  <2>1. s \in Seq(Subscription) /\ Distinct(s)
    BY <1>1 DEF RecordsOK
  <2>2. CASE x[1] = i
    <3>1. backs'[x] = <<>>
      BY <1>2, <2>2
    <3> QED
      BY <1>7, <2>2, <3>1
  <2>3. CASE x[1] # i /\ x \in sinks
    <3>1. backs'[x] = t
      BY <1>2, <2>3
    <3> HIDE DEF s
    <3>2. t \in Seq(Subscription) /\ Distinct(t) /\ Named(t) = Named(s) \ X
      BY <1>4, <2>1, Unlink
    <3> QED
      BY <2>3, <3>1, <3>2 DEF s
  <2>4. CASE x[1] # i /\ x \notin sinks
    <3>1. backs'[x] = s
      BY <1>2, <2>4
    <3>2. Named(s) \ X = Named(s)
      BY <1>6, <2>4 DEF X
    <3> QED
      BY <2>1, <2>4, <3>1, <3>2
  <2> QED
    BY <2>2, <2>3, <2>4
<1>10. ASSUME NEW x \in Ends, NEW y \in Ends
       PROVE  /\ y \in Named(subs'[x]) <=> y \in Named(subs[x]) /\ x[1] # i /\ y[1] # i
              /\ x \in Named(backs'[y]) <=> x \in Named(backs[y]) /\ x[1] # i /\ y[1] # i
  <2>1. x \in X <=> x[1] = i
    BY DEF X
  <2>2. y \in X <=> y[1] = i
    BY DEF X
  <2>3. y \in Named(subs'[x]) <=> y \in Named(subs[x]) /\ x[1] # i /\ y \notin X
    BY <1>8
  <2>4. x \in Named(backs'[y]) <=> x \in Named(backs[y]) /\ y[1] # i /\ x \notin X
    BY <1>9
  <2> QED
    BY <2>1, <2>2, <2>3, <2>4
<1>11. \A x \in Ends : Named(subs[x]) \subseteq Ends
  BY <1>1, NamedEnds
<1>12. \A x \in Ends : Named(subs'[x]) \subseteq Named(subs[x])
  BY <1>8
<1>13. \A x, y \in Ends : y \in Named(subs'[x]) <=> x \in Named(backs'[y])
  BY <1>1, <1>10 DEF RecordsOK
<1>14. ASSUME NEW x \in Ends, NEW y \in Named(subs'[x])
       PROVE  x[1] \in alive' /\ y[1] \in alive'
  <2>1. y \in Ends /\ y \in Named(subs[x]) /\ x[1] # i /\ y[1] # i
    BY <1>10, <1>11, <1>12
  <2> QED
    BY <1>1, <1>2, <2>1 DEF RecordsOK
<1>15. ASSUME NEW x \in Ends, NEW n \in DOMAIN subs'[x], subs'[x][n].callback
       PROVE  EndOf(subs'[x][n]) \in handles'
  <2>1. EndOf(subs'[x][n]) \in Named(subs'[x]) /\ \E k \in DOMAIN subs[x] : subs'[x][n] = subs[x][k]
    BY <1>8 DEF Named
  <2>2. EndOf(subs'[x][n]) \in handles
    BY <1>1, <1>15, <2>1 DEF RecordsOK
  <2>3. EndOf(subs'[x][n])[1] # i
    BY <1>10, <1>11, <1>12, <2>1
  <2> QED
    BY <1>2, <2>2, <2>3
<1>16. subs' \in [Ends -> Seq(Subscriber)] /\ backs' \in [Ends -> Seq(Subscription)]
  <2>1. /\ subs' = [x \in Ends |-> subs'[x]] /\ backs' = [x \in Ends |-> backs'[x]]
    BY <1>2
  <2> QED
    BY <1>8, <1>9, <2>1
<1>17. alive' \subseteq Insts /\ handles' \subseteq Ends
  BY <1>1, <1>2 DEF RecordsOK
<1>18. RecordsOK'
  BY <1>8, <1>9, <1>13, <1>14, <1>15, <1>16, <1>17 DEF RecordsOK
<1>19. \A x \in Ends : \A c : After(subs[x], c) \subseteq Ends
  <2>1. \A x \in Ends : \A c : After(subs[x], c) \subseteq Named(subs[x])
    BY DEF After, Named
  <2> QED
    BY <1>11, <2>1
<1>20. \A Y : Y \subseteq Ends => Y \ X = {y \in Y : y[1] # i}
  BY DEF X
<1>21. ASSUME NEW x \in Ends
       PROVE  Named(subs'[x]) = IF x[1] = i THEN {} ELSE {y \in Named(subs[x]) : y[1] # i}
  BY <1>8, <1>11, <1>20
<1>22. ASSUME NEW x \in Ends, NEW c \in Ends, x[1] # i, c[1] # i
       PROVE  After(subs'[x], c) = {y \in After(subs[x], c) : y[1] # i}
  <2>1. c \notin X
    BY <1>22 DEF X
  <2> QED
    BY <1>8, <1>19, <1>20, <1>22, <2>1
<1> QED
  BY <1>18, <1>21, <1>22

\* A link is made to a property that is none, of one nothing links to.
LEMMA LinkStep ==
    ASSUME IInv, Relink = FALSE, NEW e \in Ends, NEW f \in Ends, LinkPropertyAs(e, f)
    PROVE  LinksOK' /\ link' = [link EXCEPT ![e] = Hop(f)] /\ Hop(f) # e /\ \A x \in Ends : link[x] # e
<1> DEFINE T == Hop(f)
<1>1. LinksOK
  BY DEF IInv
<1>2. /\ T \in Ends /\ T[1] \in alive /\ T[1] \in Insts
      /\ ResolvePort(f) = [owner |-> T[1], node |-> T]
  BY <1>1, ResolveIs, EndParts DEF LinkPropertyAs
<1>3. link[T] = NULL
  BY <1>1, EndsAssumption DEF LinksOK, Hop
<1> HIDE DEF T
<1>4. /\ T # e /\ (\A x \in Ends : link[x] # e) /\ e[1] \in alive /\ alive' = alive
      /\ link' = [link EXCEPT ![e] = T] /\ linkInst' = [linkInst EXCEPT ![e] = T[1]]
  BY <1>2 DEF LinkPropertyAs
<1>5. link' \in [Ends -> Ends \cup {NULL}] /\ linkInst' \in [Ends -> Insts \cup {NULL}]
  BY <1>1, <1>2, <1>4 DEF LinksOK
<1>6. ASSUME NEW x \in Ends, link'[x] # NULL
      PROVE  /\ link'[link'[x]] = NULL /\ linkInst'[x] = link'[x][1]
             /\ x[1] \in alive' /\ link'[x][1] \in alive'
  <2>1. CASE x = e
    <3>1. link'[x] = T /\ linkInst'[x] = T[1] /\ link'[T] = NULL
      BY <1>1, <1>2, <1>3, <1>4, <2>1 DEF LinksOK
    <3> QED
      BY <1>2, <1>4, <2>1, <3>1
  <2>2. CASE x # e
    <3>1. link'[x] = link[x] /\ linkInst'[x] = linkInst[x]
      BY <1>1, <1>4, <2>2 DEF LinksOK
    <3>2. link[x] \in Ends /\ link[x] # e /\ link[link[x]] = NULL
      BY <1>1, <1>4, <1>6, <3>1 DEF LinksOK
    <3>3. link'[link[x]] = NULL
      BY <1>1, <1>4, <3>2 DEF LinksOK
    <3> QED
      BY <1>1, <1>4, <1>6, <3>1, <3>3 DEF LinksOK
  <2> QED
    BY <2>1, <2>2
<1> QED
  BY <1>4, <1>5, <1>6 DEF LinksOK, T

\* A deleted instance takes along the links it has and those that lead to it.
LEMMA DeleteLinks ==
    ASSUME IInv, NEW i \in Insts, DeleteInstance(i)
    PROVE  /\ LinksOK'
           /\ link' = [e \in Ends |-> IF link[e] = NULL \/ e[1] = i \/ link[e][1] = i
                                      THEN NULL ELSE link[e]]
<1>1. LinksOK
  BY DEF IInv
<1>2. /\ link' = [e \in Ends |-> IF e[1] = i \/ (link[e] # NULL /\ linkInst[e] = i) THEN NULL ELSE link[e]]
      /\ linkInst' = [e \in Ends |-> IF e[1] = i \/ (link[e] # NULL /\ linkInst[e] = i) THEN NULL ELSE linkInst[e]]
      /\ alive' = alive \ {i}
  BY DEF DeleteInstance, ScrubLinks
<1>3. link' \in [Ends -> Ends \cup {NULL}] /\ linkInst' \in [Ends -> Insts \cup {NULL}]
  BY <1>1, <1>2 DEF LinksOK
<1>4. ASSUME NEW x \in Ends, link'[x] # NULL
      PROVE  /\ link'[link'[x]] = NULL /\ linkInst'[x] = link'[x][1]
             /\ x[1] \in alive' /\ link'[x][1] \in alive'
  <2>1. x[1] # i /\ link'[x] = link[x] /\ linkInst'[x] = linkInst[x] /\ linkInst[x] # i
    BY <1>2, <1>4
  <2>2. /\ link[x] \in Ends /\ link[link[x]] = NULL /\ linkInst[x] = link[x][1]
        /\ x[1] \in alive /\ link[x][1] \in alive
    BY <1>1, <1>4, <2>1 DEF LinksOK
  <2>3. link'[link[x]] = NULL
    BY <1>2, <2>2
  <2> QED
    BY <1>2, <2>1, <2>2, <2>3
<1>5. \A e \in Ends : link[e] # NULL => linkInst[e] = link[e][1]
  BY <1>1 DEF LinksOK
<1>6. link' = [e \in Ends |-> IF link[e] = NULL \/ e[1] = i \/ link[e][1] = i THEN NULL ELSE link[e]]
  BY <1>2, <1>5
<1> QED
  BY <1>3, <1>4, <1>6 DEF LinksOK

\* The envelopes of a deleted instance lose their property.
LEMMA CancelStep ==
    ASSUME NEW s, EnvelopesIn(s), NEW i \in Insts, alive' = alive \ {i}
    PROVE  /\ CancelPendingSends(s, i) \in Seq(Envelope)
           /\ \A k \in DOMAIN CancelPendingSends(s, i) : CancelPendingSends(s, i)[k].port # NULL =>
                 /\ CancelPendingSends(s, i)[k].port[1] = CancelPendingSends(s, i)[k].inst
                 /\ CancelPendingSends(s, i)[k].inst \in alive'
<1> DEFINE t == CancelPendingSends(s, i)
<1>1. s \in Seq(Envelope)
  BY DEF EnvelopesIn
<1>2. DOMAIN t = 1 .. Len(s) /\ DOMAIN t = DOMAIN s
  BY <1>1 DEF CancelPendingSends
<1>3. ASSUME NEW k \in DOMAIN s
      PROVE  /\ t[k] \in Envelope
             /\ s[k].inst = i => t[k].port = NULL
             /\ s[k].inst # i => t[k] = s[k]
  <2>1. s[k] \in Envelope
    BY <1>1
  <2>2. t[k] = IF s[k].inst = i THEN [s[k] EXCEPT !.port = NULL] ELSE s[k]
    BY DEF CancelPendingSends
  <2> QED
    BY <2>1, <2>2 DEF Envelope
<1>4. t \in Seq(Envelope)
  <2>1. t \in [1 .. Len(s) -> Envelope]
    BY <1>2, <1>3 DEF CancelPendingSends
  <2> QED
    BY <1>1, <2>1
<1> HIDE DEF t
<1>5. \A k \in DOMAIN t : t[k].port # NULL => t[k].port[1] = t[k].inst /\ t[k].inst \in alive'
  BY <1>2, <1>3 DEF EnvelopesIn
<1> QED
  BY <1>4, <1>5 DEF t

\* DispatchMsg goes on to the record after its cursor, or to the end.
LEMMA AfterCursorIs ==
    ASSUME RecordsOK, WalkOK, cursor # NULL
    PROVE  \E p \in DOMAIN subs[outPort] :
              /\ EndOf(subs[outPort][p]) = EndOf(cursor) /\ outPort \in Ends
              /\ \/ p + 1 \in DOMAIN subs[outPort] /\ AfterCursor = subs[outPort][p + 1]
                 \/ p = Len(subs[outPort]) /\ AfterCursor = NULL
<1> DEFINE s == subs[outPort]
           c == EndOf(cursor)
<1>1. outPort \in Ends /\ s \in Seq(Subscriber) /\ Distinct(s) /\ c \in Named(s)
  BY DEF RecordsOK, WalkOK
<1>2. PICK p \in DOMAIN s : EndOf(s[p]) = c
  BY <1>1 DEF Named
<1>3. p \in Nat /\ p <= Len(s) /\ Len(s) \in Nat /\ DOMAIN s = 1 .. Len(s)
  BY <1>1
<1>4. \A k \in DOMAIN s : EndOf(s[k]) = c => k = p
  BY <1>1, <1>2 DEF Distinct
<1>5. CASE p < Len(s)
  <2>1. \E k \in DOMAIN s : k < Len(s) /\ EndOf(s[k]) = c
    BY <1>2, <1>5
  <2>2. (CHOOSE k \in DOMAIN s : EndOf(s[k]) = c) = p
    BY <1>2, <1>4
  <2>3. AfterCursor = s[p + 1]
    BY <2>1, <2>2 DEF AfterCursor
  <2>4. p + 1 \in DOMAIN s
    BY <1>3, <1>5
  <2> QED
    BY <1>1, <1>2, <2>3, <2>4
<1>6. CASE p = Len(s)
  <2>1. ~\E k \in DOMAIN s : k < Len(s) /\ EndOf(s[k]) = c
    BY <1>3, <1>4, <1>6
  <2>2. AfterCursor = NULL
    BY <2>1 DEF AfterCursor
  <2> QED
    BY <1>1, <1>2, <1>6, <2>2
<1> QED
  BY <1>3, <1>5, <1>6

\* Wherever it goes on to is a record of the list it walks.
LEMMA AdvanceStep ==
    ASSUME IInv, cursor # NULL, cursor' = AfterCursor, stage' = "walk",
           UNCHANGED <<handles, subs, outPort>>
    PROVE  WalkOK'
<1>1. RecordsOK /\ WalkOK
  BY DEF IInv
<1>2. PICK p \in DOMAIN subs[outPort] :
         /\ EndOf(subs[outPort][p]) = EndOf(cursor) /\ outPort \in Ends
         /\ \/ p + 1 \in DOMAIN subs[outPort] /\ AfterCursor = subs[outPort][p + 1]
            \/ p = Len(subs[outPort]) /\ AfterCursor = NULL
  BY <1>1, AfterCursorIs
<1>3. subs[outPort] \in Seq(Subscriber)
  BY <1>1, <1>2 DEF RecordsOK
<1>4. cursor' \in Subscriber \cup {NULL}
  BY <1>2, <1>3
<1>5. cursor' # NULL => /\ EndOf(cursor') \in Named(subs[outPort])
                        /\ cursor'.callback => EndOf(cursor') \in handles
  BY <1>1, <1>2 DEF Named, RecordsOK
<1> QED
  BY <1>1, <1>2, <1>4, <1>5, EndsAssumption DEF WalkOK

\* A property with a record on it is live.
LEMMA ListedAlive ==
    ASSUME RecordsOK, NEW e \in Ends, subs[e] # <<>>
    PROVE  e[1] \in alive
<1>1. subs[e] \in Seq(Subscriber)
  BY DEF RecordsOK
<1>2. Named(subs[e]) # {}
  BY <1>1, NamedNonempty
<1> QED
  BY <1>2 DEF RecordsOK

\* Clients that make instances and handlers.
LEMMA CreateInv ==
    ASSUME IInv, \/ \E i \in Insts : Create(i)
                 \/ \E e \in Handled : Stamp(e)
    PROVE  IInv'
<1>1. /\ alive' \subseteq Insts /\ handles' \subseteq Ends
      /\ alive \subseteq alive' /\ handles \subseteq handles'
      /\ UNCHANGED <<subs, backs, link, linkInst, queued, runnow, outPort, cursor, stage>>
  BY EndsAssumption DEF IInv, RecordsOK, Create, Stamp
<1>2. RecordsOK'
  BY <1>1 DEF IInv, RecordsOK
<1>3. LinksOK'
  BY <1>1 DEF IInv, LinksOK
<1>4. EnvelopesIn(queued)' /\ EnvelopesIn(runnow)'
  BY <1>1 DEF IInv, EnvelopesIn
<1>5. WalkOK'
  BY <1>1 DEF IInv, WalkOK
<1> QED
  BY <1>2, <1>3, <1>4, <1>5 DEF IInv

\* Clients that wire.
LEMMA ConnectInv ==
    ASSUME IInv, NEW e \in Ends, NEW f \in Ends, Connect(e, f)
    PROVE  IInv'
<1> DEFINE w == <<Hop(f)[1], WiringPort>>
<1>1. RecordsOK /\ LinksOK /\ WalkOK /\ EnvelopesIn(queued)
  BY DEF IInv
<1>2. /\ RecordsOK' /\ \A x \in Ends : x # Hop(e) => subs'[x] = subs[x]
      /\ Named(subs'[Hop(e)]) = Named(subs[Hop(e)]) \cup {Hop(f)}
  BY ConnectRecords
<1>3. /\ UNCHANGED <<alive, handles, link, linkInst, runnow, outPort, cursor, stage>>
      /\ queued' = queued \o Envelopes(subs', w)
  <2>1. ResolvePort(e) = [owner |-> Hop(e)[1], node |-> Hop(e)]
    BY <1>1, ResolveIs
  <2>2. ResolvePort(f) = [owner |-> Hop(f)[1], node |-> Hop(f)]
    BY <1>1, ResolveIs
  <2> QED
    BY <2>1, <2>2 DEF Connect
<1>4. w \in Ends
  <2>1. Hop(f) \in Ends
    BY <1>1, ResolveIs
  <2> QED
    BY <2>1, EndsAssumption DEF Ends
<1> HIDE DEF w
<1>5. subs'[Hop(w)] # <<>> => Hop(w)[1] \in alive
  <2>1. Hop(w) \in Ends
    BY <1>1, <1>4, ResolveIs
  <2>2. subs'[Hop(w)] \in Seq(Subscriber) /\ \A y \in Named(subs'[Hop(w)]) : Hop(w)[1] \in alive'
    BY <1>2, <2>1 DEF RecordsOK
  <2> QED
    BY <1>3, <2>2, NamedNonempty
<1>6. EnvelopesIn(queued') /\ alive' = alive
  BY <1>1, <1>3, <1>4, <1>5, WriteEnvelopes
<1>7. EnvelopesIn(queued)'
  BY <1>6 DEF EnvelopesIn
<1>8. EnvelopesIn(runnow)' /\ LinksOK'
  BY <1>3 DEF IInv, EnvelopesIn, LinksOK
<1>9. WalkOK'
  <2>1. \A x \in Ends : Named(subs[x]) \subseteq Named(subs'[x])
    BY <1>2
  <2> QED
    BY <1>1, <1>3, <2>1 DEF WalkOK
<1> QED
  BY <1>2, <1>7, <1>8, <1>9 DEF IInv

\* Clients that unwire: not through the record they were called through.
LEMMA DisconnectInv ==
    ASSUME IInv, Reentrant = FALSE, NEW e \in Ends, NEW f \in Ends, Disconnect(e, f)
    PROVE  IInv' /\ (cursor # NULL /\ outPort = Hop(e) => EndOf(cursor) # Hop(f))
<1> DEFINE w == <<Hop(f)[1], WiringPort>>
<1>1. RecordsOK /\ LinksOK /\ WalkOK /\ EnvelopesIn(queued)
  BY DEF IInv
<1>2. /\ RecordsOK' /\ \A x \in Ends : x # Hop(e) => subs'[x] = subs[x]
      /\ Named(subs'[Hop(e)]) = Named(subs[Hop(e)]) \ {Hop(f)}
  BY DisconnectRecords
<1>3. /\ UNCHANGED <<alive, handles, link, linkInst, runnow, outPort, cursor, stage>>
      /\ queued' = queued \o Envelopes(subs', w) /\ FabricTurn
      /\ ~Underfoot(Hop(e), [inst |-> Hop(f)[1], port |-> Hop(f)[2]])
  <2>1. ResolvePort(e) = [owner |-> Hop(e)[1], node |-> Hop(e)]
    BY <1>1, ResolveIs
  <2>2. ResolvePort(f) = [owner |-> Hop(f)[1], node |-> Hop(f)]
    BY <1>1, ResolveIs
  <2> QED
    BY <2>1, <2>2 DEF Disconnect
<1>4. w \in Ends
  <2>1. Hop(f) \in Ends
    BY <1>1, ResolveIs
  <2> QED
    BY <2>1, EndsAssumption DEF Ends
<1> HIDE DEF w
<1>5. subs'[Hop(w)] # <<>> => Hop(w)[1] \in alive
  <2>1. Hop(w) \in Ends
    BY <1>1, <1>4, ResolveIs
  <2>2. subs'[Hop(w)] \in Seq(Subscriber) /\ \A y \in Named(subs'[Hop(w)]) : Hop(w)[1] \in alive'
    BY <1>2, <2>1 DEF RecordsOK
  <2> QED
    BY <1>3, <2>2, NamedNonempty
<1>6. EnvelopesIn(queued') /\ alive' = alive
  BY <1>1, <1>3, <1>4, <1>5, WriteEnvelopes
<1>7. EnvelopesIn(queued)'
  BY <1>6 DEF EnvelopesIn
<1>8. EnvelopesIn(runnow)' /\ LinksOK'
  BY <1>3 DEF IInv, EnvelopesIn, LinksOK
<1>9. cursor # NULL /\ outPort = Hop(e) => EndOf(cursor) # Hop(f)
  <2>1. EndOf([inst |-> Hop(f)[1], port |-> Hop(f)[2]]) = Hop(f)
    BY <1>1, ResolveIs DEF EndOf
  <2>2. cursor # NULL => stage = "handler"
    BY <1>1, <1>3 DEF WalkOK, FabricTurn
  <2> QED
    BY <1>3, <2>1, <2>2 DEF Underfoot
<1>10. WalkOK'
  <2>1. cursor # NULL => EndOf(cursor) \in Named(subs'[outPort])
    BY <1>1, <1>2, <1>9, EndsAssumption DEF WalkOK
  <2> QED
    BY <1>1, <1>3, <2>1 DEF WalkOK
<1> QED
  BY <1>2, <1>7, <1>8, <1>9, <1>10 DEF IInv

\* Clients that link.
LEMMA LinkInv ==
    ASSUME IInv, Relink = FALSE, NEW e \in Ends, NEW f \in Ends, LinkPropertyAs(e, f)
    PROVE  IInv'
<1>1. LinksOK'
  BY LinkStep
<1>2. UNCHANGED <<alive, handles, subs, backs, queued, runnow, outPort, cursor, stage>>
  BY DEF LinkPropertyAs
<1>3. RecordsOK'
  BY <1>2 DEF IInv, RecordsOK
<1>4. EnvelopesIn(queued)' /\ EnvelopesIn(runnow)'
  BY <1>2 DEF IInv, EnvelopesIn
<1>5. WalkOK'
  BY <1>2 DEF IInv, WalkOK
<1> QED
  BY <1>1, <1>3, <1>4, <1>5 DEF IInv

\* Clients that delete: not the instance at either end of the record they were
\* called through.
LEMMA DeleteInv ==
    ASSUME IInv, Reentrant = FALSE, NEW i \in Insts, DeleteInstance(i)
    PROVE  IInv' /\ (cursor # NULL => outPort[1] # i /\ EndOf(cursor)[1] # i)
<1>1. RecordsOK /\ LinksOK /\ WalkOK /\ EnvelopesIn(queued) /\ EnvelopesIn(runnow)
  BY DEF IInv
<1>2. /\ RecordsOK'
      /\ \A x \in Ends : Named(subs'[x]) = IF x[1] = i THEN {} ELSE {y \in Named(subs[x]) : y[1] # i}
  BY DeleteRecords
<1>3. LinksOK'
  BY DeleteLinks
<1>4. /\ alive' = alive \ {i} /\ queued' = CancelPendingSends(queued, i) /\ runnow' = CancelPendingSends(runnow, i)
      /\ UNCHANGED <<outPort, cursor, stage>> /\ handles' = {e \in handles : e[1] # i} /\ FabricTurn
      /\ stage = "handler" => outPort[1] # i /\ cursor.inst # i
  BY DEF DeleteInstance
<1>5. EnvelopesIn(queued)'
  BY <1>1, <1>4, CancelStep DEF EnvelopesIn
<1>6. EnvelopesIn(runnow)'
  BY <1>1, <1>4, CancelStep DEF EnvelopesIn
<1>7. cursor # NULL => stage = "handler" /\ outPort \in Ends /\ outPort[1] # i /\ EndOf(cursor)[1] # i
  BY <1>1, <1>4 DEF WalkOK, FabricTurn, EndOf
<1>8. WalkOK'
  <2>1. cursor # NULL => EndOf(cursor) \in Named(subs'[outPort])
    BY <1>1, <1>2, <1>7 DEF WalkOK
  <2>2. cursor # NULL => (cursor.callback => EndOf(cursor) \in handles')
    BY <1>1, <1>4, <1>7 DEF WalkOK
  <2> QED
    BY <1>1, <1>4, <2>1, <2>2 DEF WalkOK
<1> QED
  BY <1>2, <1>3, <1>5, <1>6, <1>7, <1>8 DEF IInv

\* Clients that write and send.
LEMMA SendInv ==
    ASSUME IInv, NEW e \in Ends, SetProp(e) \/ SndMsg(e)
    PROVE  IInv'
<1>1. RecordsOK /\ LinksOK /\ EnvelopesIn(queued)
  BY DEF IInv
<1>2. UNCHANGED <<alive, handles, subs, backs, link, linkInst, runnow, outPort, cursor, stage>>
  BY DEF SetProp, SndMsg
<1>3. Hop(e) \in Ends /\ (e[1] \in alive => Hop(e)[1] \in alive)
  BY <1>1, ResolveIs
<1>4. EnvelopesIn(queued')
  <2>1. CASE SetProp(e)
    <3>1. queued' = queued \o Envelopes(subs, e)
      BY <2>1 DEF SetProp
    <3>2. subs[Hop(e)] # <<>> => Hop(e)[1] \in alive
      BY <1>1, <1>3, ListedAlive
    <3> QED
      BY <1>1, <3>1, <3>2, WriteEnvelopes
  <2>2. CASE SndMsg(e)
    <3>1. queued' = Append(queued, [inst |-> Hop(e)[1], port |-> Hop(e)]) /\ e[1] \in alive
      BY <1>1, <2>2, ResolveIs DEF SndMsg
    <3> QED
      BY <1>1, <1>3, <3>1, AppendEnvelope
  <2> QED
    BY <2>1, <2>2
<1>5. EnvelopesIn(queued)'
  BY <1>2, <1>4 DEF EnvelopesIn
<1>6. RecordsOK' /\ LinksOK'
  BY <1>1, <1>2 DEF RecordsOK, LinksOK
<1>7. EnvelopesIn(runnow)' /\ WalkOK'
  BY <1>2 DEF IInv, EnvelopesIn, WalkOK
<1> QED
  BY <1>5, <1>6, <1>7 DEF IInv

\* A tick, and an envelope that is taken up.
LEMMA DispatchInv ==
    ASSUME IInv, TakeTick \/ Dispatch
    PROVE  IInv'
<1>1. UNCHANGED <<alive, handles, subs, backs, link, linkInst>>
  BY DEF TakeTick, Dispatch
<1>2. RecordsOK' /\ LinksOK'
  BY <1>1 DEF IInv, RecordsOK, LinksOK
<1>3. CASE TakeTick
  <2>1. runnow' = queued /\ queued' = <<>> /\ UNCHANGED <<outPort, cursor, stage>>
    BY <1>3 DEF TakeTick
  <2>2. EnvelopesIn(queued)' /\ EnvelopesIn(runnow)' /\ WalkOK'
    BY <1>1, <2>1 DEF IInv, EnvelopesIn, WalkOK
  <2> QED
    BY <1>2, <2>2 DEF IInv
<1>4. CASE Dispatch
  <2>1. runnow' = Tail(runnow) /\ runnow # <<>> /\ runnow \in Seq(Envelope) /\ UNCHANGED queued
    BY <1>4 DEF Dispatch, IInv, EnvelopesIn
  <2>2. runnow' \in Seq(Envelope) /\ \A k \in DOMAIN runnow' : k + 1 \in DOMAIN runnow /\ runnow'[k] = runnow[k + 1]
    BY <2>1
  <2>3. EnvelopesIn(queued)' /\ EnvelopesIn(runnow)'
    BY <1>1, <2>1, <2>2 DEF IInv, EnvelopesIn
  <2>4. CASE Head(runnow).port = NULL
    <3>1. UNCHANGED <<outPort, cursor, stage>>
      BY <1>4, <2>4 DEF Dispatch
    <3> QED
      BY <1>1, <1>2, <2>3, <3>1 DEF IInv, WalkOK
  <2>5. CASE Head(runnow).port # NULL
    <3> DEFINE p == Head(runnow).port
    <3>1. Head(runnow) \in Envelope
      BY <2>1
    <3>2. p \in Ends /\ p # NULL
      BY <2>5, <3>1 DEF Envelope
    <3> HIDE DEF p
    <3>3. outPort' = p /\ stage' = "walk" /\ cursor' = First(p)
      BY <1>4, <2>5 DEF Dispatch, p
    <3>4. subs[p] \in Seq(Subscriber)
      BY <3>2 DEF IInv, RecordsOK
    <3>5. subs[p] # <<>> => 1 \in DOMAIN subs[p] /\ Head(subs[p]) = subs[p][1]
      BY <3>4
    <3>6. /\ cursor' \in Subscriber \cup {NULL}
          /\ cursor' # NULL => \E k \in DOMAIN subs[p] : cursor' = subs[p][k]
      BY <3>3, <3>4, <3>5 DEF First
    <3>7. cursor' # NULL => /\ EndOf(cursor') \in Named(subs[p])
                            /\ cursor'.callback => EndOf(cursor') \in handles
      BY <3>2, <3>6 DEF Named, IInv, RecordsOK
    <3>8. WalkOK'
      BY <1>1, <3>2, <3>3, <3>6, <3>7 DEF WalkOK
    <3> QED
      BY <1>2, <2>3, <3>8 DEF IInv
  <2> QED
    BY <2>4, <2>5
<1> QED
  BY <1>3, <1>4

\* A delivery, the return of a handler and the end of a dispatch.
LEMMA DeliverInv ==
    ASSUME IInv, Deliver \/ HandlerReturn \/ DispatchEnd
    PROVE  IInv'
<1>1. UNCHANGED <<alive, handles, subs, backs, link, linkInst, runnow>>
  BY DEF Deliver, HandlerReturn, DispatchEnd
<1>2. RecordsOK' /\ LinksOK' /\ EnvelopesIn(runnow)'
  BY <1>1 DEF IInv, RecordsOK, LinksOK, EnvelopesIn
<1>3. RecordsOK /\ LinksOK /\ EnvelopesIn(queued) /\ WalkOK
  BY DEF IInv
<1>4. CASE Deliver
  <2>1. cursor # NULL /\ stage = "walk" /\ UNCHANGED outPort
    BY <1>4 DEF Deliver
  <2>2. CASE stage' = "handler" /\ UNCHANGED <<queued, cursor>>
    BY <1>1, <1>2, <1>3, <2>1, <2>2 DEF IInv, EnvelopesIn, WalkOK
  <2>3. CASE /\ queued' = queued \o Envelopes(subs, EndOf(cursor))
             /\ cursor' = AfterCursor /\ UNCHANGED stage
    <3>1. outPort \in Ends /\ EndOf(cursor) \in Named(subs[outPort])
      BY <1>3, <2>1 DEF WalkOK
    <3>2. EndOf(cursor) \in Ends
      BY <1>3, <3>1, NamedEnds
    <3>3. Hop(EndOf(cursor)) \in Ends
      BY <1>3, <3>2, ResolveIs
    <3>4. EnvelopesIn(queued')
      BY <1>3, <2>3, <3>2, <3>3, ListedAlive, WriteEnvelopes
    <3>5. EnvelopesIn(queued)'
      BY <1>1, <3>4 DEF EnvelopesIn
    <3>6. WalkOK'
      BY <1>1, <2>1, <2>3, AdvanceStep
    <3> QED
      BY <1>2, <3>5, <3>6 DEF IInv
  <2> QED
    BY <1>4, <2>2, <2>3 DEF Deliver
<1>5. CASE HandlerReturn
  <2>1. stage' = "walk" /\ cursor' = AfterCursor /\ UNCHANGED <<queued, outPort>> /\ cursor # NULL
    BY <1>3, <1>5 DEF HandlerReturn, WalkOK
  <2>2. WalkOK'
    BY <1>1, <2>1, AdvanceStep
  <2>3. EnvelopesIn(queued)'
    BY <1>1, <1>3, <2>1 DEF EnvelopesIn
  <2> QED
    BY <1>2, <2>2, <2>3 DEF IInv
<1>6. CASE DispatchEnd
  <2>1. stage' = "idle" /\ outPort' = NULL /\ cursor = NULL /\ UNCHANGED <<queued, cursor>>
    BY <1>6 DEF DispatchEnd
  <2>2. WalkOK' /\ EnvelopesIn(queued)'
    BY <1>1, <1>3, <2>1 DEF EnvelopesIn, WalkOK
  <2> QED
    BY <1>2, <2>2 DEF IInv
<1> QED
  BY <1>4, <1>5, <1>6

\* Every step of the fabric.
LEMMA NextInv ==
    ASSUME IInv, Reentrant = FALSE, Relink = FALSE, [FabricNext]_fabricVars
    PROVE  IInv'
<1>1. CASE \E i \in Insts : Create(i)
  BY <1>1, CreateInv
<1>2. CASE \E i \in Insts : DeleteInstance(i)
  BY <1>2, DeleteInv
<1>3. CASE \E e \in Handled : Stamp(e)
  BY <1>3, CreateInv
<1>4. CASE \E w \in Wirable : Connect(w[1], w[2])
  <2>1. PICK w \in Wirable : Connect(w[1], w[2])
    BY <1>4
  <2>2. w[1] \in Ends /\ w[2] \in Ends
    BY EndsAssumption
  <2> QED
    BY <2>1, <2>2, ConnectInv
<1>5. CASE \E w \in Wirable : Disconnect(w[1], w[2])
  <2>1. PICK w \in Wirable : Disconnect(w[1], w[2])
    BY <1>5
  <2>2. w[1] \in Ends /\ w[2] \in Ends
    BY EndsAssumption
  <2> QED
    BY <2>1, <2>2, DisconnectInv
<1>6. CASE \E l \in Linkable : LinkPropertyAs(l[1], l[2])
  <2>1. PICK l \in Linkable : LinkPropertyAs(l[1], l[2])
    BY <1>6
  <2>2. l[1] \in Ends /\ l[2] \in Ends
    BY EndsAssumption
  <2> QED
    BY <2>1, <2>2, LinkInv
<1>7. CASE \E e \in Written : SetProp(e) \/ SndMsg(e)
  <2>1. Written \subseteq Ends
    BY EndsAssumption DEF Written
  <2> QED
    BY <1>7, <2>1, SendInv
<1>8. CASE TakeTick \/ Dispatch
  BY <1>8, DispatchInv
<1>9. CASE Deliver \/ HandlerReturn \/ DispatchEnd
  BY <1>9, DeliverInv
<1>10. CASE UNCHANGED fabricVars
  BY <1>10 DEF fabricVars, IInv, RecordsOK, LinksOK, EnvelopesIn, WalkOK
<1> QED
  BY <1>1, <1>2, <1>3, <1>4, <1>5, <1>6, <1>7, <1>8, <1>9, <1>10 DEF FabricNext

-----------------------------------------------------------------------------
(* What follows from the invariant *)

\* The invariant holds of every behaviour whose clients keep the two rules.
THEOREM FabricInv ==
    ASSUME Reentrant = FALSE, Relink = FALSE
    PROVE  FabricSpec => []IInv
<1>1. FabricInit => IInv
  BY InitInv
<1>2. IInv /\ [FabricNext]_fabricVars => IInv'
  BY NextInv
<1> QED
  BY <1>1, <1>2, PTL DEF FabricSpec

\* Type correctness of the records and of the dispatcher.
THEOREM FabricTypes ==
    ASSUME Reentrant = FALSE, Relink = FALSE
    PROVE  FabricSpec => []FabricTypeOK
<1>1. IInv => FabricTypeOK
  BY DEF IInv, RecordsOK, LinksOK, EnvelopesIn, WalkOK, FabricTypeOK
<1>2. FabricSpec => []IInv
  BY FabricInv
<1> QED
  BY <1>1, <1>2, PTL

\* However clients and handlers wire, unwire and delete, a wire is two records,
\* one at each end, and each is there once.
THEOREM TwoRecordsPerWire ==
    ASSUME Reentrant = FALSE, Relink = FALSE
    PROVE  FabricSpec => []WireSymmetry
<1>1. ASSUME IInv PROVE WireSymmetry
  <2>1. RecordsOK
    BY <1>1 DEF IInv
  <2>2. \A s : {EndOf(r) : r \in Elems(s)} = Named(s)
    BY DEF Elems, Named
  <2>3. \A s : \A f : (\E r \in Elems(s) : EndOf(r) = f) <=> f \in Named(s)
    BY DEF Elems, Named
  <2>4. ASSUME NEW e \in Ends
        PROVE  Cardinality(Named(subs[e])) = Len(subs[e]) /\ Cardinality(Named(backs[e])) = Len(backs[e])
    BY <2>1, NamedCount DEF RecordsOK
  <2>5. \A e, f \in Ends : f \in Named(subs[e]) <=> e \in Named(backs[f])
    BY <2>1 DEF RecordsOK
  <2> QED
    BY <2>2, <2>3, <2>4, <2>5 DEF WireSymmetry
<1>2. FabricSpec => []IInv
  BY FabricInv
<1> QED
  BY <1>1, <1>2, PTL

\* Envelopes name the owner of their property, also those sent through a link, so
\* CancelPendingSends finds every envelope of an instance that dies.
THEOREM OwnersCancel ==
    ASSUME Reentrant = FALSE, Relink = FALSE
    PROVE  FabricSpec => []EnvelopeOwner
<1>1. IInv => EnvelopeOwner
  BY DEF IInv, EnvelopesIn, EnvelopeOwner, Elems
<1>2. FabricSpec => []IInv
  BY FabricInv
<1> QED
  BY <1>1, <1>2, PTL

\* DeleteInstance leaves no record, link or envelope behind that leads to what it
\* frees, whatever was wired, linked and in flight.
THEOREM NothingDangles ==
    ASSUME Reentrant = FALSE, Relink = FALSE
    PROVE  FabricSpec => []NoFreedTarget
<1>1. ASSUME IInv PROVE NoFreedTarget
  <2>1. RecordsOK /\ LinksOK
    BY <1>1 DEF IInv
  <2>2. ASSUME NEW e \in Ends, NEW r \in Elems(subs[e])
        PROVE  {e[1], r.inst} \subseteq alive
    <3>1. EndOf(r) \in Named(subs[e]) /\ EndOf(r)[1] = r.inst
      BY DEF Elems, Named, EndOf
    <3> QED
      BY <2>1, <3>1 DEF RecordsOK
  <2>3. ASSUME NEW e \in Ends, NEW r \in Elems(backs[e])
        PROVE  {e[1], r.inst} \subseteq alive
    <3>1. EndOf(r) \in Named(backs[e]) /\ EndOf(r)[1] = r.inst
      BY DEF Elems, Named, EndOf
    <3>2. EndOf(r) \in Ends
      BY <2>1, <3>1, NamedEnds
    <3> QED
      BY <2>1, <3>1, <3>2 DEF RecordsOK
  <2>4. ASSUME NEW e \in Ends, link[e] # NULL
        PROVE  {e[1], link[e][1], linkInst[e]} \subseteq alive
    BY <2>1, <2>4 DEF LinksOK
  <2>5. \A x \in Elems(queued) \cup Elems(runnow) : x.port # NULL => x.port[1] \in alive
    BY <1>1 DEF IInv, EnvelopesIn, Elems
  <2> QED
    BY <2>2, <2>3, <2>4, <2>5 DEF NoFreedTarget
<1>2. FabricSpec => []IInv
  BY FabricInv
<1> QED
  BY <1>1, <1>2, PTL

\* While every handler leaves alone the record it was called through, the walk of
\* DispatchMsg finds that record when the handler returns.
THEOREM CursorStands ==
    ASSUME Reentrant = FALSE, Relink = FALSE
    PROVE  FabricSpec => []CursorLive
<1>1. ASSUME IInv PROVE CursorLive
  <2>1. SUFFICES ASSUME stage = "handler"
                 PROVE  outPort[1] \in alive /\ \E r \in Elems(subs[outPort]) : EndOf(r) = EndOf(cursor)
    BY DEF CursorLive
  <2>2. outPort \in Ends /\ EndOf(cursor) \in Named(subs[outPort])
    BY <1>1, <2>1 DEF IInv, WalkOK
  <2> QED
    <3>1. \E r \in Elems(subs[outPort]) : EndOf(r) = EndOf(cursor)
      BY <2>2 DEF Named, Elems
    <3>2. outPort[1] \in alive
      BY <1>1, <2>2 DEF IInv, RecordsOK
    <3> QED
      BY <3>1, <3>2
<1>2. FabricSpec => []IInv
  BY FabricInv
<1> QED
  BY <1>1, <1>2, PTL

-----------------------------------------------------------------------------
(* The lists implement the sets of Wiring: the mapping, operator by operator *)

\* What a walk has still to reach is what comes after its cursor, and the cursor.
LEMMA ReachIs ==
    ASSUME NEW S, NEW s \in Seq(S), NEW c \in Named(s), NEW p
    PROVE  Reach(s, c, p) = After(s, c) \cup (IF p = "walk" THEN {c} ELSE {})
<1>1. \A k \in DOMAIN s : k \in Nat /\ k >= 1 /\ DOMAIN s = 1 .. Len(s)
  OBVIOUS
<1>2. PICK n \in DOMAIN s : EndOf(s[n]) = c
  BY DEF Named
<1>3. ASSUME NEW x \in Reach(s, c, p)
      PROVE  x \in After(s, c) \/ (p = "walk" /\ x = c)
  <2>1. PICK j \in DOMAIN s : EndOf(s[j]) = x /\ \E i \in 1 .. j : EndOf(s[i]) = c /\ (i < j \/ p = "walk")
    BY DEF Reach
  <2>2. PICK i \in 1 .. j : EndOf(s[i]) = c /\ (i < j \/ p = "walk")
    BY <2>1
  <2>3. i \in DOMAIN s /\ (i < j \/ i = j)
    BY <1>1
  <2>4. CASE i < j
    BY <2>1, <2>2, <2>3, <2>4 DEF After
  <2>5. CASE ~(i < j)
    BY <2>1, <2>2, <2>3, <2>5
  <2> QED
    BY <2>4, <2>5
<1>4. ASSUME NEW x \in After(s, c) PROVE x \in Reach(s, c, p)
  <2>1. PICK j \in DOMAIN s, i \in DOMAIN s : i < j /\ EndOf(s[i]) = c /\ EndOf(s[j]) = x
    BY DEF After
  <2>2. i \in 1 .. j
    BY <1>1, <2>1
  <2> QED
    BY <2>1, <2>2 DEF Reach
<1>5. ASSUME p = "walk" PROVE c \in Reach(s, c, p)
  <2>1. n \in 1 .. n
    BY <1>1
  <2> QED
    BY <1>2, <1>5, <2>1 DEF Reach
<1> QED
  BY <1>3, <1>4, <1>5

\* From the first record of a list, everything it names comes after it.
LEMMA AfterFirst ==
    ASSUME NEW S, NEW s \in Seq(S), 1 \in DOMAIN s
    PROVE  After(s, EndOf(s[1])) \cup {EndOf(s[1])} = Named(s)
<1>1. \A k \in DOMAIN s : k \in Nat /\ (k = 1 \/ 1 < k)
  OBVIOUS
<1>2. ASSUME NEW x \in Named(s) PROVE x \in After(s, EndOf(s[1])) \cup {EndOf(s[1])}
  BY <1>1 DEF Named, After
<1>3. ASSUME NEW x \in After(s, EndOf(s[1])) \cup {EndOf(s[1])} PROVE x \in Named(s)
  BY DEF Named, After
<1> QED
  BY <1>2, <1>3

\* From one record to the next, the next is taken off what comes after.
LEMMA AfterNext ==
    ASSUME NEW S, NEW s \in Seq(S), Distinct(s), NEW p \in DOMAIN s, p + 1 \in DOMAIN s
    PROVE  After(s, EndOf(s[p + 1])) \cup {EndOf(s[p + 1])} = After(s, EndOf(s[p]))
<1>1. \A k \in DOMAIN s : k \in Nat
  OBVIOUS
<1>2. /\ \A k \in DOMAIN s : EndOf(s[k]) = EndOf(s[p]) => k = p
      /\ \A k \in DOMAIN s : EndOf(s[k]) = EndOf(s[p + 1]) => k = p + 1
  BY DEF Distinct
<1>3. \A x : x \in After(s, EndOf(s[p])) <=> \E k \in DOMAIN s : p < k /\ x = EndOf(s[k])
  BY <1>2 DEF After
<1>4. \A x : x \in After(s, EndOf(s[p + 1])) <=> \E k \in DOMAIN s : p + 1 < k /\ x = EndOf(s[k])
  BY <1>2 DEF After
<1>5. \A k \in DOMAIN s : p < k <=> k = p + 1 \/ p + 1 < k
  BY <1>1
<1> QED
  BY <1>3, <1>4, <1>5

\* Nothing comes after the last record.
LEMMA AfterLast ==
    ASSUME NEW S, NEW s \in Seq(S), Distinct(s), NEW p \in DOMAIN s, p = Len(s)
    PROVE  After(s, EndOf(s[p])) = {}
<1>1. \A k \in DOMAIN s : ~(p < k)
  OBVIOUS
<1>2. \A k \in DOMAIN s : EndOf(s[k]) = EndOf(s[p]) => k = p
  BY DEF Distinct
<1> QED
  BY <1>1, <1>2 DEF After

\* No end comes after itself.
LEMMA NotAfterSelf ==
    ASSUME NEW S, NEW s \in Seq(S), Distinct(s), NEW c
    PROVE  c \notin After(s, c)
<1>1. \A k \in DOMAIN s : k \in Nat
  OBVIOUS
<1> QED
  BY <1>1 DEF After, Distinct

\* The list of a property is the set of its wires.
LEMMA SinksAre ==
    ASSUME NEW S, NEW W, \A w : w \in W <=> w \in Ends \X Ends /\ w[2] \in Named(S[w[1]]),
           NEW e \in Ends, Named(S[e]) \subseteq Ends
    PROVE  Abstract!SinksOf(W, e) = Named(S[e])
<1>1. ASSUME NEW x \in Abstract!SinksOf(W, e) PROVE x \in Named(S[e])
  BY DEF Abstract!SinksOf
<1>2. ASSUME NEW x \in Named(S[e]) PROVE x \in Abstract!SinksOf(W, e)
  <2>1. <<e, x>> \in W
    OBVIOUS
  <2> QED
    BY <2>1 DEF Abstract!SinksOf
<1> QED
  BY <1>1, <1>2

\* Envelopes are as many, and in the same order.
LEMMA OutportIs ==
    ASSUME NEW s \in Seq(Envelope)
    PROVE  /\ Outport(s) \in Seq(Ends \cup {NULL}) /\ Len(Outport(s)) = Len(s)
           /\ Outport(s) = <<>> <=> s = <<>>
           /\ s # <<>> => Head(Outport(s)) = Head(s).port /\ Outport(Tail(s)) = Tail(Outport(s))
           /\ \A x \in Envelope : Outport(Append(s, x)) = Append(Outport(s), x.port)
<1> DEFINE o == Outport(s)
<1>1. o = [k \in 1 .. Len(s) |-> s[k].port] /\ Len(s) \in Nat
  <2>1. DOMAIN s = 1 .. Len(s) /\ Len(s) \in Nat
    OBVIOUS
  <2> QED
    BY <2>1 DEF Outport
<1>2. \A k \in 1 .. Len(s) : s[k].port \in Ends \cup {NULL}
  <2>1. \A x \in Envelope : x.port \in Ends \cup {NULL}
    BY DEF Envelope
  <2>2. \A k \in 1 .. Len(s) : s[k] \in Envelope
    OBVIOUS
  <2> QED
    BY <2>1, <2>2
<1> HIDE DEF o
<1>3. o \in Seq(Ends \cup {NULL}) /\ Len(o) = Len(s) /\ (o = <<>> <=> s = <<>>)
  <2>1. o \in [1 .. Len(s) -> Ends \cup {NULL}]
    BY <1>1, <1>2
  <2>2. o \in Seq(Ends \cup {NULL}) /\ Len(o) = Len(s)
    BY <1>1, <2>1
  <2> QED
    BY <2>2
<1>4. ASSUME s # <<>> PROVE Head(o) = Head(s).port /\ Outport(Tail(s)) = Tail(o)
  <2>1. Head(o) = Head(s).port
    BY <1>1, <1>3, <1>4
  <2>2. Outport(Tail(s)) = [k \in 1 .. Len(s) - 1 |-> s[k + 1].port]
    BY <1>4 DEF Outport
  <2>3. Tail(o) = [k \in 1 .. Len(s) - 1 |-> s[k + 1].port]
    BY <1>1, <1>3, <1>4
  <2> QED
    BY <2>1, <2>2, <2>3
<1>5. ASSUME NEW x \in Envelope PROVE Outport(Append(s, x)) = Append(o, x.port)
  <2>1. Outport(Append(s, x)) = [k \in 1 .. Len(s) + 1 |-> IF k = Len(s) + 1 THEN x.port ELSE s[k].port]
    BY DEF Outport
  <2>2. Append(o, x.port) = [k \in 1 .. Len(s) + 1 |-> IF k = Len(s) + 1 THEN x.port ELSE s[k].port]
    BY <1>1, <1>3
  <2> QED
    BY <2>1, <2>2
<1> QED
  BY <1>3, <1>4, <1>5 DEF o

\* What a write queues.
LEMMA FanOutIs ==
    ASSUME LinksOK, NEW q \in Seq(Envelope), NEW e \in Ends, NEW S, NEW W,
           Abstract!SinksOf(W, Hop(e)) = Named(S[Hop(e)]), S[Hop(e)] \in Seq(Subscriber)
    PROVE  Outport(q \o Envelopes(S, e)) = Abstract!FanOut(W, Hop(e), Outport(q))
<1> DEFINE s == S[Hop(e)]
           x == [inst |-> Hop(e)[1], port |-> Hop(e)]
<1>1. s = <<>> <=> Named(s) = {}
  BY NamedNonempty
<1>2. Hop(e) \in Ends /\ Hop(e)[1] \in Insts
  BY ResolveIs, EndParts
<1>3. CASE s = <<>>
  <2>1. Envelopes(S, e) = <<>>
    BY <1>3, EnvelopesIs
  <2>2. Abstract!FanOut(W, Hop(e), Outport(q)) = Outport(q)
    BY <1>1, <1>3 DEF Abstract!FanOut
  <2>3. q \o <<>> = q
    OBVIOUS
  <2> QED
    BY <2>1, <2>2, <2>3
<1>4. CASE s # <<>>
  <2>1. Envelopes(S, e) = <<x>>
    BY <1>4, EnvelopesIs
  <2>2. Abstract!FanOut(W, Hop(e), Outport(q)) = Append(Outport(q), Hop(e))
    BY <1>1, <1>4 DEF Abstract!FanOut
  <2>3. x \in Envelope /\ x.port = Hop(e)
    BY <1>2 DEF Envelope
  <2> HIDE DEF x
  <2>4. q \o <<x>> = Append(q, x)
    BY <2>3
  <2>5. Outport(Append(q, x)) = Append(Outport(q), x.port)
    BY <2>3, OutportIs
  <2> QED
    BY <2>1, <2>2, <2>3, <2>4, <2>5
<1> QED
  BY <1>3, <1>4

\* Records name ends, in the next state too.
LEMMA NamedEndsOf ==
    ASSUME NEW S \in [Ends -> Seq(Subscriber)], NEW e \in Ends
    PROVE  Named(S[e]) \subseteq Ends /\ \A c : After(S[e], c) \subseteq Named(S[e])
<1>1. \A r \in Subscriber : EndOf(r) \in Ends
  BY DEF EndOf, Ends, Subscriber
<1>2. S[e] \in Seq(Subscriber)
  OBVIOUS
<1>3. \A k \in DOMAIN S[e] : S[e][k] \in Subscriber
  BY <1>2
<1> QED
  BY <1>1, <1>3 DEF Named, After

\* The wires and what the dispatch has still to reach, read off the lists.
LEMMA MapIs ==
    ASSUME IInv
    PROVE  /\ \A w : w \in Wires <=> w \in Ends \X Ends /\ w[2] \in Named(subs[w[1]])
           /\ \A e \in Ends : Abstract!SinksOf(Wires, e) = Named(subs[e])
           /\ \A e : Abstract!Resolve(e) = Hop(e)
           /\ cursor = NULL => ToReach = {}
           /\ cursor # NULL => ToReach = After(subs[outPort], EndOf(cursor)) \cup
                                         (IF stage = "walk" THEN {EndOf(cursor)} ELSE {})
           /\ Room => Abstract!Room
<1>1. \A w : w \in Wires <=> w \in Ends \X Ends /\ w[2] \in Named(subs[w[1]])
  BY DEF Wires, Named, Elems
<1>2. subs \in [Ends -> Seq(Subscriber)]
  BY DEF IInv, RecordsOK
<1>3. \A e \in Ends : Abstract!SinksOf(Wires, e) = Named(subs[e])
  BY <1>1, <1>2, NamedEndsOf, SinksAre
<1>4. \A e : Abstract!Resolve(e) = Hop(e)
  BY DEF Abstract!Resolve, Hop
<1>5. cursor = NULL => ToReach = {}
  BY DEF ToReach
<1>6. ASSUME cursor # NULL
      PROVE  ToReach = After(subs[outPort], EndOf(cursor)) \cup (IF stage = "walk" THEN {EndOf(cursor)} ELSE {})
  <2>1. outPort \in Ends /\ outPort # NULL /\ EndOf(cursor) \in Named(subs[outPort])
    BY <1>6, EndsAssumption DEF IInv, WalkOK
  <2>2. subs[outPort] \in Seq(Subscriber)
    BY <1>2, <2>1
  <2>3. ToReach = Reach(subs[outPort], EndOf(cursor), stage)
    BY <1>6, <2>1 DEF ToReach
  <2> QED
    BY <2>1, <2>2, <2>3, ReachIs
<1>7. Room => Abstract!Room
  <2>1. Len(Outport(queued)) = Len(queued) /\ Len(Outport(runnow)) = Len(runnow)
    BY OutportIs DEF IInv, EnvelopesIn
  <2>2. \A S : Abstract!Cardinality(S) = Cardinality(S)
    BY DEF Abstract!Cardinality, Cardinality
  <2> QED
    BY <2>1, <2>2 DEF Room, Abstract!Room
<1> QED
  BY <1>1, <1>3, <1>4, <1>5, <1>6, <1>7

\* The same in the state after a step.
LEMMA MapNext ==
    ASSUME IInv'
    PROVE  /\ \A w : w \in Wires' <=> w \in Ends \X Ends /\ w[2] \in Named(subs'[w[1]])
           /\ \A e \in Ends : Abstract!SinksOf(Wires', e) = Named(subs'[e])
           /\ cursor' = NULL => ToReach' = {}
           /\ cursor' # NULL => ToReach' = After(subs'[outPort'], EndOf(cursor')) \cup
                                           (IF stage' = "walk" THEN {EndOf(cursor')} ELSE {})
<1>1. \A w : w \in Wires' <=> w \in Ends \X Ends /\ w[2] \in Named(subs'[w[1]])
  BY DEF Wires, Named, Elems
<1>2. subs' \in [Ends -> Seq(Subscriber)]
  BY DEF IInv, RecordsOK
<1>3. \A e \in Ends : Abstract!SinksOf(Wires', e) = Named(subs'[e])
  BY <1>1, <1>2, NamedEndsOf, SinksAre
<1>4. cursor' = NULL => ToReach' = {}
  BY DEF ToReach
<1>5. ASSUME cursor' # NULL
      PROVE  ToReach' = After(subs'[outPort'], EndOf(cursor')) \cup (IF stage' = "walk" THEN {EndOf(cursor')} ELSE {})
  <2>1. outPort' \in Ends /\ outPort' # NULL /\ EndOf(cursor') \in Named(subs'[outPort'])
    BY <1>5, EndsAssumption DEF IInv, WalkOK
  <2>2. subs'[outPort'] \in Seq(Subscriber)
    BY <1>2, <2>1
  <2>3. ToReach' = Reach(subs'[outPort'], EndOf(cursor'), stage')
    BY <1>5, <2>1 DEF ToReach
  <2> QED
    BY <2>1, <2>2, <2>3, ReachIs
<1> QED
  BY <1>1, <1>3, <1>4, <1>5

-----------------------------------------------------------------------------
(* Every step maps to a step of Wiring *)

\* Connect adds one wire and keeps the walk of a running dispatch as it was.
LEMMA ConnectMaps ==
    ASSUME IInv, IInv', NEW e \in Ends, NEW f \in Ends, Connect(e, f)
    PROVE  Abstract!Connect(e, f)
<1> DEFINE F == Hop(e)
           T == Hop(f)
           w == <<T[1], WiringPort>>
<1>1. RecordsOK /\ LinksOK /\ WalkOK /\ queued \in Seq(Envelope)
  BY DEF IInv, EnvelopesIn
<1>2. F \in Ends /\ T \in Ends /\ w \in Ends
  <2>1. F \in Ends /\ T \in Ends
    BY <1>1, ResolveIs
  <2> QED
    BY <2>1, EndsAssumption DEF Ends
<1>3. /\ \A x \in Ends : x # F => subs'[x] = subs[x]
      /\ Named(subs'[F]) = Named(subs[F]) \cup {T}
      /\ \A c \in Named(subs[F]) : After(subs'[F], c) = After(subs[F], c)
  BY ConnectRecords
<1>4. /\ UNCHANGED <<alive, handles, link, linkInst, runnow, outPort, cursor, stage>>
      /\ queued' = queued \o Envelopes(subs', w) /\ FabricTurn /\ Room
      /\ e[1] \in alive /\ f[1] \in alive
  <2>1. ResolvePort(e) = [owner |-> Hop(e)[1], node |-> Hop(e)]
    BY <1>1, ResolveIs
  <2>2. ResolvePort(f) = [owner |-> Hop(f)[1], node |-> Hop(f)]
    BY <1>1, ResolveIs
  <2> QED
    BY <2>1, <2>2 DEF Connect
<1> HIDE DEF F, T, w
<1>5. Wires' = Wires \cup {<<F, T>>}
  <2>1. ASSUME NEW x \in Ends, NEW y \in Ends
        PROVE  y \in Named(subs'[x]) <=> y \in Named(subs[x]) \/ (x = F /\ y = T)
    BY <1>3
  <2>2. \A v : v \in Ends \X Ends => v[1] \in Ends /\ v[2] \in Ends /\ v = <<v[1], v[2]>>
    OBVIOUS
  <2>3. ASSUME NEW v PROVE v \in Wires' <=> v \in Wires \/ v = <<F, T>>
    BY <1>2, <2>1, <2>2, MapIs, MapNext
  <2> QED
    BY <2>3
<1>6. Outport(queued)' = Abstract!FanOut(Wires', Hop(w), Outport(queued))
  <2>1. Hop(w) \in Ends
    BY <1>1, <1>2, ResolveIs
  <2>2. subs'[Hop(w)] \in Seq(Subscriber) /\ Abstract!SinksOf(Wires', Hop(w)) = Named(subs'[Hop(w)])
    BY <2>1, MapNext DEF IInv, RecordsOK
  <2>3. Outport(queued \o Envelopes(subs', w)) = Abstract!FanOut(Wires', Hop(w), Outport(queued))
    BY <1>1, <1>2, <2>2, FanOutIs
  <2> QED
    BY <1>4, <2>3 DEF Outport
<1>7. ToReach' = ToReach
  <2>1. CASE cursor = NULL
    BY <1>4, <2>1, MapIs, MapNext
  <2>2. CASE cursor # NULL
    <3>1. outPort \in Ends /\ EndOf(cursor) \in Named(subs[outPort])
      BY <1>1, <2>2, EndsAssumption DEF WalkOK
    <3>2. After(subs'[outPort], EndOf(cursor)) = After(subs[outPort], EndOf(cursor))
      BY <1>3, <3>1
    <3> QED
      BY <1>4, <2>2, <3>2, MapIs, MapNext
  <2> QED
    BY <2>1, <2>2
<1>8. Abstract!Room /\ Abstract!ClientTurn
  BY <1>4, MapIs DEF FabricTurn, Abstract!ClientTurn
<1>9. Outport(runnow)' = Outport(runnow)
  BY <1>4 DEF Outport
<1>10. Abstract!Resolve(e) = F /\ Abstract!Resolve(f) = T /\ Abstract!Resolve(w) = Hop(w)
  BY MapIs DEF F, T
<1> QED
  BY <1>4, <1>5, <1>6, <1>7, <1>8, <1>9, <1>10 DEF Abstract!Connect, w

\* Disconnect takes one wire, from the walk of a running dispatch too.
LEMMA DisconnectMaps ==
    ASSUME IInv, IInv', Reentrant = FALSE, NEW e \in Ends, NEW f \in Ends, Disconnect(e, f)
    PROVE  Abstract!Disconnect(e, f)
<1> DEFINE F == Hop(e)
           T == Hop(f)
           w == <<T[1], WiringPort>>
<1>1. RecordsOK /\ LinksOK /\ WalkOK /\ queued \in Seq(Envelope)
  BY DEF IInv, EnvelopesIn
<1>2. F \in Ends /\ T \in Ends /\ w \in Ends
  <2>1. F \in Ends /\ T \in Ends
    BY <1>1, ResolveIs
  <2> QED
    BY <2>1, EndsAssumption DEF Ends
<1>3. /\ \A x \in Ends : x # F => subs'[x] = subs[x]
      /\ Named(subs'[F]) = Named(subs[F]) \ {T} /\ T \in Named(subs[F])
      /\ \A c : c # T => After(subs'[F], c) = After(subs[F], c) \ {T}
  BY DisconnectRecords
<1>4. /\ UNCHANGED <<alive, handles, link, linkInst, runnow, outPort, cursor, stage>>
      /\ queued' = queued \o Envelopes(subs', w) /\ FabricTurn /\ Room
      /\ e[1] \in alive /\ f[1] \in alive
  <2>1. ResolvePort(e) = [owner |-> Hop(e)[1], node |-> Hop(e)]
    BY <1>1, ResolveIs
  <2>2. ResolvePort(f) = [owner |-> Hop(f)[1], node |-> Hop(f)]
    BY <1>1, ResolveIs
  <2> QED
    BY <2>1, <2>2 DEF Disconnect
<1>5. cursor # NULL /\ outPort = F => EndOf(cursor) # T
  BY DisconnectInv
<1> HIDE DEF F, T, w
<1>6. Wires' = Wires \ {<<F, T>>} /\ <<F, T>> \in Wires
  <2>1. ASSUME NEW x \in Ends, NEW y \in Ends
        PROVE  y \in Named(subs'[x]) <=> y \in Named(subs[x]) /\ ~(x = F /\ y = T)
    BY <1>3
  <2>2. \A v : v \in Ends \X Ends => v[1] \in Ends /\ v[2] \in Ends /\ v = <<v[1], v[2]>>
    OBVIOUS
  <2>3. ASSUME NEW v PROVE v \in Wires' <=> v \in Wires /\ v # <<F, T>>
    BY <1>2, <2>1, <2>2, MapIs, MapNext
  <2>4. <<F, T>> \in Wires
    BY <1>2, <1>3, MapIs
  <2> QED
    BY <2>3, <2>4
<1>7. Outport(queued)' = Abstract!FanOut(Wires', Hop(w), Outport(queued))
  <2>1. Hop(w) \in Ends
    BY <1>1, <1>2, ResolveIs
  <2>2. subs'[Hop(w)] \in Seq(Subscriber) /\ Abstract!SinksOf(Wires', Hop(w)) = Named(subs'[Hop(w)])
    BY <2>1, MapNext DEF IInv, RecordsOK
  <2>3. Outport(queued \o Envelopes(subs', w)) = Abstract!FanOut(Wires', Hop(w), Outport(queued))
    BY <1>1, <1>2, <2>2, FanOutIs
  <2> QED
    BY <1>4, <2>3 DEF Outport
<1>8. ToReach' = IF outPort = F THEN ToReach \ {T} ELSE ToReach
  <2>1. CASE cursor = NULL
    BY <1>4, <2>1, MapIs, MapNext
  <2>2. CASE cursor # NULL
    <3>1. outPort \in Ends /\ stage = "handler"
      BY <1>1, <1>4, <2>2, EndsAssumption DEF WalkOK, FabricTurn
    <3>2. ToReach = After(subs[outPort], EndOf(cursor)) /\ ToReach' = After(subs'[outPort], EndOf(cursor))
      BY <1>4, <2>2, <3>1, MapIs, MapNext
    <3>3. CASE outPort = F
      BY <1>3, <1>5, <2>2, <3>2, <3>3
    <3>4. CASE outPort # F
      BY <1>3, <3>1, <3>2, <3>4
    <3> QED
      BY <3>3, <3>4
  <2> QED
    BY <2>1, <2>2
<1>9. Abstract!Room /\ Abstract!ClientTurn
  BY <1>4, MapIs DEF FabricTurn, Abstract!ClientTurn
<1>10. Outport(runnow)' = Outport(runnow)
  BY <1>4 DEF Outport
<1>11. Abstract!Resolve(e) = F /\ Abstract!Resolve(f) = T /\ Abstract!Resolve(w) = Hop(w)
  BY MapIs DEF F, T
<1> QED
  BY <1>4, <1>6, <1>7, <1>8, <1>9, <1>10, <1>11 DEF Abstract!Disconnect, w

\* Clients that neither wire nor delete leave the walk alone.
LEMMA ToReachSame ==
    ASSUME UNCHANGED <<subs, outPort, cursor, stage>>
    PROVE  UNCHANGED <<Wires, ToReach>>
BY DEF Wires, ToReach

\* Create, Stamp and LinkPropertyAs.
LEMMA ClientMaps ==
    ASSUME IInv, Relink = FALSE
    PROVE  /\ \A i \in Insts : Create(i) => Abstract!Create(i)
           /\ \A e \in Handled : Stamp(e) => Abstract!Stamp(e)
           /\ \A e, f \in Ends : LinkPropertyAs(e, f) => Abstract!Link(e, f)
<1>1. ASSUME NEW i \in Insts, Create(i) PROVE Abstract!Create(i)
  <2>1. UNCHANGED <<Wires, ToReach>>
    BY <1>1, ToReachSame DEF Create
  <2>2. UNCHANGED <<Outport(queued), Outport(runnow)>>
    BY <1>1 DEF Create, Outport
  <2> QED
    BY <1>1, <2>1, <2>2 DEF Create, Abstract!Create, FabricTurn, Abstract!ClientTurn
<1>2. ASSUME NEW e \in Handled, Stamp(e) PROVE Abstract!Stamp(e)
  <2>1. UNCHANGED <<Wires, ToReach>>
    BY <1>2, ToReachSame DEF Stamp
  <2>2. UNCHANGED <<Outport(queued), Outport(runnow)>>
    BY <1>2 DEF Stamp, Outport
  <2> QED
    BY <1>2, <2>1, <2>2 DEF Stamp, Abstract!Stamp, FabricTurn, Abstract!ClientTurn
<1>3. ASSUME NEW e \in Ends, NEW f \in Ends, LinkPropertyAs(e, f) PROVE Abstract!Link(e, f)
  <2>1. UNCHANGED <<Wires, ToReach>>
    BY <1>3, ToReachSame DEF LinkPropertyAs
  <2>2. UNCHANGED <<Outport(queued), Outport(runnow)>>
    BY <1>3 DEF LinkPropertyAs, Outport
  <2>3. link' = [link EXCEPT ![e] = Hop(f)] /\ Hop(f) # e /\ \A x \in Ends : link[x] # e
    BY <1>3, LinkStep
  <2>4. Abstract!Resolve(f) = Hop(f) /\ Abstract!Ends = Ends
    BY MapIs DEF Abstract!Ends, Ends
  <2> QED
    BY <1>3, <2>1, <2>2, <2>3, <2>4 DEF LinkPropertyAs, Abstract!Link, FabricTurn, Abstract!ClientTurn
<1> QED
  BY <1>1, <1>2, <1>3

\* SetProp and SndMsg.
LEMMA SendMaps ==
    ASSUME IInv, NEW e \in Ends
    PROVE  (SetProp(e) => Abstract!Write(e)) /\ (SndMsg(e) => Abstract!Send(e))
<1>1. LinksOK /\ queued \in Seq(Envelope) /\ Hop(e) \in Ends
  BY ResolveIs DEF IInv, EnvelopesIn
<1>2. Abstract!Resolve(e) = Hop(e)
  BY MapIs
<1>3. ASSUME SetProp(e) PROVE Abstract!Write(e)
  <2>1. UNCHANGED <<Wires, ToReach>>
    BY <1>3, ToReachSame DEF SetProp
  <2>2. UNCHANGED Outport(runnow)
    BY <1>3 DEF SetProp, Outport
  <2>3. subs[Hop(e)] \in Seq(Subscriber) /\ Abstract!SinksOf(Wires, Hop(e)) = Named(subs[Hop(e)])
    BY <1>1, MapIs DEF IInv, RecordsOK
  <2>4. Outport(queued \o Envelopes(subs, e)) = Abstract!FanOut(Wires, Hop(e), Outport(queued))
    BY <1>1, <2>3, FanOutIs
  <2>5. Outport(queued)' = Abstract!FanOut(Wires, Hop(e), Outport(queued))
    BY <1>3, <2>4 DEF SetProp, Outport
  <2>6. Abstract!Room /\ Abstract!ClientTurn
    BY <1>3, MapIs DEF SetProp, FabricTurn, Abstract!ClientTurn
  <2> QED
    BY <1>2, <1>3, <2>1, <2>2, <2>5, <2>6 DEF SetProp, Abstract!Write
<1>4. ASSUME SndMsg(e) PROVE Abstract!Send(e)
  <2> DEFINE x == [inst |-> Hop(e)[1], port |-> Hop(e)]
  <2>1. UNCHANGED <<Wires, ToReach>>
    BY <1>4, ToReachSame DEF SndMsg
  <2>2. UNCHANGED Outport(runnow)
    BY <1>4 DEF SndMsg, Outport
  <2>3. queued' = Append(queued, x)
    BY <1>1, <1>4, ResolveIs DEF SndMsg
  <2>4. x \in Envelope /\ x.port = Hop(e)
    BY <1>1, EndParts DEF Envelope
  <2> HIDE DEF x
  <2>5. Outport(Append(queued, x)) = Append(Outport(queued), Hop(e))
    BY <1>1, <2>4, OutportIs
  <2>6. Outport(queued)' = Append(Outport(queued), Hop(e))
    BY <2>3, <2>5 DEF Outport
  <2>7. Abstract!Room /\ Abstract!ClientTurn
    BY <1>4, MapIs DEF SndMsg, FabricTurn, Abstract!ClientTurn
  <2> QED
    BY <1>2, <1>4, <2>1, <2>2, <2>6, <2>7 DEF SndMsg, Abstract!Send
<1> QED
  BY <1>3, <1>4

\* CancelPendingSends goes by the sender, Wiring by the property.
LEMMA CancelIs ==
    ASSUME NEW s, EnvelopesIn(s), NEW i \in Insts
    PROVE  Outport(CancelPendingSends(s, i)) = Abstract!Cancel(Outport(s), i)
<1> DEFINE t == CancelPendingSends(s, i)
           o == Outport(s)
<1>1. s \in Seq(Envelope)
  BY DEF EnvelopesIn
<1>2. DOMAIN t = DOMAIN s /\ DOMAIN o = DOMAIN s
  BY DEF CancelPendingSends, Outport
<1>3. ASSUME NEW k \in DOMAIN s
      PROVE  t[k].port = IF o[k] # NULL /\ o[k][1] = i THEN NULL ELSE o[k]
  <2>1. s[k] \in Envelope /\ (s[k].port # NULL => s[k].port[1] = s[k].inst)
    BY <1>1 DEF EnvelopesIn
  <2>2. t[k] = IF s[k].inst = i THEN [s[k] EXCEPT !.port = NULL] ELSE s[k]
    BY DEF CancelPendingSends
  <2>3. o[k] = s[k].port
    BY DEF Outport
  <2>4. t[k].port = IF s[k].inst = i THEN NULL ELSE s[k].port
    BY <2>1, <2>2 DEF Envelope
  <2> QED
    BY <2>1, <2>3, <2>4
<1> HIDE DEF t, o
<1>4. Outport(t) = [k \in DOMAIN s |-> t[k].port]
  BY <1>2 DEF Outport
<1>5. Abstract!Cancel(o, i) = [k \in DOMAIN s |-> IF o[k] # NULL /\ o[k][1] = i THEN NULL ELSE o[k]]
  BY <1>2 DEF Abstract!Cancel
<1> QED
  BY <1>3, <1>4, <1>5 DEF t, o

\* DeleteInstance takes the wires and the links of an instance, at either end, and
\* its place in the walk of a running dispatch.
LEMMA DeleteMaps ==
    ASSUME IInv, IInv', Reentrant = FALSE, NEW i \in Insts, DeleteInstance(i)
    PROVE  Abstract!Delete(i)
<1>1. RecordsOK /\ WalkOK /\ EnvelopesIn(queued) /\ EnvelopesIn(runnow)
  BY DEF IInv
<1>2. /\ \A x \in Ends : Named(subs'[x]) = IF x[1] = i THEN {} ELSE {y \in Named(subs[x]) : y[1] # i}
      /\ \A x \in Ends, c \in Ends : x[1] # i /\ c[1] # i =>
            After(subs'[x], c) = {y \in After(subs[x], c) : y[1] # i}
  BY DeleteRecords
<1>3. /\ alive' = alive \ {i} /\ handles' = {e \in handles : e[1] # i}
      /\ queued' = CancelPendingSends(queued, i) /\ runnow' = CancelPendingSends(runnow, i)
      /\ UNCHANGED <<outPort, cursor, stage>> /\ FabricTurn /\ i \in alive
  BY DEF DeleteInstance
<1>4. cursor # NULL => outPort[1] # i /\ EndOf(cursor)[1] # i
  BY DeleteInv
<1>5. Wires' = {w \in Wires : w[1][1] # i /\ w[2][1] # i}
  <2>1. ASSUME NEW x \in Ends, NEW y \in Ends
        PROVE  y \in Named(subs'[x]) <=> y \in Named(subs[x]) /\ x[1] # i /\ y[1] # i
    BY <1>2
  <2>2. \A v : v \in Ends \X Ends => v[1] \in Ends /\ v[2] \in Ends
    OBVIOUS
  <2>3. ASSUME NEW v PROVE v \in Wires' <=> v \in Wires /\ v[1][1] # i /\ v[2][1] # i
    BY <2>1, <2>2, MapIs, MapNext
  <2> QED
    BY <2>3
<1>6. link' = [e \in Abstract!Ends |-> IF link[e] = NULL \/ e[1] = i \/ link[e][1] = i THEN NULL ELSE link[e]]
  <2>1. Abstract!Ends = Ends
    BY DEF Abstract!Ends, Ends
  <2> QED
    BY <2>1, DeleteLinks
<1>7. Outport(queued)' = Abstract!Cancel(Outport(queued), i)
  BY <1>1, <1>3, CancelIs DEF Outport
<1>8. Outport(runnow)' = Abstract!Cancel(Outport(runnow), i)
  BY <1>1, <1>3, CancelIs DEF Outport
<1>9. outPort = NULL \/ outPort[1] # i
  <2>1. CASE stage = "idle"
    BY <1>1, <2>1 DEF WalkOK
  <2>2. CASE stage = "handler"
    BY <1>1, <1>4, <2>2 DEF WalkOK
  <2> QED
    BY <1>3, <2>1, <2>2 DEF FabricTurn
<1>10. ToReach' = {s \in ToReach : s[1] # i}
  <2>1. CASE cursor = NULL
    BY <1>3, <2>1, MapIs, MapNext
  <2>2. CASE cursor # NULL
    <3>1. outPort \in Ends /\ stage = "handler" /\ EndOf(cursor) \in Named(subs[outPort])
      BY <1>1, <1>3, <2>2, EndsAssumption DEF WalkOK, FabricTurn
    <3>2. EndOf(cursor) \in Ends
      BY <1>1, <3>1, NamedEnds
    <3>3. ToReach = After(subs[outPort], EndOf(cursor)) /\ ToReach' = After(subs'[outPort], EndOf(cursor))
      BY <1>3, <2>2, <3>1, MapIs, MapNext
    <3> QED
      BY <1>2, <1>4, <2>2, <3>1, <3>2, <3>3
  <2> QED
    BY <2>1, <2>2
<1>11. Abstract!ClientTurn
  BY <1>3 DEF FabricTurn, Abstract!ClientTurn
<1> QED
  BY <1>3, <1>5, <1>6, <1>7, <1>8, <1>9, <1>10, <1>11 DEF Abstract!Delete

\* A dispatch begins with every wire of its property to reach.
LEMMA DispatchMaps ==
    ASSUME IInv, IInv'
    PROVE  (TakeTick => Abstract!Tick) /\ (Dispatch => Abstract!Dispatch)
<1>1. /\ queued \in Seq(Envelope) /\ runnow \in Seq(Envelope)
      /\ subs \in [Ends -> Seq(Subscriber)] /\ \A e \in Ends : Distinct(subs[e])
  BY DEF IInv, EnvelopesIn, RecordsOK
<1>2. /\ Len(Outport(queued)) = Len(queued) /\ Len(Outport(runnow)) = Len(runnow)
      /\ Outport(runnow) = <<>> <=> runnow = <<>>
      /\ Outport(queued) = <<>> <=> queued = <<>>
      /\ runnow # <<>> => /\ Head(Outport(runnow)) = Head(runnow).port
                         /\ Outport(Tail(runnow)) = Tail(Outport(runnow))
  BY <1>1, OutportIs
<1>3. ASSUME TakeTick PROVE Abstract!Tick
  <2>1. UNCHANGED <<Wires, ToReach>>
    BY <1>3, ToReachSame DEF TakeTick
  <2>2. Outport(runnow)' = Outport(queued) /\ Outport(queued)' = <<>>
    BY <1>3 DEF TakeTick, Outport
  <2> QED
    BY <1>2, <1>3, <2>1, <2>2 DEF TakeTick, Abstract!Tick
<1>4. ASSUME Dispatch PROVE Abstract!Dispatch
  <2> DEFINE p == Head(runnow).port
  <2>1. /\ stage = "idle" /\ runnow # <<>> /\ runnow' = Tail(runnow)
        /\ UNCHANGED <<alive, handles, subs, backs, link, linkInst, queued>>
    BY <1>4 DEF Dispatch
  <2>2. Outport(runnow)' = Tail(Outport(runnow)) /\ UNCHANGED Outport(queued)
    BY <1>2, <2>1 DEF Outport
  <2>3. UNCHANGED Wires
    BY <2>1 DEF Wires
  <2>4. CASE p = NULL
    <3>1. UNCHANGED <<outPort, cursor, stage>>
      BY <1>4, <2>4 DEF Dispatch
    <3>2. UNCHANGED ToReach
      BY <2>1, <3>1, ToReachSame
    <3> QED
      BY <1>2, <2>1, <2>2, <2>3, <2>4, <3>1, <3>2 DEF Abstract!Dispatch
  <2>5. CASE p # NULL
    <3>1. Head(runnow) \in Envelope
      BY <1>1, <2>1
    <3>2. p \in Ends
      BY <2>5, <3>1 DEF Envelope
    <3>3. /\ outPort' = p /\ stage' = "walk" /\ cursor' = First(p)
          /\ Len(queued) + Len(runnow) + Len(subs[p]) <= MaxSends + 1
      BY <1>4, <2>5 DEF Dispatch
    <3>4. Head(Outport(runnow)) = p
      BY <1>2, <2>1
    <3> HIDE DEF p
    <3>5. Abstract!SinksOf(Wires, p) = Named(subs[p])
      BY <3>2, MapIs
    <3>6. subs[p] \in Seq(Subscriber) /\ Distinct(subs[p])
      BY <1>1, <3>2
    <3>7. Abstract!Cardinality(Named(subs[p])) = Len(subs[p])
      <4>1. \A S : Abstract!Cardinality(S) = Cardinality(S)
        BY DEF Abstract!Cardinality, Cardinality
      <4> QED
        BY <3>6, <4>1, NamedCount
    <3>8. ToReach' = Named(subs[p])
      <4>1. CASE subs[p] = <<>>
        <5>1. cursor' = NULL /\ Named(subs[p]) = {}
          BY <3>3, <3>6, <4>1, NamedNonempty DEF First
        <5> QED
          BY <5>1, MapNext
      <4>2. CASE subs[p] # <<>>
        <5>1. cursor' = subs[p][1] /\ 1 \in DOMAIN subs[p] /\ subs[p][1] \in Subscriber
          BY <3>3, <3>6, <4>2 DEF First
        <5>2. cursor' # NULL
          BY <5>1, FabricAssumption DEF Subscriber
        <5>3. ToReach' = After(subs[p], EndOf(subs[p][1])) \cup {EndOf(subs[p][1])}
          BY <2>1, <3>3, <5>1, <5>2, MapNext
        <5> QED
          BY <3>6, <5>1, <5>3, AfterFirst
      <4> QED
        BY <4>1, <4>2
    <3> QED
      BY <1>2, <2>1, <2>2, <2>3, <2>5, <3>3, <3>4, <3>5, <3>7, <3>8 DEF Abstract!Dispatch, p
  <2> QED
    BY <2>4, <2>5
<1> QED
  BY <1>3, <1>4

\* Moving on from the cursor leaves what came after it to reach.
LEMMA AdvanceReach ==
    ASSUME IInv, IInv', cursor # NULL, cursor' = AfterCursor, stage' = "walk", UNCHANGED <<subs, outPort>>
    PROVE  ToReach' = After(subs[outPort], EndOf(cursor))
<1> DEFINE s == subs[outPort]
           c == EndOf(cursor)
<1>1. RecordsOK /\ WalkOK
  BY DEF IInv
<1>2. PICK p \in DOMAIN s :
         /\ EndOf(s[p]) = c /\ outPort \in Ends
         /\ \/ p + 1 \in DOMAIN s /\ AfterCursor = s[p + 1]
            \/ p = Len(s) /\ AfterCursor = NULL
  BY <1>1, AfterCursorIs
<1>3. s \in Seq(Subscriber) /\ Distinct(s)
  BY <1>1, <1>2 DEF RecordsOK
<1>4. CASE p + 1 \in DOMAIN s /\ AfterCursor = s[p + 1]
  <2>1. cursor' = s[p + 1] /\ s[p + 1] \in Subscriber
    BY <1>3, <1>4
  <2>2. cursor' # NULL
    BY <2>1, FabricAssumption DEF Subscriber
  <2>3. ToReach' = After(s, EndOf(s[p + 1])) \cup {EndOf(s[p + 1])}
    BY <2>1, <2>2, MapNext
  <2> QED
    BY <1>2, <1>3, <1>4, <2>3, AfterNext
<1>5. CASE p = Len(s) /\ AfterCursor = NULL
  <2>1. ToReach' = {}
    BY <1>5, MapNext
  <2>2. After(s, c) = {}
    BY <1>2, <1>3, <1>5, AfterLast
  <2> QED
    BY <2>1, <2>2
<1> QED
  BY <1>2, <1>4, <1>5

\* A delivery reaches one wire; the return of a handler and the end of a dispatch
\* reach none.
LEMMA DeliverMaps ==
    ASSUME IInv, IInv'
    PROVE  /\ Deliver => \E s \in Abstract!Ends : Abstract!Deliver(s)
           /\ HandlerReturn => Abstract!HandlerReturn
           /\ DispatchEnd => Abstract!DispatchEnd
<1>1. RecordsOK /\ LinksOK /\ WalkOK /\ queued \in Seq(Envelope)
  BY DEF IInv, EnvelopesIn
<1>2. ASSUME Deliver PROVE \E s \in Abstract!Ends : Abstract!Deliver(s)
  <2> DEFINE c == EndOf(cursor)
  <2>1. /\ stage = "walk" /\ cursor # NULL
        /\ UNCHANGED <<alive, handles, subs, backs, link, linkInst, runnow, outPort>>
    BY <1>2 DEF Deliver
  <2>2. outPort \in Ends /\ c \in Named(subs[outPort]) /\ (cursor.callback => c \in handles)
    BY <1>1, <2>1, EndsAssumption DEF WalkOK
  <2>3. c \in Ends /\ subs[outPort] \in Seq(Subscriber) /\ Distinct(subs[outPort])
    BY <1>1, <2>2, NamedEnds DEF RecordsOK
  <2>4. /\ UNCHANGED Wires /\ UNCHANGED Outport(runnow)
        /\ ToReach = After(subs[outPort], c) \cup {c} /\ c \notin After(subs[outPort], c)
    <3>1. UNCHANGED Wires /\ UNCHANGED Outport(runnow)
      BY <2>1 DEF Wires, Outport
    <3>2. ToReach = After(subs[outPort], c) \cup {c}
      BY <2>1, MapIs
    <3>3. c \notin After(subs[outPort], c)
      BY <2>3, NotAfterSelf
    <3> QED
      BY <3>1, <3>2, <3>3
  <2>5. ASSUME ToReach' = ToReach \ {c},
               IF c \in handles THEN stage' = "handler" /\ UNCHANGED Outport(queued)
               ELSE Outport(queued)' = Abstract!FanOut(Wires, Hop(c), Outport(queued)) /\ UNCHANGED stage
        PROVE  \E s \in Abstract!Ends : Abstract!Deliver(s)
    <3>1. Abstract!Resolve(c) = Hop(c) /\ c \in Abstract!Ends
      BY <2>3, MapIs DEF Abstract!Ends, Ends
    <3> QED
      BY <2>1, <2>4, <2>5, <3>1 DEF Abstract!Deliver
  <2>6. CASE c \in handles
    <3>1. stage' = "handler" /\ UNCHANGED <<queued, cursor>>
      BY <1>2, <2>6 DEF Deliver
    <3>2. ToReach' = After(subs[outPort], c)
      BY <2>1, <3>1, MapNext
    <3>3. UNCHANGED Outport(queued)
      BY <3>1 DEF Outport
    <3> QED
      BY <2>4, <2>5, <2>6, <3>1, <3>2, <3>3
  <2>7. CASE c \notin handles
    <3>1. queued' = queued \o Envelopes(subs, c) /\ cursor' = AfterCursor /\ UNCHANGED stage
      BY <1>2, <2>2, <2>7 DEF Deliver
    <3>2. ToReach' = After(subs[outPort], c)
      BY <2>1, <3>1, AdvanceReach
    <3>3. Hop(c) \in Ends
      BY <1>1, <2>3, ResolveIs
    <3>4. subs[Hop(c)] \in Seq(Subscriber) /\ Abstract!SinksOf(Wires, Hop(c)) = Named(subs[Hop(c)])
      BY <1>1, <3>3, MapIs DEF RecordsOK
    <3>5. Outport(queued \o Envelopes(subs, c)) = Abstract!FanOut(Wires, Hop(c), Outport(queued))
      BY <1>1, <2>3, <3>4, FanOutIs
    <3>6. Outport(queued)' = Abstract!FanOut(Wires, Hop(c), Outport(queued))
      BY <3>1, <3>5 DEF Outport
    <3> QED
      BY <2>4, <2>5, <2>7, <3>1, <3>2, <3>6
  <2> QED
    BY <2>6, <2>7
<1>3. ASSUME HandlerReturn PROVE Abstract!HandlerReturn
  <2>1. /\ stage = "handler" /\ stage' = "walk" /\ cursor' = AfterCursor
        /\ UNCHANGED <<alive, handles, subs, backs, link, linkInst, queued, runnow, outPort>>
    BY <1>3 DEF HandlerReturn
  <2>2. cursor # NULL
    BY <1>1, <2>1 DEF WalkOK
  <2>3. ToReach' = After(subs[outPort], EndOf(cursor)) /\ ToReach = After(subs[outPort], EndOf(cursor))
    BY <2>1, <2>2, AdvanceReach, MapIs
  <2>4. UNCHANGED <<Wires, Outport(queued), Outport(runnow)>>
    BY <2>1 DEF Wires, Outport
  <2> QED
    BY <2>1, <2>3, <2>4 DEF Abstract!HandlerReturn
<1>4. ASSUME DispatchEnd PROVE Abstract!DispatchEnd
  <2>1. /\ stage = "walk" /\ cursor = NULL /\ stage' = "idle" /\ outPort' = NULL
        /\ UNCHANGED <<alive, handles, subs, backs, link, linkInst, queued, runnow, cursor>>
    BY <1>4 DEF DispatchEnd
  <2>2. ToReach = {} /\ ToReach' = {}
    BY <2>1, MapIs, MapNext
  <2>3. UNCHANGED <<Wires, Outport(queued), Outport(runnow)>>
    BY <2>1 DEF Wires, Outport
  <2> QED
    BY <2>1, <2>2, <2>3 DEF Abstract!DispatchEnd
<1> QED
  BY <1>2, <1>3, <1>4

\* Initially there is nothing in either.
LEMMA InitMaps == FabricInit => Abstract!Init
<1> SUFFICES ASSUME FabricInit PROVE Abstract!Init
  OBVIOUS
<1>1. Wires = {} /\ Outport(queued) = <<>> /\ Outport(runnow) = <<>> /\ ToReach = {}
  BY DEF FabricInit, Wires, Elems, Outport, ToReach
<1>2. Abstract!Ends = Ends
  BY DEF Abstract!Ends, Ends
<1> QED
  BY <1>1, <1>2 DEF FabricInit, Abstract!Init

\* Every step of the record lists is a step of the sets.
LEMMA NextMaps ==
    ASSUME IInv, IInv', Reentrant = FALSE, Relink = FALSE, [FabricNext]_fabricVars
    PROVE  [Abstract!Next]_(Abstract!vars)
<1>1. CASE \E i \in Insts : Create(i)
  BY <1>1, ClientMaps DEF Abstract!Next
<1>2. CASE \E i \in Insts : DeleteInstance(i)
  BY <1>2, DeleteMaps DEF Abstract!Next
<1>3. CASE \E e \in Handled : Stamp(e)
  BY <1>3, ClientMaps DEF Abstract!Next
<1>4. CASE \E w \in Wirable : Connect(w[1], w[2])
  <2>1. PICK w \in Wirable : Connect(w[1], w[2])
    BY <1>4
  <2>2. w[1] \in Ends /\ w[2] \in Ends
    BY EndsAssumption
  <2>3. Abstract!Connect(w[1], w[2])
    BY <2>1, <2>2, ConnectMaps
  <2> QED
    BY <2>3 DEF Abstract!Next
<1>5. CASE \E w \in Wirable : Disconnect(w[1], w[2])
  <2>1. PICK w \in Wirable : Disconnect(w[1], w[2])
    BY <1>5
  <2>2. w[1] \in Ends /\ w[2] \in Ends
    BY EndsAssumption
  <2>3. Abstract!Disconnect(w[1], w[2])
    BY <2>1, <2>2, DisconnectMaps
  <2> QED
    BY <2>3 DEF Abstract!Next
<1>6. CASE \E l \in Linkable : LinkPropertyAs(l[1], l[2])
  <2>1. PICK l \in Linkable : LinkPropertyAs(l[1], l[2])
    BY <1>6
  <2>2. l[1] \in Ends /\ l[2] \in Ends
    BY EndsAssumption
  <2>3. Abstract!Link(l[1], l[2])
    BY <2>1, <2>2, ClientMaps
  <2> QED
    BY <2>3 DEF Abstract!Next
<1>7. CASE \E e \in Written : SetProp(e) \/ SndMsg(e)
  <2>1. PICK e \in Written : SetProp(e) \/ SndMsg(e)
    BY <1>7
  <2>2. e \in Ends /\ e \in Abstract!Written
    BY EndsAssumption DEF Written, Abstract!Written
  <2>3. Abstract!Write(e) \/ Abstract!Send(e)
    BY <2>1, <2>2, SendMaps
  <2> QED
    BY <2>2, <2>3 DEF Abstract!Next
<1>8. CASE TakeTick \/ Dispatch
  BY <1>8, DispatchMaps DEF Abstract!Next
<1>9. CASE Deliver \/ HandlerReturn \/ DispatchEnd
  BY <1>9, DeliverMaps DEF Abstract!Next
<1>10. CASE UNCHANGED fabricVars
  BY <1>10 DEF fabricVars, Abstract!vars, Wires, Outport, ToReach
<1> QED
  BY <1>1, <1>2, <1>3, <1>4, <1>5, <1>6, <1>7, <1>8, <1>9, <1>10 DEF FabricNext

\* DispatchMsg, walking the live list with a cursor across handlers that wire,
\* unwire and delete, reaches every wire that was there when it began and is not
\* removed before its turn, each once, and no wire made meanwhile.
THEOREM ListsImplementSets ==
    ASSUME Reentrant = FALSE, Relink = FALSE
    PROVE  FabricSpec => ImplementsWiring
<1>1. FabricInit => Abstract!Init
  BY InitMaps
<1>2. IInv /\ IInv' /\ [FabricNext]_fabricVars => [Abstract!Next]_(Abstract!vars)
  BY NextMaps
<1>3. FabricSpec => []IInv
  BY FabricInv
<1> QED
  BY <1>1, <1>2, <1>3, PTL DEF FabricSpec, ImplementsWiring, Abstract!Spec

-----------------------------------------------------------------------------
(* The sets that the lists implement.  The inductive invariant of Wiring is  *)
(* the conjunction of its three properties.  That no wire dangles needs that *)
(* no link does (wiring resolves both ends), that no sink of a dispatch does *)
(* needs that no wire does, and OneHop needs that a link is only made where  *)
(* nothing leads to yet.                                                     *)

\* The ends are the same on both sides.
LEMMA AbstractEnds == Abstract!Ends = Ends /\ Abstract!Written = Written
  BY DEF Abstract!Ends, Ends, Abstract!Written, Written

SetsInv == Abstract!TypeOK /\ Abstract!NoDangling /\ Abstract!OneHop

EnvOK(s) == \A k \in DOMAIN s : Abstract!Live(s[k])

\* What the invariant says of the queue of sends.
LEMMA SetsQueue ==
    ASSUME SetsInv
    PROVE  /\ Outport(queued) \in Seq(Abstract!Ends \cup {NULL})
           /\ EnvOK(Outport(queued))
           /\ NULL \notin Abstract!Ends
<1>1. NULL \notin Abstract!Ends
  BY AbstractEnds, EndsAssumption
<1>2. Outport(queued) \in Seq(Abstract!Ends \cup {NULL})
  BY DEF SetsInv, Abstract!TypeOK
<1>3. EnvOK(Outport(queued))
  BY DEF SetsInv, Abstract!NoDangling, EnvOK
<1> QED
  BY <1>1, <1>2, <1>3

\* What the invariant says of the wires.
LEMMA SetsWires ==
    ASSUME SetsInv
    PROVE  /\ Wires \subseteq Abstract!Ends \X Abstract!Ends
           /\ \A w \in Wires : Abstract!Live(w[1]) /\ Abstract!Live(w[2])
BY DEF SetsInv, Abstract!TypeOK, Abstract!NoDangling

\* What an end stands for is an end, and a live one if the end is.
LEMMA SetsResolve ==
    ASSUME SetsInv, NEW e \in Abstract!Ends
    PROVE  Abstract!Resolve(e) \in Abstract!Ends /\ (e[1] \in alive => Abstract!Resolve(e)[1] \in alive)
<1>1. link[e] \in Abstract!Ends \cup {NULL} /\ Abstract!Live(link[e])
  BY DEF SetsInv, Abstract!TypeOK, Abstract!NoDangling
<1> QED
  BY <1>1 DEF Abstract!Resolve, Abstract!Live

\* Appending an end that is live, or nothing, keeps a queue of envelopes in order.
LEMMA SetsAppend ==
    ASSUME NEW s \in Seq(Abstract!Ends \cup {NULL}), EnvOK(s), NEW e \in Abstract!Ends, e[1] \in alive
    PROVE  Append(s, e) \in Seq(Abstract!Ends \cup {NULL}) /\ EnvOK(Append(s, e))
<1>1. Append(s, e) \in Seq(Abstract!Ends \cup {NULL})
  OBVIOUS
<1>2. ASSUME NEW k \in DOMAIN Append(s, e) PROVE Abstract!Live(Append(s, e)[k])
  <2>1. CASE k = Len(s) + 1
    BY <2>1 DEF Abstract!Live
  <2>2. CASE k # Len(s) + 1
    <3>1. k \in DOMAIN s /\ Append(s, e)[k] = s[k]
      BY <2>2
    <3> QED BY <3>1 DEF EnvOK
  <2> QED BY <2>1, <2>2
<1> QED BY <1>1, <1>2 DEF EnvOK

\* A fan-out queues only out of a property that has a wire, hence a live one.
LEMMA SetsFanOut ==
    ASSUME NEW W, W \subseteq Abstract!Ends \X Abstract!Ends, \A w \in W : Abstract!Live(w[1]),
           NEW s \in Seq(Abstract!Ends \cup {NULL}), EnvOK(s), NEW e \in Abstract!Ends, NULL \notin Abstract!Ends
    PROVE  Abstract!FanOut(W, e, s) \in Seq(Abstract!Ends \cup {NULL}) /\ EnvOK(Abstract!FanOut(W, e, s))
<1>1. CASE Abstract!SinksOf(W, e) = {}
  BY <1>1 DEF Abstract!FanOut
<1>2. CASE Abstract!SinksOf(W, e) # {}
  <2>1. PICK w \in W : w[1] = e
    BY <1>2 DEF Abstract!SinksOf
  <2>2. e[1] \in alive
    BY <2>1 DEF Abstract!Live
  <2> QED BY <1>2, <2>2, SetsAppend DEF Abstract!FanOut
<1> QED BY <1>1, <1>2

\* Cancelling the sends of i leaves only sends of the instances that remain.
LEMMA SetsCancel ==
    ASSUME NEW s \in Seq(Abstract!Ends \cup {NULL}), EnvOK(s), NEW i
    PROVE  /\ Abstract!Cancel(s, i) \in Seq(Abstract!Ends \cup {NULL})
           /\ \A k \in DOMAIN Abstract!Cancel(s, i) :
                 Abstract!Cancel(s, i)[k] = NULL \/ Abstract!Cancel(s, i)[k][1] \in alive \ {i}
<1>1. Abstract!Cancel(s, i) \in [1 .. Len(s) -> Abstract!Ends \cup {NULL}]
  <2>1. DOMAIN s = 1 .. Len(s) /\ \A k \in 1 .. Len(s) : s[k] \in Abstract!Ends \cup {NULL}
    OBVIOUS
  <2> QED BY <2>1 DEF Abstract!Cancel
<1>2. Abstract!Cancel(s, i) \in Seq(Abstract!Ends \cup {NULL})
  BY <1>1
<1>3. ASSUME NEW k \in DOMAIN Abstract!Cancel(s, i)
      PROVE  Abstract!Cancel(s, i)[k] = NULL \/ Abstract!Cancel(s, i)[k][1] \in alive \ {i}
  BY DEF Abstract!Cancel, EnvOK, Abstract!Live
<1> QED BY <1>2, <1>3

\* The invariant holds initially.
LEMMA SetsInit == Abstract!Init => SetsInv
BY AbstractEnds, EndsAssumption DEF Abstract!Init, SetsInv, Abstract!TypeOK, Abstract!NoDangling, Abstract!OneHop, Abstract!Live

\* Connecting wires two live ends.
LEMMA SetsConnect ==
    ASSUME SetsInv, NEW e \in Abstract!Ends, NEW f \in Abstract!Ends, Abstract!Connect(e, f)
    PROVE  SetsInv'
<1> DEFINE r == Abstract!Resolve(e)
           t == Abstract!Resolve(f)
           u == <<t[1], WiringPort>>
<1>1. r \in Abstract!Ends /\ t \in Abstract!Ends /\ r[1] \in alive /\ t[1] \in alive
  BY SetsResolve DEF Abstract!Connect
<1>2. u \in Abstract!Ends /\ Abstract!Resolve(u) \in Abstract!Ends
  BY <1>1, SetsResolve, AbstractEnds, EndsAssumption DEF Abstract!Ends
<1>3. /\ Wires' = Wires \cup {<<r, t>>} /\ Outport(queued)' = Abstract!FanOut(Wires', Abstract!Resolve(u), Outport(queued))
      /\ UNCHANGED <<alive, link, handles, Outport(runnow), outPort, ToReach, stage>>
  BY DEF Abstract!Connect
<1>4. Wires' \subseteq Abstract!Ends \X Abstract!Ends /\ \A w \in Wires' : Abstract!Live(w[1]) /\ Abstract!Live(w[2])
  BY <1>1, <1>3 DEF SetsInv, Abstract!TypeOK, Abstract!NoDangling, Abstract!Live
<1>5. Outport(queued)' \in Seq(Abstract!Ends \cup {NULL}) /\ EnvOK(Outport(queued)')
  <2>1. \A w \in Wires' : Abstract!Live(w[1])
    BY <1>4
  <2> QED
    BY <1>2, <1>3, <1>4, <2>1, SetsFanOut, SetsQueue
<1> QED
  BY <1>3, <1>4, <1>5 DEF SetsInv, Abstract!TypeOK, Abstract!NoDangling, Abstract!OneHop, Abstract!Live, EnvOK

\* Disconnecting takes a wire and a sink still to be reached away.
LEMMA SetsDisconnect ==
    ASSUME SetsInv, NEW e \in Abstract!Ends, NEW f \in Abstract!Ends, Abstract!Disconnect(e, f)
    PROVE  SetsInv'
<1> DEFINE t == Abstract!Resolve(f)
           u == <<t[1], WiringPort>>
<1>1. u \in Abstract!Ends /\ Abstract!Resolve(u) \in Abstract!Ends
  BY SetsResolve, AbstractEnds, EndsAssumption DEF Abstract!Ends
<1>2. /\ Wires' \subseteq Wires /\ Outport(queued)' = Abstract!FanOut(Wires', Abstract!Resolve(u), Outport(queued))
      /\ ToReach' \subseteq ToReach
      /\ UNCHANGED <<alive, link, handles, Outport(runnow), outPort, stage>>
  BY DEF Abstract!Disconnect
<1>3. Wires' \subseteq Abstract!Ends \X Abstract!Ends /\ \A w \in Wires' : Abstract!Live(w[1]) /\ Abstract!Live(w[2])
  BY <1>2 DEF SetsInv, Abstract!TypeOK, Abstract!NoDangling
<1>4. Outport(queued)' \in Seq(Abstract!Ends \cup {NULL}) /\ EnvOK(Outport(queued)')
  <2>1. \A w \in Wires' : Abstract!Live(w[1])
    BY <1>3
  <2> QED
    BY <1>1, <1>2, <1>3, <2>1, SetsFanOut, SetsQueue
<1> QED
  BY <1>2, <1>3, <1>4 DEF SetsInv, Abstract!TypeOK, Abstract!NoDangling, Abstract!OneHop, Abstract!Live, EnvOK

\* A link leads to a live original, and nothing leads to its slot.
LEMMA SetsLink ==
    ASSUME SetsInv, NEW e \in Abstract!Ends, NEW f \in Abstract!Ends, Abstract!Link(e, f)
    PROVE  SetsInv'
<1> DEFINE t == Abstract!Resolve(f)
<1>1. t \in Abstract!Ends /\ t[1] \in alive /\ t # e
  BY SetsResolve DEF Abstract!Link
<1>2. link[t] = NULL
  BY <1>1 DEF Abstract!Resolve, SetsInv, Abstract!OneHop, Abstract!TypeOK
<1>3. link' = [link EXCEPT ![e] = t] /\ \A x \in Abstract!Ends : link[x] # e
  BY DEF Abstract!Link
<1>4. Abstract!OneHop'
  BY <1>1, <1>2, <1>3 DEF Abstract!OneHop, SetsInv, Abstract!TypeOK
<1>5. UNCHANGED <<alive, Wires, handles, Outport(queued), Outport(runnow), outPort, ToReach, stage>>
  BY DEF Abstract!Link
<1>6. link' \in [Abstract!Ends -> Abstract!Ends \cup {NULL}] /\ \A x \in Abstract!Ends : Abstract!Live(link'[x])
  BY <1>1, <1>3 DEF SetsInv, Abstract!TypeOK, Abstract!NoDangling, Abstract!Live
<1> QED
  BY <1>4, <1>5, <1>6 DEF SetsInv, Abstract!TypeOK, Abstract!NoDangling, Abstract!Live

\* A write or a send queues an envelope of a live property.
LEMMA SetsSend ==
    ASSUME SetsInv, NEW e \in Abstract!Ends, Abstract!Write(e) \/ Abstract!Send(e)
    PROVE  SetsInv'
<1>1. Abstract!Resolve(e) \in Abstract!Ends /\ Abstract!Resolve(e)[1] \in alive
  BY SetsResolve DEF Abstract!Write, Abstract!Send
<1>2. UNCHANGED <<alive, Wires, link, handles, Outport(runnow), outPort, ToReach, stage>>
  BY DEF Abstract!Write, Abstract!Send
<1>3. Outport(queued)' \in Seq(Abstract!Ends \cup {NULL}) /\ EnvOK(Outport(queued)')
  <2>1. CASE Abstract!Write(e)
    <3>1. \A w \in Wires : Abstract!Live(w[1])
      BY SetsWires
    <3> QED
      BY <2>1, <1>1, <3>1, SetsFanOut, SetsQueue, SetsWires DEF Abstract!Write
  <2>2. CASE Abstract!Send(e)
    BY <2>2, <1>1, SetsAppend DEF Abstract!Send, SetsInv, Abstract!TypeOK, Abstract!NoDangling, EnvOK
  <2> QED BY <2>1, <2>2
<1> QED
  BY <1>2, <1>3 DEF SetsInv, Abstract!TypeOK, Abstract!NoDangling, Abstract!OneHop, Abstract!Live, EnvOK

\* A deletion leaves nothing that names the instance.
LEMMA SetsDelete ==
    ASSUME SetsInv, NEW i \in Insts, Abstract!Delete(i)
    PROVE  SetsInv'
<1>1. /\ alive' = alive \ {i} /\ stage' = stage
      /\ Outport(queued)' = Abstract!Cancel(Outport(queued), i) /\ Outport(runnow)' = Abstract!Cancel(Outport(runnow), i)
  BY DEF Abstract!Delete
<1>2. /\ Outport(queued)' \in Seq(Abstract!Ends \cup {NULL}) /\ (\A k \in DOMAIN Outport(queued) : Abstract!Live(Outport(queued)[k]))'
      /\ Outport(runnow)' \in Seq(Abstract!Ends \cup {NULL}) /\ (\A k \in DOMAIN Outport(runnow) : Abstract!Live(Outport(runnow)[k]))'
  BY <1>1, SetsCancel DEF SetsInv, Abstract!TypeOK, Abstract!NoDangling, EnvOK, Abstract!Live
<1>3. Wires' \subseteq Abstract!Ends \X Abstract!Ends /\ (\A w \in Wires : Abstract!Live(w[1]) /\ Abstract!Live(w[2]))'
  BY <1>1 DEF Abstract!Delete, SetsInv, Abstract!TypeOK, Abstract!NoDangling, Abstract!Live
<1>4. link' = [e \in Abstract!Ends |-> IF link[e] = NULL \/ e[1] = i \/ link[e][1] = i
                              THEN NULL ELSE link[e]]
  BY DEF Abstract!Delete
<1>5. link' \in [Abstract!Ends -> Abstract!Ends \cup {NULL}] /\ (\A e \in Abstract!Ends : Abstract!Live(link[e]))'
  BY <1>1, <1>4 DEF SetsInv, Abstract!TypeOK, Abstract!NoDangling, Abstract!Live
<1>6. Abstract!OneHop'
  BY <1>4, AbstractEnds, EndsAssumption DEF SetsInv, Abstract!TypeOK, Abstract!OneHop
<1>7. /\ outPort' \in Abstract!Ends \cup {NULL} /\ Abstract!Live(outPort)'
      /\ ToReach' \subseteq Abstract!Ends /\ (\A s \in ToReach : Abstract!Live(s))'
  BY <1>1 DEF Abstract!Delete, SetsInv, Abstract!TypeOK, Abstract!NoDangling, Abstract!Live
<1>8. alive' \subseteq Insts /\ handles' \subseteq Abstract!Ends
  BY DEF Abstract!Delete, SetsInv, Abstract!TypeOK
<1>9. Abstract!TypeOK'
  BY <1>1, <1>2, <1>3, <1>5, <1>7, <1>8 DEF SetsInv, Abstract!TypeOK
<1>10. Abstract!NoDangling'
  BY <1>2, <1>3, <1>5, <1>7 DEF Abstract!NoDangling
<1> QED
  BY <1>6, <1>9, <1>10 DEF SetsInv

\* Ticks and dispatch move envelopes and sinks that are live.
LEMMA SetsDispatch ==
    ASSUME SetsInv, Abstract!Tick \/ Abstract!Dispatch \/ Abstract!HandlerReturn \/ Abstract!DispatchEnd
    PROVE  SetsInv'
<1>1. CASE Abstract!Tick
  BY <1>1 DEF Abstract!Tick, SetsInv, Abstract!TypeOK, Abstract!NoDangling, Abstract!OneHop, Abstract!Live
<1>2. CASE Abstract!Dispatch
  <2>1. /\ UNCHANGED <<alive, Wires, link, handles, Outport(queued)>> /\ Outport(runnow) # <<>>
        /\ Outport(runnow)' = Tail(Outport(runnow))
    BY <1>2 DEF Abstract!Dispatch
  <2>2. /\ Outport(runnow)' \in Seq(Abstract!Ends \cup {NULL}) /\ Head(Outport(runnow)) \in Abstract!Ends \cup {NULL}
        /\ \A k \in DOMAIN Outport(runnow)' : Abstract!Live(Outport(runnow)'[k])
        /\ Abstract!Live(Head(Outport(runnow)))
    <3>1. Outport(runnow) \in Seq(Abstract!Ends \cup {NULL}) /\ \A k \in DOMAIN Outport(runnow) : Abstract!Live(Outport(runnow)[k])
      BY DEF SetsInv, Abstract!TypeOK, Abstract!NoDangling
    <3>2. /\ Head(Outport(runnow)) = Outport(runnow)[1] /\ 1 \in DOMAIN Outport(runnow)
          /\ \A k \in DOMAIN Tail(Outport(runnow)) : k + 1 \in DOMAIN Outport(runnow) /\ Tail(Outport(runnow))[k] = Outport(runnow)[k + 1]
      BY <2>1, <3>1
    <3> QED BY <2>1, <3>1, <3>2
  <2>3. /\ outPort' \in Abstract!Ends \cup {NULL} /\ Abstract!Live(outPort')
        /\ ToReach' \subseteq Abstract!Ends /\ \A s \in ToReach' : Abstract!Live(s)
        /\ stage' \in {"idle", "walk", "handler"}
    <3>1. CASE Head(Outport(runnow)) = NULL
      BY <1>2, <3>1 DEF Abstract!Dispatch, SetsInv, Abstract!TypeOK, Abstract!NoDangling
    <3>2. CASE Head(Outport(runnow)) # NULL
      <4>1. outPort' = Head(Outport(runnow)) /\ ToReach' = Abstract!SinksOf(Wires, Head(Outport(runnow))) /\ stage' = "walk"
        BY <1>2, <3>2 DEF Abstract!Dispatch
      <4>2. \A s \in Abstract!SinksOf(Wires, Head(Outport(runnow))) : s \in Abstract!Ends /\ Abstract!Live(s)
        BY SetsWires DEF Abstract!SinksOf
      <4>3. outPort' \in Abstract!Ends \cup {NULL}
        BY <2>2, <4>1
      <4>4. Abstract!Live(outPort')
        BY <2>2, <4>1, Zenon
      <4>5. ToReach' \subseteq Abstract!Ends /\ \A s \in ToReach' : Abstract!Live(s)
        BY <4>1, <4>2, Zenon
      <4>6. stage' \in {"idle", "walk", "handler"}
        BY <4>1
      <4> QED BY <4>3, <4>4, <4>5, <4>6
    <3> QED BY <3>1, <3>2
  <2>4. Abstract!TypeOK'
    <3>1. /\ alive' \subseteq Insts /\ handles' \subseteq Abstract!Ends
          /\ Wires' \subseteq Abstract!Ends \X Abstract!Ends
          /\ link' \in [Abstract!Ends -> Abstract!Ends \cup {NULL}]
          /\ Outport(queued)' \in Seq(Abstract!Ends \cup {NULL})
      BY <2>1 DEF SetsInv, Abstract!TypeOK
    <3> QED
      BY <2>2, <2>3, <3>1 DEF Abstract!TypeOK
  <2>5. Abstract!NoDangling'
    BY <2>1, <2>2, <2>3 DEF SetsInv, Abstract!NoDangling, Abstract!Live
  <2>6. Abstract!OneHop'
    BY <2>1 DEF SetsInv, Abstract!OneHop
  <2> QED
    BY <2>4, <2>5, <2>6 DEF SetsInv
<1>3. CASE Abstract!HandlerReturn
  BY <1>3 DEF Abstract!HandlerReturn, SetsInv, Abstract!TypeOK, Abstract!NoDangling, Abstract!OneHop, Abstract!Live
<1>4. CASE Abstract!DispatchEnd
  BY <1>4 DEF Abstract!DispatchEnd, SetsInv, Abstract!TypeOK, Abstract!NoDangling, Abstract!OneHop, Abstract!Live
<1> QED BY <1>1, <1>2, <1>3, <1>4

\* A delivery takes one sink off and may queue a fan-out.
LEMMA SetsDeliver ==
    ASSUME SetsInv, NEW s \in Abstract!Ends, Abstract!Deliver(s)
    PROVE  SetsInv'
<1>1. /\ UNCHANGED <<alive, Wires, link, handles, Outport(runnow), outPort>>
      /\ ToReach' = ToReach \ {s}
      /\ Outport(queued)' = Outport(queued) \/ Outport(queued)' = Abstract!FanOut(Wires, Abstract!Resolve(s), Outport(queued))
      /\ stage' \in {stage, "handler"}
  BY DEF Abstract!Deliver
<1>2. Outport(queued)' \in Seq(Abstract!Ends \cup {NULL}) /\ EnvOK(Outport(queued)')
  <2>1. Abstract!Resolve(s) \in Abstract!Ends
    BY SetsResolve
  <2>2. \A w \in Wires : Abstract!Live(w[1])
    BY SetsWires
  <2>3. EnvOK(Abstract!FanOut(Wires, Abstract!Resolve(s), Outport(queued)))
        /\ Abstract!FanOut(Wires, Abstract!Resolve(s), Outport(queued)) \in Seq(Abstract!Ends \cup {NULL})
    BY <2>1, <2>2, SetsFanOut, SetsQueue, SetsWires
  <2> QED
    BY <1>1, <2>3, SetsQueue
<1> QED
  BY <1>1, <1>2 DEF SetsInv, Abstract!TypeOK, Abstract!NoDangling, Abstract!OneHop, Abstract!Live, EnvOK

\* Every step keeps the invariant.
LEMMA SetsNext == SetsInv /\ [Abstract!Next]_(Abstract!vars) => SetsInv'
<1> SUFFICES ASSUME SetsInv, [Abstract!Next]_(Abstract!vars) PROVE SetsInv'
  OBVIOUS
<1>1. CASE \E i \in Insts : Abstract!Create(i)
  BY <1>1 DEF SetsInv, Abstract!TypeOK, Abstract!NoDangling, Abstract!OneHop, Abstract!Live, Abstract!Create
<1>2. CASE \E e \in Handled : Abstract!Stamp(e)
  BY <1>2, AbstractEnds, EndsAssumption DEF SetsInv, Abstract!TypeOK, Abstract!NoDangling, Abstract!OneHop, Abstract!Live, Abstract!Stamp
<1>3. CASE \E i \in Insts : Abstract!Delete(i)
  BY <1>3, SetsDelete
<1>4. CASE \E w \in Wirable : Abstract!Connect(w[1], w[2]) \/ Abstract!Disconnect(w[1], w[2])
  <2>1. PICK w \in Wirable : Abstract!Connect(w[1], w[2]) \/ Abstract!Disconnect(w[1], w[2])
    BY <1>4
  <2>2. w[1] \in Abstract!Ends /\ w[2] \in Abstract!Ends
    BY AbstractEnds, EndsAssumption
  <2> QED BY <2>1, <2>2, SetsConnect, SetsDisconnect
<1>5. CASE \E l \in Linkable : Abstract!Link(l[1], l[2])
  <2>1. PICK l \in Linkable : Abstract!Link(l[1], l[2])
    BY <1>5
  <2>2. l[1] \in Abstract!Ends /\ l[2] \in Abstract!Ends
    BY AbstractEnds, EndsAssumption
  <2> QED BY <2>1, <2>2, SetsLink
<1>6. CASE \E e \in Abstract!Written : Abstract!Write(e) \/ Abstract!Send(e)
  <2>1. PICK e \in Abstract!Written : Abstract!Write(e) \/ Abstract!Send(e)
    BY <1>6
  <2>2. e \in Abstract!Ends
    BY AbstractEnds, EndsAssumption DEF Abstract!Written
  <2> QED BY <2>1, <2>2, SetsSend
<1>7. CASE Abstract!Tick \/ Abstract!Dispatch \/ Abstract!HandlerReturn \/ Abstract!DispatchEnd
  BY <1>7, SetsDispatch
<1>8. CASE \E s \in Abstract!Ends : Abstract!Deliver(s)
  BY <1>8, SetsDeliver
<1>9. CASE UNCHANGED Abstract!vars
  BY <1>9 DEF Abstract!vars, SetsInv, Abstract!TypeOK, Abstract!NoDangling, Abstract!OneHop, Abstract!Live
<1> QED BY <1>1, <1>2, <1>3, <1>4, <1>5, <1>6, <1>7, <1>8, <1>9 DEF Abstract!Next

\* The invariant holds throughout.
THEOREM SetsInductive == Abstract!Spec => []SetsInv
BY SetsInit, SetsNext, PTL DEF Abstract!Spec

\* Types hold throughout.
THEOREM SetsTypes == Abstract!Spec => []Abstract!TypeOK
<1>1. SetsInv => Abstract!TypeOK
  BY DEF SetsInv
<1> QED BY <1>1, SetsInductive, PTL

\* Nothing in the fabric ever names an instance that is gone: DeleteInstance
\* finds every wire, link and envelope (object.c:3849-3861).
THEOREM SetsNothingDangles == Abstract!Spec => []Abstract!NoDangling
<1>1. SetsInv => Abstract!NoDangling
  BY DEF SetsInv
<1> QED BY <1>1, SetsInductive, PTL

\* As long as no property that something links to becomes a link itself, links
\* stay one hop long (object.c:1581).
THEOREM SetsLinksOneHop == Abstract!Spec => []Abstract!OneHop
<1>1. SetsInv => Abstract!OneHop
  BY DEF SetsInv
<1> QED BY <1>1, SetsInductive, PTL

\* So they hold of the lists: read as sets, the property lists of object.c never
\* name an instance that is gone and links stay one hop long, whatever handlers do
\* while a dispatch walks the lists.
THEOREM ListsKeepSets ==
    ASSUME Reentrant = FALSE, Relink = FALSE
    PROVE  FabricSpec => [](Abstract!NoDangling /\ Abstract!OneHop)
<1>1. FabricSpec => Abstract!Spec
  BY ListsImplementSets DEF ImplementsWiring
<1>2. SetsInv => Abstract!NoDangling /\ Abstract!OneHop
  BY DEF SetsInv
<1> QED
  BY <1>1, <1>2, SetsInductive, PTL
==============================================================================
