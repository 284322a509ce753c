---------------------------- MODULE SessionProofs ----------------------------
(***************************************************************************)
(* The bridge's taps, for any originals, controls, connections and values, *)
(* whatever the bounds on what is queued and on the taps; then the path    *)
(* index, for any instances and any names none of which begins another;    *)
(* then the search tree, for any keys.  Names with Taps in front are those *)
(* of BridgeTaps, names with Trie in front those of NameTrie.              *)
(***************************************************************************)
EXTENDS MCSession, ListProofs, SequenceTheorems, WellFoundedInduction

-----------------------------------------------------------------------------
(* Invariants *)

TapRecord == [target : Taps!TapNames, node : Taps!TapNames, conns : SUBSET Conns]

Envelope ==
    [kind : {"change"}, from : Taps!TapNames, value : Written]
      \cup [kind : {"relink"}, from : Aliases] \cup [kind : {"destroy"}, from : {NULL}]

TapTypes ==
    /\ live \subseteq Taps!TapNames /\ subs \subseteq Taps!TapNames
    /\ victims \subseteq Taps!TapNames /\ rel \subseteq Aliases
    /\ link \in [Aliases -> Originals \cup {NULL}]
    /\ val \in [Taps!TapNames -> Written]
    /\ taps \in Seq(TapRecord) /\ queue \in Seq(Envelope)
    /\ shown \in [Conns -> [Taps!TapNames -> Written \cup {NULL}]]

\* A link leads from what exists to what exists.
LinksLive == \A c \in Aliases : link[c] # NULL => c \in live /\ link[c] \in live

\* While a load is under way nothing is watched.
LoadAlone == Taps!Loading => taps = <<>>

\* Nobody else is, or is about to be, on the node that a tap is to leave.
Exclusive ==
    \A t \in Taps!Leaving, u \in Taps!Tapped : u.target # t.target =>
        u.node # t.node /\ Taps!ResolvePort(u.target) # t.node

HeardInv == TapTypes /\ LinksLive /\ LoadAlone /\ Exclusive /\ Taps!TapsGrounded

\* The TargetProp of every watched control is wired to the bridge, so a
\* re-point that a tap has not followed yet is on its way.
RepointsTold ==
    /\ \A t \in Taps!Tapped : t.target \in Aliases => t.target \in rel
    /\ \A t \in Taps!Leaving : \E e \in Taps!Elems(queue) : e.kind = "relink" /\ e.from = t.target

\* A connection that shows something is in a tap for that name.
ShownAsked ==
    \A k \in Conns, n \in Taps!TapNames : shown[k][n] # NULL =>
        \E t \in Taps!Tapped : t.target = n /\ k \in t.conns

\* The change from a node that was queued last carries v.
IsChange(e, r) == e.kind = "change" /\ e.from = r
LastIs(q, r, v) ==
    \A i \in DOMAIN q :
        IsChange(q[i], r) /\ (\A j \in DOMAIN q : j > i => ~IsChange(q[j], r)) => q[i].value = v

\* Where the bridge has its record the last change under way carries the value
\* the node has; where a tap is yet to connect nothing is under way.
NewestLast ==
    /\ \A r \in subs : LastIs(queue, r, val[r])
    /\ \A t \in Taps!Tapped : Taps!Fresh(Taps!ResolvePort(t.target))

\* A connection shows what its name stands for, but for changes under way and a
\* re-point that its tap has not followed.
ShownNow ==
    \A t \in Taps!Tapped, k \in Conns :
        /\ k \in t.conns /\ t.node = Taps!ResolvePort(t.target)
        /\ \A e \in Taps!Elems(queue) : ~IsChange(e, t.node)
        /\ ~\E u \in Taps!Leaving : u.target = t.target /\ k \in u.conns
        => shown[k][t.target] = val[t.node]

ViewInv == HeardInv /\ RepointsTold /\ ShownAsked /\ NewestLast /\ ShownNow

-----------------------------------------------------------------------------
(* What happens to the queue *)

\* The lists of BridgeTaps are those of Lists.
LEMMA SameWithout ==
    ASSUME NEW s, NEW D
    PROVE  Taps!Without(s, D) = Without(s, D) /\ Taps!Elems(s) = Elems(s)
<1>1. \A S : Taps!Cardinality(S) = Cardinality(S)
  BY DEF Taps!Cardinality, Cardinality
<1>2. \A P, k : Taps!Rank(P, k) = Rank(P, k)
  BY <1>1 DEF Taps!Rank, Rank
<1>3. \A P, n : Taps!Nth(P, n) = Nth(P, n)
  BY <1>2 DEF Taps!Nth, Nth
<1> QED
  BY <1>1, <1>3 DEF Taps!Without, Without, Taps!Elems, Elems

\* What is in a list when it grows at its end or loses its head.
LEMMA ElemsAppend ==
    ASSUME NEW S, NEW q \in Seq(S), NEW e
    PROVE  Taps!Elems(Append(q, e)) = Taps!Elems(q) \cup {e}
<1>1. /\ DOMAIN Append(q, e) = 1 .. Len(q) + 1 /\ DOMAIN q = 1 .. Len(q) /\ Len(q) \in Nat
      /\ \A i \in 1 .. Len(q) : Append(q, e)[i] = q[i]
      /\ Append(q, e)[Len(q) + 1] = e
  OBVIOUS
<1> QED
  BY <1>1 DEF Taps!Elems

LEMMA ElemsTail ==
    ASSUME NEW S, NEW q \in Seq(S), q # <<>>
    PROVE  /\ Taps!Elems(q) = {Head(q)} \cup Taps!Elems(Tail(q))
           /\ Head(q) \in S /\ Tail(q) \in Seq(S)
<1>1. /\ DOMAIN Tail(q) = 1 .. Len(q) - 1 /\ DOMAIN q = 1 .. Len(q)
      /\ Len(q) \in Nat /\ Len(q) > 0
      /\ \A i \in 1 .. Len(q) - 1 : Tail(q)[i] = q[i + 1]
      /\ Head(q) = q[1]
  OBVIOUS
<1>2. \A i \in 1 .. Len(q) : i # 1 => i - 1 \in 1 .. Len(q) - 1 /\ Tail(q)[i - 1] = q[i]
  BY <1>1
<1>3. \A x \in Taps!Elems(q) : x \in {Head(q)} \cup Taps!Elems(Tail(q))
  <2> SUFFICES ASSUME NEW i \in 1 .. Len(q) PROVE q[i] \in {Head(q)} \cup Taps!Elems(Tail(q))
    BY <1>1 DEF Taps!Elems
  <2>1. CASE i # 1
    BY <1>1, <1>2, <2>1 DEF Taps!Elems
  <2> QED
    BY <1>1, <2>1
<1>4. \A x \in {Head(q)} \cup Taps!Elems(Tail(q)) : x \in Taps!Elems(q)
  BY <1>1 DEF Taps!Elems
<1> QED
  BY <1>3, <1>4

\* What is delivered from the head leaves the last change the last.
LEMMA LastTail ==
    ASSUME NEW S, NEW q \in Seq(S), q # <<>>, NEW r, NEW v, LastIs(q, r, v)
    PROVE  LastIs(Tail(q), r, v)
<1>1. /\ DOMAIN Tail(q) = 1 .. Len(q) - 1 /\ DOMAIN q = 1 .. Len(q)
      /\ Len(q) \in Nat /\ Len(q) > 0
      /\ \A i \in 1 .. Len(q) - 1 : Tail(q)[i] = q[i + 1]
  OBVIOUS
<1>2. SUFFICES ASSUME NEW i \in 1 .. Len(q) - 1, IsChange(q[i + 1], r),
                      \A j \in 1 .. Len(q) - 1 : j > i => ~IsChange(q[j + 1], r)
               PROVE  q[i + 1].value = v
  BY <1>1 DEF LastIs
<1>3. ASSUME NEW j \in 1 .. Len(q), j > i + 1 PROVE ~IsChange(q[j], r)
  <2>1. j - 1 \in 1 .. Len(q) - 1 /\ j - 1 > i /\ (j - 1) + 1 = j
    BY <1>1, <1>3
  <2> QED
    BY <1>2, <2>1
<1>4. i + 1 \in DOMAIN q
  BY <1>1
<1> QED
  BY <1>1, <1>2, <1>3, <1>4 DEF LastIs

\* What is queued behind it is another's change, or is the last one itself.
LEMMA LastAppend ==
    ASSUME NEW S, NEW q \in Seq(S), NEW r, NEW v, NEW e,
           IF IsChange(e, r) THEN e.value = v ELSE LastIs(q, r, v)
    PROVE  LastIs(Append(q, e), r, v)
<1> DEFINE a == Append(q, e)
           L == Len(q)
<1>1. /\ DOMAIN a = 1 .. L + 1 /\ DOMAIN q = 1 .. L /\ L \in Nat
      /\ \A i \in 1 .. L : a[i] = q[i]
      /\ a[L + 1] = e
  OBVIOUS
<1> HIDE DEF a, L
<1>2. SUFFICES ASSUME NEW i \in 1 .. L + 1, IsChange(a[i], r),
                      \A j \in 1 .. L + 1 : j > i => ~IsChange(a[j], r)
               PROVE  a[i].value = v
  BY <1>1 DEF LastIs, a
<1>3. CASE i = L + 1
  BY <1>1, <1>2, <1>3
<1>4. CASE i # L + 1
  <2>1. i \in 1 .. L /\ L + 1 \in 1 .. L + 1 /\ L + 1 > i
    BY <1>1, <1>4
  <2>2. ~IsChange(e, r) /\ a[i] = q[i]
    BY <1>1, <1>2, <2>1
  <2>3. \A j \in DOMAIN q : j > i => ~IsChange(q[j], r)
    BY <1>1, <1>2
  <2> QED
    BY <1>1, <1>2, <2>1, <2>2, <2>3 DEF LastIs
<1> QED
  BY <1>3, <1>4

\* Cancelling what others sent leaves it the last.
LEMMA LastWithout ==
    ASSUME NEW S, NEW q \in Seq(S), NEW D, NEW r, NEW v, LastIs(q, r, v),
           \A e \in D : ~IsChange(e, r)
    PROVE  LastIs(Taps!Without(q, D), r, v)
<1> DEFINE t == Taps!Without(q, D)
<1>1. t = Without(q, D)
  BY SameWithout
<1>2. t \in Seq(S)
  BY <1>1, WithoutTrace
<1>3. PICK g : IsTrace(g, t, q, D)
  BY <1>1, WithoutTrace
<1> HIDE DEF t
<1>4. /\ \A n \in DOMAIN t : g[n] \in DOMAIN q /\ t[n] = q[g[n]]
      /\ \A m, n \in DOMAIN t : m < n => g[m] < g[n]
      /\ \A k \in DOMAIN q : q[k] \notin D => \E n \in DOMAIN t : g[n] = k
  BY <1>3 DEF IsTrace
<1>5. DOMAIN t \subseteq Nat /\ DOMAIN q \subseteq Nat
  BY <1>2
<1>6. SUFFICES ASSUME NEW i \in DOMAIN t, IsChange(t[i], r),
                      \A j \in DOMAIN t : j > i => ~IsChange(t[j], r)
               PROVE  t[i].value = v
  BY DEF LastIs, t
<1>7. ASSUME NEW k \in DOMAIN q, k > g[i], IsChange(q[k], r) PROVE FALSE
  <2>1. PICK n \in DOMAIN t : g[n] = k
    BY <1>4, <1>7
  <2>2. ~(n < i) /\ n # i
    BY <1>4, <1>5, <1>7, <2>1
  <2>3. n > i /\ IsChange(t[n], r)
    BY <1>4, <1>5, <1>7, <2>1, <2>2
  <2> QED
    BY <1>6, <2>3
<1>8. IsChange(q[g[i]], r) /\ g[i] \in DOMAIN q /\ t[i] = q[g[i]]
  BY <1>4, <1>6
<1> QED
  BY <1>7, <1>8 DEF LastIs

\* Cancelling takes exactly what is cancelled out of a list.
LEMMA ElemsWithout ==
    ASSUME NEW S, NEW q \in Seq(S), NEW D
    PROVE  /\ Taps!Without(q, D) \in Seq(S)
           /\ Taps!Elems(Taps!Without(q, D)) = Taps!Elems(q) \ D
<1>1. Taps!Without(q, D) = Without(q, D)
  BY SameWithout
<1>2. Without(q, D) \in Seq(S) /\ Elems(Without(q, D)) = Elems(q) \ D
  BY WithoutElems
<1> QED
  BY <1>1, <1>2, SameWithout

\* The last change of a node that is delivered carries its value.
LEMMA LastTold ==
    ASSUME NEW S, NEW q \in Seq(S), q # <<>>, NEW r, NEW v, LastIs(q, r, v),
           IsChange(Head(q), r), \A e \in Taps!Elems(Tail(q)) : ~IsChange(e, r)
    PROVE  Head(q).value = v
<1>1. /\ DOMAIN Tail(q) = 1 .. Len(q) - 1 /\ DOMAIN q = 1 .. Len(q)
      /\ Len(q) \in Nat /\ Len(q) > 0
      /\ \A i \in 1 .. Len(q) - 1 : Tail(q)[i] = q[i + 1]
      /\ Head(q) = q[1]
  OBVIOUS
<1>2. ASSUME NEW j \in DOMAIN q, j > 1 PROVE ~IsChange(q[j], r)
  <2>1. j - 1 \in DOMAIN Tail(q) /\ Tail(q)[j - 1] = q[j]
    BY <1>1, <1>2
  <2>2. q[j] \in Taps!Elems(Tail(q))
    BY <2>1 DEF Taps!Elems
  <2> QED
    BY <2>2
<1> QED
  BY <1>1, <1>2 DEF LastIs

-----------------------------------------------------------------------------
(* Every tap is heard, whoever subscribes late *)

\* Clients keep the rules about sharing, deleting and loading.
Orderly == {"share", "orphan", "destroy", "load"} \cap Risks = {}

LEMMA TapConstants ==
    /\ Originals \cap Aliases = {} /\ NULL \notin Originals /\ Taps!Default \in Written
    /\ Originals \subseteq Taps!TapNames /\ Aliases \subseteq Taps!TapNames
    /\ \A n \in Taps!TapNames : n \in Originals \/ n \in Aliases
<1>1. Taps!ConstantsOK
  BY SessionAssumption DEF SessionAssumption
<1>2. \E v \in Written : TRUE
  BY <1>1 DEF Taps!ConstantsOK
<1>3. Taps!Default \in Written
  BY <1>2 DEF Taps!Default
<1> QED
  BY <1>1, <1>3 DEF Taps!ConstantsOK, Taps!TapNames

\* What a name stands for is a name, and exists if the name does.
LEMMA Resolves ==
    ASSUME TapTypes, NEW n \in Taps!TapNames
    PROVE  /\ Taps!ResolvePort(n) \in Taps!TapNames
           /\ Taps!ResolvePort(n) = n \/ Taps!ResolvePort(n) \in Originals
           /\ LinksLive /\ n \in live => Taps!ResolvePort(n) \in live
BY TapConstants DEF TapTypes, Taps!ResolvePort, LinksLive

\* The taps are records.
LEMMA TapFields ==
    ASSUME TapTypes, NEW t \in Taps!Tapped
    PROVE  t \in TapRecord /\ t.target \in Taps!TapNames /\ t.node \in Taps!TapNames /\ t.conns \subseteq Conns
<1>1. t \in TapRecord
  BY DEF TapTypes, Taps!Tapped, Taps!Elems
<1> QED
  BY <1>1 DEF TapRecord

LEMMA HeardInit == Taps!Init => HeardInv
<1> SUFFICES ASSUME Taps!Init PROVE HeardInv
  OBVIOUS
<1>1. TapTypes
  BY TapConstants DEF Taps!Init, TapTypes
<1>2. LinksLive
  BY DEF Taps!Init, LinksLive
<1>3. LoadAlone
  BY DEF Taps!Init, LoadAlone
<1>4. Taps!Tapped = {} /\ Taps!Leaving = {}
  BY DEF Taps!Init, Taps!Tapped, Taps!Elems, Taps!Leaving
<1> QED
  BY <1>1, <1>2, <1>3, <1>4 DEF HeardInv, Exclusive, Taps!TapsGrounded

\* A step that adds no tap, moves none and re-points no watched name.
LEMMA HeardFewer ==
    ASSUME HeardInv, TapTypes', LinksLive', LoadAlone',
           \A t \in Taps!Tapped' :
              /\ t \in Taps!Tapped /\ t.target \in live' /\ t.node \in live' \cap subs'
              /\ Taps!ResolvePort(t.target)' = Taps!ResolvePort(t.target)
    PROVE  HeardInv'
<1>1. \A t \in Taps!Leaving' : t \in Taps!Leaving /\ t \in Taps!Tapped'
  BY DEF Taps!Leaving
<1>2. Exclusive'
  BY <1>1 DEF HeardInv, Exclusive
<1>3. Taps!TapsGrounded'
  BY DEF Taps!TapsGrounded
<1> QED
  BY <1>2, <1>3 DEF HeardInv

\* While a tap exists no load is under way, and the other way round.
LEMMA LoadEnvelope ==
    Taps!Loading <=> \E e \in Taps!Elems(queue) : e.kind = "destroy"
BY DEF Taps!Loading, Taps!Elems

\* Creating, and writing.
LEMMA HeardCreate ==
    ASSUME HeardInv, NEW n \in Taps!TapNames,
           Taps!Create(n) \/ \E o \in Originals : Taps!CreateAlias(n, o)
    PROVE  HeardInv'
<1>1. TapTypes'
  BY TapConstants DEF HeardInv, TapTypes, Taps!Create, Taps!CreateAlias
<1>2. LinksLive'
  BY DEF HeardInv, LinksLive, TapTypes, Taps!Create, Taps!CreateAlias
<1>3. LoadAlone'
  BY DEF HeardInv, LoadAlone, Taps!Loading, Taps!Create, Taps!CreateAlias
<1>4. taps' = taps /\ subs' = subs /\ live \subseteq live' /\ Taps!Tapped' = Taps!Tapped
  BY DEF Taps!Create, Taps!CreateAlias, Taps!Tapped
<1>5. ASSUME NEW t \in Taps!Tapped
      PROVE  /\ t.target \in live' /\ t.node \in live' \cap subs'
             /\ Taps!ResolvePort(t.target)' = Taps!ResolvePort(t.target)
  <2>1. t.target \in live /\ t.node \in live \cap subs
    BY DEF HeardInv, Taps!TapsGrounded
  <2>2. t.target \in Aliases => link'[t.target] = link[t.target]
    BY <2>1 DEF HeardInv, TapTypes, Taps!Create, Taps!CreateAlias
  <2> QED
    BY <1>4, <2>1, <2>2 DEF Taps!ResolvePort
<1> QED
  BY <1>1, <1>2, <1>3, <1>4, <1>5, HeardFewer

\* A fan-out adds a change of its node to the queue, or nothing.
LEMMA FansOut ==
    ASSUME NEW q \in Seq(Envelope), NEW n \in Taps!TapNames, NEW v \in Written
    PROVE  /\ Taps!FanOut(q, n, v) \in Seq(Envelope)
           /\ Taps!Elems(q) \subseteq Taps!Elems(Taps!FanOut(q, n, v))
           /\ \A e \in Taps!Elems(Taps!FanOut(q, n, v)) : e \in Taps!Elems(q) \/ (IsChange(e, n) /\ n \in subs)
           /\ n \in subs => \E e \in Taps!Elems(Taps!FanOut(q, n, v)) : IsChange(e, n)
           /\ LastIs(Taps!FanOut(q, n, v), n, v) \/ n \notin subs
           /\ \A r, w : r # n /\ LastIs(q, r, w) => LastIs(Taps!FanOut(q, n, v), r, w)
<1> DEFINE e == [kind |-> "change", from |-> n, value |-> v]
<1>1. e \in Envelope
  BY DEF Envelope
<1>2. IsChange(e, n) /\ e.value = v /\ \A r : r # n => ~IsChange(e, r)
  BY DEF IsChange
<1>3. Taps!FanOut(q, n, v) = IF n \in subs THEN Append(q, e) ELSE q
  BY DEF Taps!FanOut
<1> HIDE DEF e
<1>4. Append(q, e) \in Seq(Envelope)
  BY <1>1
<1>5. Taps!Elems(Append(q, e)) = Taps!Elems(q) \cup {e}
  BY ElemsAppend
<1>6. LastIs(Append(q, e), n, v)
  BY <1>2, LastAppend
<1>7. ASSUME NEW r, NEW w, r # n, LastIs(q, r, w) PROVE LastIs(Append(q, e), r, w)
  BY <1>2, <1>7, LastAppend
<1> QED
  BY <1>2, <1>3, <1>4, <1>5, <1>6, <1>7

LEMMA HeardWrite ==
    ASSUME HeardInv, NEW n \in Taps!TapNames, NEW v \in Written, Taps!Write(n, v)
    PROVE  HeardInv'
<1> DEFINE r == Taps!ResolvePort(n)
<1>0. r \in Taps!TapNames
  BY Resolves DEF HeardInv
<1>1. /\ queue' = Taps!FanOut(queue, r, v) /\ val' = [val EXCEPT ![r] = v]
      /\ live' = live /\ link' = link /\ subs' = subs /\ taps' = taps /\ rel' = rel
      /\ victims' = victims /\ shown' = shown
  BY DEF Taps!Write
<1> HIDE DEF r
<1>2. queue \in Seq(Envelope)
  BY DEF HeardInv, TapTypes
<1>3. /\ queue' \in Seq(Envelope)
      /\ \A e \in Taps!Elems(queue') : e \in Taps!Elems(queue) \/ IsChange(e, r)
  BY <1>0, <1>1, <1>2, FansOut
<1>4. TapTypes'
  BY <1>1, <1>3 DEF HeardInv, TapTypes
<1>5. LinksLive'
  BY <1>1 DEF HeardInv, LinksLive
<1>6. Taps!Loading' => Taps!Loading
  <2>1. Taps!Loading' => \E e \in Taps!Elems(queue') : e.kind = "destroy"
    BY DEF Taps!Loading, Taps!Elems
  <2> QED
    BY <1>3, <2>1, LoadEnvelope DEF IsChange
<1>7. LoadAlone'
  BY <1>1, <1>6 DEF HeardInv, LoadAlone
<1>8. \A t \in Taps!Tapped' :
          /\ t \in Taps!Tapped /\ t.target \in live' /\ t.node \in live' \cap subs'
          /\ Taps!ResolvePort(t.target)' = Taps!ResolvePort(t.target)
  BY <1>1 DEF HeardInv, Taps!TapsGrounded, Taps!Tapped, Taps!ResolvePort
<1> QED
  BY <1>4, <1>5, <1>7, <1>8, HeardFewer

\* What the deletion of an instance leaves.
LEMMA DeleteLeaves ==
    ASSUME HeardInv, NEW n \in Taps!TapNames, NEW q \in Seq(Envelope),
           Taps!DeleteInstance(n, q), taps' \in Seq(TapRecord), victims' \subseteq Taps!TapNames
    PROVE  /\ TapTypes' /\ LinksLive'
           /\ Taps!Elems(queue') = {e \in Taps!Elems(q) : e.from # n}
           /\ \A m \in Taps!TapNames : m # n /\ Taps!ResolvePort(m) # n =>
                 Taps!ResolvePort(m)' = Taps!ResolvePort(m)
<1>1. /\ live' = live \ {n}
      /\ link' = [c \in Aliases |-> IF c = n \/ link[c] = n THEN NULL ELSE link[c]]
      /\ val' = [val EXCEPT ![n] = Taps!Default]
      /\ subs' = subs \ {n} /\ rel' = rel \ {n}
      /\ queue' = Taps!Without(q, {e \in Taps!Elems(q) : e.from = n})
      /\ shown' = [k \in Conns |-> [shown[k] EXCEPT ![n] = NULL]]
  BY DEF Taps!DeleteInstance
<1>2. /\ queue' \in Seq(Envelope)
      /\ Taps!Elems(queue') = Taps!Elems(q) \ {e \in Taps!Elems(q) : e.from = n}
  BY <1>1, ElemsWithout
<1>3. shown' \in [Conns -> [Taps!TapNames -> Written \cup {NULL}]]
  BY <1>1 DEF HeardInv, TapTypes
<1>4. TapTypes'
  BY <1>1, <1>2, <1>3, TapConstants DEF HeardInv, TapTypes
<1>5. LinksLive'
  BY <1>1 DEF HeardInv, LinksLive, TapTypes
<1>6. \A m \in Taps!TapNames : m # n /\ Taps!ResolvePort(m) # n =>
         Taps!ResolvePort(m)' = Taps!ResolvePort(m)
  BY <1>1 DEF Taps!ResolvePort
<1> QED
  BY <1>2, <1>4, <1>5, <1>6

\* Freeing the taps of a name leaves the others.
LEMMA FreedTaps ==
    ASSUME TapTypes, NEW n
    PROVE  /\ Taps!FreeTaps(n) \in Seq(TapRecord)
           /\ Taps!Elems(Taps!FreeTaps(n)) = {t \in Taps!Tapped : t.target # n}
<1>1. taps \in Seq(TapRecord)
  BY DEF TapTypes
<1>2. /\ Taps!FreeTaps(n) \in Seq(TapRecord)
      /\ Taps!Elems(Taps!FreeTaps(n)) = Taps!Elems(taps) \ {t \in Taps!Tapped : t.target = n}
  BY <1>1, ElemsWithout DEF Taps!FreeTaps
<1> QED
  BY <1>2 DEF Taps!Tapped

\* Deleting through the bridge, and past it.
LEMMA HeardDelete ==
    ASSUME HeardInv, Orderly, NEW n \in Taps!TapNames, Taps!Delete(n) \/ Taps!Destroy(n)
    PROVE  HeardInv'
<1>1. /\ Taps!DeleteInstance(n, queue) /\ victims' = victims /\ ~Taps!Loading
      /\ \/ taps' = Taps!FreeTaps(n) /\ ~Taps!Shared(n, n)
         \/ taps' = taps /\ ~\E t \in Taps!Tapped : n \in {t.node, t.target, Taps!ResolvePort(t.target)}
  BY DEF Taps!Delete, Taps!Destroy, Orderly
<1>2. /\ taps' \in Seq(TapRecord)
      /\ \A t \in Taps!Tapped' : t \in Taps!Tapped /\ t.target # n
  BY <1>1, FreedTaps DEF HeardInv, TapTypes, Taps!Tapped
<1>3. \A t \in Taps!Tapped' : t.node # n /\ Taps!ResolvePort(t.target) # n
  BY <1>1, <1>2 DEF Taps!Shared
<1>4. queue \in Seq(Envelope) /\ victims' \subseteq Taps!TapNames
  BY <1>1 DEF HeardInv, TapTypes
<1>5. /\ TapTypes' /\ LinksLive'
      /\ Taps!Elems(queue') = {e \in Taps!Elems(queue) : e.from # n}
      /\ \A m \in Taps!TapNames : m # n /\ Taps!ResolvePort(m) # n =>
            Taps!ResolvePort(m)' = Taps!ResolvePort(m)
  BY <1>1, <1>2, <1>4, DeleteLeaves
<1>6. live' = live \ {n} /\ subs' = subs \ {n}
  BY <1>1 DEF Taps!DeleteInstance
<1>7. LoadAlone'
  <2>1. ~Taps!Loading'
    BY <1>1, <1>5, LoadEnvelope DEF Taps!Loading, Taps!Elems
  <2> QED
    BY <2>1 DEF LoadAlone
<1>8. ASSUME NEW t \in Taps!Tapped'
      PROVE  /\ t \in Taps!Tapped /\ t.target \in live' /\ t.node \in live' \cap subs'
             /\ Taps!ResolvePort(t.target)' = Taps!ResolvePort(t.target)
  <2>1. t \in Taps!Tapped /\ t.target \in live /\ t.node \in live \cap subs /\ t.target \in Taps!TapNames
    BY <1>2, TapFields DEF HeardInv, Taps!TapsGrounded
  <2> QED
    BY <1>2, <1>3, <1>5, <1>6, <2>1
<1> QED
  BY <1>5, <1>7, <1>8, HeardFewer

\* A load lets go of every tap; while it is under way nothing is watched.
LEMMA HeardLoad ==
    ASSUME HeardInv, Taps!LoadFlow \/ Taps!DestroyContentsStep
    PROVE  HeardInv'
<1>1. taps' = <<>>
  <2>1. ASSUME Taps!DestroyContentsStep PROVE taps' = <<>>
    <3>1. queue # <<>> /\ Head(queue).kind = "destroy" /\ taps' = taps
      BY <2>1 DEF Taps!DestroyContentsStep
    <3>2. Head(queue) \in Taps!Elems(queue)
      BY <3>1, ElemsTail DEF HeardInv, TapTypes
    <3> QED
      BY <3>1, <3>2, LoadEnvelope DEF HeardInv, LoadAlone
  <2> QED
    BY <2>1 DEF Taps!LoadFlow
<1>2. Taps!Tapped' = {} /\ taps' \in Seq(TapRecord)
  BY <1>1 DEF Taps!Tapped, Taps!Elems
<1>3. TapTypes' /\ LinksLive'
  <2>1. CASE Taps!LoadFlow
    <3>1. queue' \in Seq(Envelope)
      BY <2>1 DEF Taps!LoadFlow, HeardInv, TapTypes, Envelope
    <3>2. TapTypes'
      BY <1>2, <2>1, <3>1 DEF Taps!LoadFlow, HeardInv, TapTypes
    <3> QED
      BY <2>1, <3>2 DEF Taps!LoadFlow, HeardInv, LinksLive
  <2>2. CASE Taps!DestroyContentsStep
    <3>1. /\ queue # <<>> /\ queue \in Seq(Envelope)
          /\ Head(queue) \in Envelope /\ Tail(queue) \in Seq(Envelope)
      BY <2>2, ElemsTail DEF Taps!DestroyContentsStep, HeardInv, TapTypes
    <3>2. CASE victims = {} /\ queue' = Tail(queue)
               /\ UNCHANGED <<live, link, val, subs, rel, shown, victims>>
      <4>1. TapTypes'
        BY <1>2, <3>1, <3>2 DEF HeardInv, TapTypes
      <4> QED
        BY <3>2, <4>1 DEF HeardInv, LinksLive
    <3>3. ASSUME NEW n \in victims, victims' = victims \ {n},
                 Taps!DeleteInstance(n, Append(Tail(queue), Head(queue)))
          PROVE  TapTypes' /\ LinksLive'
      <4>1. n \in Taps!TapNames /\ victims' \subseteq Taps!TapNames
        BY <3>3 DEF HeardInv, TapTypes
      <4>2. Append(Tail(queue), Head(queue)) \in Seq(Envelope)
        BY <3>1
      <4> QED
        BY <1>2, <3>3, <4>1, <4>2, DeleteLeaves
    <3> QED
      BY <2>2, <3>2, <3>3 DEF Taps!DestroyContentsStep
  <2> QED
    BY <2>1, <2>2
<1>4. LoadAlone'
  BY <1>1 DEF LoadAlone
<1> QED
  BY <1>2, <1>3, <1>4, HeardFewer

\* The connections that are sent something show it, the others what they did.
LEMMA Emits ==
    ASSUME NEW ts, NEW said, NEW k \in Conns, NEW n \in Taps!TapNames
    PROVE  /\ (\E t \in ts : t.target = n /\ k \in t.conns) => Taps!TapEmit(ts, said)[k][n] = said[n]
           /\ ~(\E t \in ts : t.target = n /\ k \in t.conns) =>
                 Taps!TapEmit(ts, said)[k][n] = shown[k][n]
BY DEF Taps!TapEmit

LEMMA EmitsValues ==
    ASSUME TapTypes, NEW ts, NEW said \in [Taps!TapNames -> Written]
    PROVE  Taps!TapEmit(ts, said) \in [Conns -> [Taps!TapNames -> Written \cup {NULL}]]
BY DEF Taps!TapEmit, TapTypes

LEMMA CurrentValues ==
    ASSUME TapTypes
    PROVE  Taps!Current \in [Taps!TapNames -> Written]
BY Resolves DEF TapTypes, Taps!Current

\* The delivery of a change moves no tap.
LEMMA HeardTapOnIn ==
    ASSUME HeardInv, Taps!TapOnIn
    PROVE  HeardInv'
<1>1. /\ queue # <<>> /\ Head(queue).kind = "change" /\ queue' = Tail(queue)
      /\ live' = live /\ link' = link /\ subs' = subs /\ taps' = taps /\ rel' = rel
      /\ victims' = victims /\ val' = val
      /\ \/ shown' = shown
         \/ shown' = Taps!TapEmit({t \in Taps!Tapped : t.node = Head(queue).from}, Taps!Told)
  BY DEF Taps!TapOnIn
<1>2. queue \in Seq(Envelope)
  BY DEF HeardInv, TapTypes
<1>3. /\ Taps!Elems(queue) = {Head(queue)} \cup Taps!Elems(Tail(queue))
      /\ Head(queue) \in Envelope /\ Tail(queue) \in Seq(Envelope)
  BY <1>1, <1>2, ElemsTail
<1>4. Taps!Told \in [Taps!TapNames -> Written]
  BY <1>1, <1>3 DEF Taps!Told, Envelope
<1>5. shown' \in [Conns -> [Taps!TapNames -> Written \cup {NULL}]]
  BY <1>1, <1>4, EmitsValues DEF HeardInv, TapTypes
<1>6. TapTypes'
  BY <1>1, <1>3, <1>5 DEF HeardInv, TapTypes
<1>7. LinksLive'
  BY <1>1 DEF HeardInv, LinksLive
<1>8. LoadAlone'
  <2>1. Taps!Loading' => Taps!Loading
    BY <1>1, <1>3, LoadEnvelope DEF Taps!Loading, Taps!Elems
  <2> QED
    BY <1>1, <2>1 DEF HeardInv, LoadAlone
<1>9. \A t \in Taps!Tapped' :
          /\ t \in Taps!Tapped /\ t.target \in live' /\ t.node \in live' \cap subs'
          /\ Taps!ResolvePort(t.target)' = Taps!ResolvePort(t.target)
  BY <1>1 DEF HeardInv, Taps!TapsGrounded, Taps!Tapped, Taps!ResolvePort
<1> QED
  BY <1>6, <1>7, <1>8, <1>9, HeardFewer

\* What a re-point does to the queue.
PointQueue(c) == IF c \in rel THEN Append(queue, [kind |-> "relink", from |-> c]) ELSE queue

LEMMA PointQueues ==
    ASSUME TapTypes, NEW c \in Aliases
    PROVE  /\ PointQueue(c) \in Seq(Envelope)
           /\ Taps!Elems(PointQueue(c)) = Taps!Elems(queue) \cup
                 (IF c \in rel THEN {[kind |-> "relink", from |-> c]} ELSE {})
           /\ \A r, w : LastIs(queue, r, w) => LastIs(PointQueue(c), r, w)
<1> DEFINE e == [kind |-> "relink", from |-> c]
<1>1. e \in Envelope /\ \A r : ~IsChange(e, r)
  BY DEF Envelope, IsChange
<1>2. queue \in Seq(Envelope)
  BY DEF TapTypes
<1> HIDE DEF e
<1>3. Append(queue, e) \in Seq(Envelope) /\ Taps!Elems(Append(queue, e)) = Taps!Elems(queue) \cup {e}
  BY <1>1, <1>2, ElemsAppend
<1>4. ASSUME NEW r, NEW w, LastIs(queue, r, w) PROVE LastIs(Append(queue, e), r, w)
  BY <1>1, <1>2, <1>4, LastAppend
<1>5. PointQueue(c) = IF c \in rel THEN Append(queue, e) ELSE queue
  BY DEF PointQueue, e
<1> QED
  BY <1>2, <1>3, <1>4, <1>5 DEF e

\* Re-pointing changes what its own name stands for and no other.
LEMMA PointStep ==
    ASSUME HeardInv, NEW c \in Taps!TapNames, NEW o \in Originals, Taps!Point(c, o)
    PROVE  /\ c \in Aliases /\ o \in live /\ c \in live
           /\ queue' = Taps!FanOut(PointQueue(c), o, val[o])
           /\ val[o] \in Written /\ o \in Taps!TapNames
           /\ live' = live /\ subs' = subs /\ taps' = taps /\ rel' = rel /\ val' = val
           /\ victims' = victims /\ shown' = shown
           /\ Taps!Tapped' = Taps!Tapped
           /\ TapTypes' /\ LinksLive'
           /\ Taps!ResolvePort(c)' = o
           /\ \A m \in Taps!TapNames : m # c => Taps!ResolvePort(m)' = Taps!ResolvePort(m)
           /\ \A e \in Taps!Elems(queue') :
                 \/ e \in Taps!Elems(queue) \/ (IsChange(e, o) /\ o \in subs)
                 \/ (e = [kind |-> "relink", from |-> c] /\ c \in rel)
           /\ Taps!Elems(queue) \subseteq Taps!Elems(queue')
           /\ c \in rel => [kind |-> "relink", from |-> c] \in Taps!Elems(queue')
<1>1. /\ c \in Aliases /\ o \in live /\ c \in live
      /\ queue' = Taps!FanOut(PointQueue(c), o, val[o])
      /\ link' = [link EXCEPT ![c] = o]
      /\ live' = live /\ subs' = subs /\ taps' = taps /\ rel' = rel /\ val' = val
      /\ victims' = victims /\ shown' = shown
  BY DEF Taps!Point, PointQueue
<1>2. o \in Taps!TapNames /\ val[o] \in Written /\ TapTypes /\ LinksLive
  BY TapConstants DEF HeardInv, TapTypes
<1>3. /\ PointQueue(c) \in Seq(Envelope)
      /\ Taps!Elems(PointQueue(c)) = Taps!Elems(queue) \cup
            (IF c \in rel THEN {[kind |-> "relink", from |-> c]} ELSE {})
  BY <1>1, <1>2, PointQueues
<1>4. /\ queue' \in Seq(Envelope)
      /\ Taps!Elems(PointQueue(c)) \subseteq Taps!Elems(queue')
      /\ \A e \in Taps!Elems(queue') : e \in Taps!Elems(PointQueue(c)) \/ (IsChange(e, o) /\ o \in subs)
  BY <1>1, <1>2, <1>3, FansOut
<1>5. TapTypes'
  BY <1>1, <1>2, <1>4 DEF TapTypes
<1>6. LinksLive'
  BY <1>1, <1>2 DEF TapTypes, LinksLive
<1>7. /\ Taps!ResolvePort(c)' = o
      /\ \A m \in Taps!TapNames : m # c => Taps!ResolvePort(m)' = Taps!ResolvePort(m)
  BY <1>1, <1>2, TapConstants DEF TapTypes, Taps!ResolvePort
<1>8. Taps!Tapped' = Taps!Tapped
  BY <1>1 DEF Taps!Tapped
<1> QED
  BY <1>1, <1>2, <1>3, <1>4, <1>5, <1>6, <1>7, <1>8

LEMMA HeardPoint ==
    ASSUME HeardInv, Orderly, NEW c \in Taps!TapNames, NEW o \in Originals, Taps!Point(c, o)
    PROVE  HeardInv'
<1>1. /\ TapTypes' /\ LinksLive' /\ taps' = taps /\ live' = live /\ subs' = subs
      /\ Taps!Tapped' = Taps!Tapped /\ Taps!ResolvePort(c)' = o
      /\ \A m \in Taps!TapNames : m # c => Taps!ResolvePort(m)' = Taps!ResolvePort(m)
      /\ \A e \in Taps!Elems(queue') :
            \/ e \in Taps!Elems(queue) \/ (IsChange(e, o) /\ o \in subs)
            \/ (e = [kind |-> "relink", from |-> c] /\ c \in rel)
  BY PointStep
<1>2. /\ \A t \in Taps!Tapped : t.target = c => ~Taps!Shared(c, t.node)
      /\ \A t \in Taps!Leaving : t.target # c => t.node # o
  BY DEF Taps!Point, Orderly
<1>3. LoadAlone'
  <2>1. Taps!Loading' => Taps!Loading
    BY <1>1, LoadEnvelope DEF Taps!Loading, Taps!Elems, IsChange
  <2> QED
    BY <1>1, <2>1 DEF HeardInv, LoadAlone
<1>4. \A t \in Taps!Tapped : t.target \in Taps!TapNames
  BY TapFields DEF HeardInv
<1>5. ASSUME NEW t \in Taps!Leaving', NEW u \in Taps!Tapped', u.target # t.target
      PROVE  u.node # t.node /\ Taps!ResolvePort(u.target)' # t.node
  <2>1. t \in Taps!Tapped /\ u \in Taps!Tapped /\ t.node # Taps!ResolvePort(t.target)'
    BY <1>1, <1>5 DEF Taps!Leaving
  <2>2. CASE t.target = c
    <3>1. Taps!ResolvePort(u.target)' = Taps!ResolvePort(u.target)
      BY <1>1, <1>4, <1>5, <2>1, <2>2
    <3> QED
      BY <1>2, <1>5, <2>1, <2>2, <3>1 DEF Taps!Shared
  <2>3. CASE t.target # c
    <3>1. t \in Taps!Leaving /\ t.node # o
      BY <1>1, <1>2, <1>4, <2>1, <2>3 DEF Taps!Leaving
    <3>2. u.node # t.node /\ Taps!ResolvePort(u.target) # t.node
      BY <1>5, <2>1, <3>1 DEF HeardInv, Exclusive
    <3> QED
      BY <1>1, <1>4, <2>1, <3>1, <3>2
  <2> QED
    BY <2>2, <2>3
<1>6. Exclusive'
  BY <1>5 DEF Exclusive
<1>7. Taps!TapsGrounded'
  BY <1>1 DEF HeardInv, Taps!TapsGrounded
<1> QED
  BY <1>1, <1>3, <1>6, <1>7 DEF HeardInv

\* What subscribing leaves: a tap for n, on what n stands for, that k is in,
\* with the taps there were, and its connections told the value there.
Joined(k, n, t) ==
    /\ t \in TapRecord /\ t.target = n /\ t.node = Taps!ResolvePort(n) /\ k \in t.conns
    /\ Taps!Tapped' \subseteq Taps!Tapped \cup {t} /\ t \in Taps!Tapped'
    /\ \A u \in Taps!Tapped : \E w \in Taps!Tapped' : w.target = u.target /\ u.conns \subseteq w.conns
    /\ \A u \in Taps!Leaving : u \in Taps!Tapped'
    /\ shown' = Taps!TapEmit({t}, Taps!Current)
    /\ subs' = subs \cup {t.node} /\ rel \subseteq rel' /\ rel' \subseteq Aliases
    /\ n \in rel' \/ n \notin Aliases \/ \E u \in Taps!Tapped : u.target = n

LEMMA SubscribeStep ==
    ASSUME HeardInv, NEW k \in Conns, NEW n \in Taps!TapNames, Taps!Subscribe(k, n)
    PROVE  /\ taps' \in Seq(TapRecord) /\ n \in live
           /\ \E t : Joined(k, n, t)
<1> DEFINE r == Taps!ResolvePort(n)
<1>1. TapTypes /\ r \in Taps!TapNames
  BY Resolves DEF HeardInv
<1>2. n \in live /\ taps \in Seq(TapRecord) /\ DOMAIN taps = 1 .. Len(taps)
  BY <1>1 DEF TapTypes, Taps!Subscribe
<1>3. ASSUME NEW i \in Taps!FindTap(n), taps' = [taps EXCEPT ![i].conns = @ \cup {k}],
             shown' = Taps!TapEmit({taps'[i]}, Taps!Current), subs' = subs, rel' = rel
      PROVE  taps' \in Seq(TapRecord) /\ Joined(k, n, taps'[i])
  <2>1. i \in DOMAIN taps /\ taps[i].node = r /\ taps[i].target = n /\ taps[i] \in TapRecord
    BY <1>2, <1>3 DEF Taps!FindTap
  <2>2. taps[i] \in Taps!Tapped
    BY <2>1 DEF Taps!Tapped, Taps!Elems
  <2>3. taps'[i] = [taps[i] EXCEPT !.conns = @ \cup {k}]
    BY <1>3, <2>1
  <2>4. /\ taps'[i] \in TapRecord /\ taps'[i].target = n /\ taps'[i].node = r
        /\ taps'[i].conns = taps[i].conns \cup {k}
    BY <2>1, <2>3 DEF TapRecord
  <2>5. \A j \in DOMAIN taps : j # i => taps'[j] = taps[j]
    BY <1>3
  <2>6. DOMAIN taps' = DOMAIN taps
    BY <1>3
  <2>7. taps' = [j \in 1 .. Len(taps) |-> taps'[j]]
    BY <1>2, <1>3
  <2>8. \A j \in 1 .. Len(taps) : taps'[j] \in TapRecord
    BY <1>2, <2>4, <2>5
  <2>9. taps' \in [1 .. Len(taps) -> TapRecord]
    BY <2>7, <2>8
  <2>10. taps' \in Seq(TapRecord)
    BY <1>2, <2>9
  <2>11. Taps!Tapped' \subseteq Taps!Tapped \cup {taps'[i]} /\ taps'[i] \in Taps!Tapped'
    BY <2>1, <2>5, <2>6 DEF Taps!Tapped, Taps!Elems
  <2>12. ASSUME NEW u \in Taps!Tapped
         PROVE  \E w \in Taps!Tapped' : w.target = u.target /\ u.conns \subseteq w.conns
    <3>1. PICK j \in DOMAIN taps : u = taps[j]
      BY DEF Taps!Tapped, Taps!Elems
    <3>2. taps'[j] \in Taps!Tapped'
      BY <2>6 DEF Taps!Tapped, Taps!Elems
    <3>3. CASE j = i
      BY <2>1, <2>4, <3>1, <3>2, <3>3
    <3>4. CASE j # i
      BY <2>5, <3>1, <3>2, <3>4
    <3> QED
      BY <3>3, <3>4
  <2>13. subs' = subs \cup {taps'[i].node}
    BY <1>3, <2>1, <2>2, <2>4 DEF HeardInv, Taps!TapsGrounded
  <2>14. rel \subseteq rel' /\ rel' \subseteq Aliases
    BY <1>1, <1>3 DEF TapTypes
  <2>15. \E u \in Taps!Tapped : u.target = n
    BY <2>1, <2>2
  <2>16. ASSUME NEW u \in Taps!Leaving PROVE u \in Taps!Tapped'
    <3>1. PICK j \in DOMAIN taps : u = taps[j]
      BY DEF Taps!Leaving, Taps!Tapped, Taps!Elems
    <3>2. j # i
      BY <2>1, <3>1 DEF Taps!Leaving
    <3> QED
      BY <2>5, <2>6, <3>1, <3>2 DEF Taps!Tapped, Taps!Elems
  <2> QED
    BY <1>3, <2>4, <2>10, <2>11, <2>12, <2>13, <2>14, <2>15, <2>16 DEF Joined
<1>4. ASSUME NEW t, t = [target |-> n, node |-> r, conns |-> {k}], taps' = Taps!MakeTap(t),
             subs' = subs \cup {r}, rel' = rel \cup ({n} \cap Aliases),
             shown' = Taps!TapEmit({t}, Taps!Current)
      PROVE  taps' \in Seq(TapRecord) /\ Joined(k, n, t)
  <2>1. t \in TapRecord /\ t.target = n /\ t.node = r /\ k \in t.conns
    BY <1>1, <1>4 DEF TapRecord
  <2>2. taps' \in Seq(TapRecord) /\ Taps!Elems(taps') = Taps!Elems(taps) \cup {t}
    <3>1. CASE taps = <<>>
      <4>1. taps' = <<t>>
        BY <1>4, <3>1 DEF Taps!MakeTap
      <4> QED
        BY <2>1, <3>1, <4>1 DEF Taps!Elems
    <3>2. CASE taps # <<>>
      <4> DEFINE L == Len(taps)
                 m == <<Head(taps), t>> \o Tail(taps)
      <4>1. taps' = m
        BY <1>4, <3>2 DEF Taps!MakeTap
      <4>2. L \in Nat /\ L > 0 /\ Head(taps) \in TapRecord /\ Tail(taps) \in Seq(TapRecord)
        BY <1>2, <3>2, ElemsTail
      <4>3. m \in Seq(TapRecord)
        BY <2>1, <4>2
      <4>4. Len(m) = L + 1 /\ m[1] = Head(taps) /\ m[2] = t
        BY <1>2, <3>2, <2>1, <4>2
      <4>5. \A j \in 3 .. L + 1 : m[j] = Tail(taps)[j - 2]
        BY <1>2, <3>2, <2>1, <4>2
      <4>6. DOMAIN Tail(taps) = 1 .. L - 1
        BY <1>2, <3>2
      <4>7. Taps!Elems(m) = {Head(taps), t} \cup Taps!Elems(Tail(taps))
        <5> HIDE DEF m, L
        <5>1. DOMAIN m = 1 .. L + 1
          BY <4>2, <4>3, <4>4
        <5>2. ASSUME NEW j \in 1 .. L + 1
              PROVE  m[j] \in {Head(taps), t} \cup Taps!Elems(Tail(taps))
          <6>1. CASE j \in 3 .. L + 1
            <7>1. j - 2 \in DOMAIN Tail(taps)
              BY <4>2, <4>6, <6>1
            <7> QED
              BY <4>5, <6>1, <7>1 DEF Taps!Elems
          <6>2. CASE j \notin 3 .. L + 1
            <7>1. j = 1 \/ j = 2
              BY <4>2, <6>2
            <7> QED
              BY <4>4, <7>1
          <6> QED
            BY <6>1, <6>2
        <5>3. ASSUME NEW j \in 1 .. L - 1 PROVE Tail(taps)[j] \in Taps!Elems(m)
          <6>1. j + 2 \in 3 .. L + 1 /\ (j + 2) - 2 = j /\ j + 2 \in DOMAIN m
            BY <4>2, <5>1
          <6> QED
            BY <4>5, <6>1 DEF Taps!Elems
        <5>4. 1 \in DOMAIN m /\ 2 \in DOMAIN m
          BY <4>2, <5>1
        <5>5. Head(taps) \in Taps!Elems(m) /\ t \in Taps!Elems(m)
          BY <4>4, <5>4 DEF Taps!Elems
        <5>6. Taps!Elems(m) \subseteq {Head(taps), t} \cup Taps!Elems(Tail(taps))
          BY <5>1, <5>2 DEF Taps!Elems
        <5>7. Taps!Elems(Tail(taps)) \subseteq Taps!Elems(m)
          BY <4>6, <5>3 DEF Taps!Elems
        <5> QED
          BY <5>5, <5>6, <5>7
      <4>8. Taps!Elems(taps) = {Head(taps)} \cup Taps!Elems(Tail(taps))
        BY <1>2, <3>2, ElemsTail
      <4> HIDE DEF m
      <4> QED
        BY <4>1, <4>3, <4>7, <4>8
    <3> QED
      BY <3>1, <3>2
  <2>3. Taps!Tapped' = Taps!Tapped \cup {t}
    BY <2>2 DEF Taps!Tapped
  <2>4. /\ \A u \in Taps!Tapped : \E w \in Taps!Tapped' : w.target = u.target /\ u.conns \subseteq w.conns
        /\ \A u \in Taps!Leaving : u \in Taps!Tapped'
    BY <2>3 DEF Taps!Leaving
  <2>5. rel \subseteq rel' /\ rel' \subseteq Aliases /\ (n \in rel' \/ n \notin Aliases)
    BY <1>1, <1>4 DEF TapTypes
  <2> QED
    BY <1>4, <2>1, <2>2, <2>3, <2>4, <2>5 DEF Joined
<1> QED
  <2>1. CASE \E i \in Taps!FindTap(n) :
               /\ taps' = [taps EXCEPT ![i].conns = @ \cup {k}]
               /\ shown' = Taps!TapEmit({taps'[i]}, Taps!Current)
               /\ subs' = subs /\ rel' = rel
    BY <1>2, <1>3, <2>1
  <2>2. CASE /\ taps' = Taps!MakeTap([target |-> n, node |-> r, conns |-> {k}])
             /\ subs' = subs \cup {r} /\ rel' = rel \cup ({n} \cap Aliases)
             /\ shown' = Taps!TapEmit({[target |-> n, node |-> r, conns |-> {k}]}, Taps!Current)
    BY <1>2, <1>4, <2>2
  <2> QED
    BY <2>1, <2>2 DEF Taps!Subscribe

LEMMA HeardSubscribe ==
    ASSUME HeardInv, Orderly, NEW k \in Conns, NEW n \in Taps!TapNames, Taps!Subscribe(k, n)
    PROVE  HeardInv'
<1>1. PICK t : taps' \in Seq(TapRecord) /\ n \in live /\ Joined(k, n, t)
  BY SubscribeStep
<1>2. /\ live' = live /\ link' = link /\ val' = val /\ queue' = queue /\ victims' = victims
      /\ ~Taps!Loading /\ \A u \in Taps!Leaving : u.target # n => u.node # Taps!ResolvePort(n)
  BY DEF Taps!Subscribe, Orderly
<1>3. TapTypes /\ LinksLive /\ Taps!ResolvePort(n) \in Taps!TapNames /\ Taps!ResolvePort(n) \in live
  BY <1>1, Resolves DEF HeardInv
<1>4. TapTypes'
  <2>1. shown' \in [Conns -> [Taps!TapNames -> Written \cup {NULL}]]
    BY <1>1, <1>3, CurrentValues, EmitsValues DEF Joined
  <2>2. subs' \subseteq Taps!TapNames /\ rel' \subseteq Aliases
    BY <1>1, <1>3 DEF Joined, TapTypes
  <2> QED
    BY <1>1, <1>2, <1>3, <2>1, <2>2 DEF TapTypes
<1>5. LinksLive'
  BY <1>2, <1>3 DEF LinksLive
<1>6. LoadAlone'
  BY <1>2 DEF LoadAlone, Taps!Loading
<1>7. \A m : Taps!ResolvePort(m)' = Taps!ResolvePort(m)
  BY <1>2 DEF Taps!ResolvePort
<1>8. \A u \in Taps!Leaving' : u \in Taps!Leaving
  BY <1>1, <1>7 DEF Taps!Leaving, Joined
<1>9. ASSUME NEW u \in Taps!Leaving', NEW w \in Taps!Tapped', w.target # u.target
      PROVE  w.node # u.node /\ Taps!ResolvePort(w.target)' # u.node
  <2>1. u \in Taps!Leaving /\ (w \in Taps!Tapped \/ w = t)
    BY <1>1, <1>8 DEF Joined
  <2>2. CASE w \in Taps!Tapped
    BY <1>7, <1>9, <2>1, <2>2 DEF HeardInv, Exclusive
  <2>3. CASE w = t
    BY <1>1, <1>2, <1>7, <1>9, <2>1, <2>3 DEF Joined
  <2> QED
    BY <2>1, <2>2, <2>3
<1>10. Exclusive'
  BY <1>9 DEF Exclusive
<1>11. Taps!TapsGrounded'
  BY <1>1, <1>2, <1>3 DEF HeardInv, Taps!TapsGrounded, Joined
<1> QED
  BY <1>4, <1>5, <1>6, <1>10, <1>11 DEF HeardInv

\* Following re-points: every tap is where its name leads, and every node that
\* a name leads to keeps or gains the record.
LEMMA RelinkStep ==
    ASSUME HeardInv, Taps!Relink
    PROVE  /\ taps' \in Seq(TapRecord) /\ subs' \subseteq Taps!TapNames
           /\ Taps!Tapped' = {[t EXCEPT !.node = Taps!ResolvePort(t.target)] : t \in Taps!Tapped}
           /\ \A t \in Taps!Tapped : Taps!ResolvePort(t.target) \in subs'
           /\ \A r \in subs' : r \in subs \/ \E t \in Taps!Tapped : r = Taps!ResolvePort(t.target)
<1>1. /\ taps' = [i \in DOMAIN taps |-> [taps[i] EXCEPT !.node = Taps!ResolvePort(taps[i].target)]]
      /\ subs' = Taps!Reconnected
  BY DEF Taps!Relink
<1>2. TapTypes /\ taps \in Seq(TapRecord) /\ DOMAIN taps = 1 .. Len(taps) /\ Len(taps) \in Nat
  BY DEF HeardInv, TapTypes
<1>3. \A i \in DOMAIN taps : taps[i] \in Taps!Tapped
  BY DEF Taps!Tapped, Taps!Elems
<1>4. \A i \in DOMAIN taps :
         /\ taps[i] \in TapRecord /\ Taps!ResolvePort(taps[i].target) \in Taps!TapNames
  BY <1>2, <1>3, Resolves, TapFields
<1>5. \A i \in DOMAIN taps : [taps[i] EXCEPT !.node = Taps!ResolvePort(taps[i].target)] \in TapRecord
  BY <1>4 DEF TapRecord
<1>6. taps' \in [1 .. Len(taps) -> TapRecord]
  BY <1>1, <1>2, <1>5
<1>7. taps' \in Seq(TapRecord)
  BY <1>2, <1>6
<1>8. Taps!Tapped' = {[t EXCEPT !.node = Taps!ResolvePort(t.target)] : t \in Taps!Tapped}
  BY <1>1 DEF Taps!Tapped, Taps!Elems
<1>9. ASSUME NEW i \in DOMAIN taps PROVE Taps!ResolvePort(taps[i].target) \in subs'
  <2> DEFINE r == Taps!ResolvePort(taps[i].target)
  <2>1. ASSUME NEW j \in DOMAIN taps, taps[j] \in Taps!Leaving, taps[j].node = r PROVE FALSE
    <3>1. CASE taps[j].target = taps[i].target
      BY <2>1, <3>1 DEF Taps!Leaving
    <3>2. CASE taps[j].target # taps[i].target
      BY <1>3, <2>1, <3>2 DEF HeardInv, Exclusive
    <3> QED
      BY <3>1, <3>2
  <2>2. CASE taps[i] \in Taps!Leaving
    BY <1>1, <1>4, <2>1, <2>2 DEF Taps!Reconnected
  <2>3. CASE taps[i] \notin Taps!Leaving
    <3>1. r = taps[i].node /\ r \in subs
      BY <1>3, <2>3 DEF Taps!Leaving, HeardInv, Taps!TapsGrounded
    <3> QED
      BY <1>1, <1>4, <2>1, <3>1 DEF Taps!Reconnected
  <2> QED
    BY <2>2, <2>3
<1>10. ASSUME NEW r \in subs', r \notin subs
       PROVE  \E t \in Taps!Tapped : r = Taps!ResolvePort(t.target)
  BY <1>1, <1>3, <1>10 DEF Taps!Reconnected
<1>11. subs' \subseteq Taps!TapNames
  BY <1>1 DEF Taps!Reconnected
<1>12. \A t \in Taps!Tapped : Taps!ResolvePort(t.target) \in subs'
  BY <1>9 DEF Taps!Tapped, Taps!Elems
<1> QED
  BY <1>7, <1>8, <1>10, <1>11, <1>12

LEMMA HeardRelink ==
    ASSUME HeardInv, Taps!Relink
    PROVE  HeardInv'
<1>1. /\ queue # <<>> /\ queue' = Tail(queue) /\ live' = live /\ link' = link /\ val' = val
      /\ rel' = rel /\ victims' = victims /\ shown' = Taps!TapEmit(Taps!Leaving, Taps!Current)
  BY DEF Taps!Relink
<1>2. /\ taps' \in Seq(TapRecord) /\ subs' \subseteq Taps!TapNames
      /\ Taps!Tapped' = {[t EXCEPT !.node = Taps!ResolvePort(t.target)] : t \in Taps!Tapped}
      /\ \A t \in Taps!Tapped : Taps!ResolvePort(t.target) \in subs'
  BY RelinkStep
<1>3. TapTypes /\ LinksLive /\ queue \in Seq(Envelope)
  BY DEF HeardInv, TapTypes
<1>4. /\ Taps!Elems(queue) = {Head(queue)} \cup Taps!Elems(Tail(queue))
      /\ Tail(queue) \in Seq(Envelope)
  BY <1>1, <1>3, ElemsTail
<1>5. shown' \in [Conns -> [Taps!TapNames -> Written \cup {NULL}]]
  BY <1>1, <1>3, CurrentValues, EmitsValues
<1>6. TapTypes'
  BY <1>1, <1>2, <1>3, <1>4, <1>5 DEF TapTypes
<1>7. LinksLive'
  BY <1>1, <1>3 DEF LinksLive
<1>8. \A m : Taps!ResolvePort(m)' = Taps!ResolvePort(m)
  BY <1>1 DEF Taps!ResolvePort
<1>9. \A t \in Taps!Tapped' : \E u \in Taps!Tapped :
         t.target = u.target /\ t.node = Taps!ResolvePort(u.target) /\ u.target \in live
  <2> SUFFICES ASSUME NEW u \in Taps!Tapped, NEW t, t = [u EXCEPT !.node = Taps!ResolvePort(u.target)]
               PROVE  t.target = u.target /\ t.node = Taps!ResolvePort(u.target) /\ u.target \in live
    BY <1>2
  <2>1. u \in TapRecord /\ u.target \in live
    BY <1>3, TapFields DEF HeardInv, Taps!TapsGrounded
  <2> QED
    BY <2>1 DEF TapRecord
<1>10. Taps!Leaving' = {}
  BY <1>8, <1>9 DEF Taps!Leaving
<1>11. Exclusive'
  BY <1>10 DEF Exclusive
<1>12. Taps!TapsGrounded'
  <2> SUFFICES ASSUME NEW t \in Taps!Tapped' PROVE t.target \in live' /\ t.node \in live' \cap subs'
    BY DEF Taps!TapsGrounded
  <2>1. PICK u \in Taps!Tapped :
           t.target = u.target /\ t.node = Taps!ResolvePort(u.target) /\ u.target \in live
    BY <1>9
  <2>2. Taps!ResolvePort(u.target) \in live
    BY <1>3, <2>1, Resolves, TapFields
  <2> QED
    BY <1>1, <1>2, <2>1, <2>2
<1>13. LoadAlone'
  <2>1. Taps!Loading' => Taps!Loading
    BY <1>1, <1>4, LoadEnvelope DEF Taps!Loading, Taps!Elems
  <2>2. taps = <<>> => taps' = <<>>
    <3>1. taps = <<>> => Taps!Tapped' = {}
      BY <1>2 DEF Taps!Tapped, Taps!Elems
    <3>2. taps' # <<>> => taps'[1] \in Taps!Tapped'
      BY <1>2 DEF Taps!Tapped, Taps!Elems
    <3> QED
      BY <3>1, <3>2
  <2> QED
    BY <2>1, <2>2 DEF HeardInv, LoadAlone
<1> QED
  BY <1>6, <1>7, <1>11, <1>12, <1>13 DEF HeardInv

\* Every step of orderly clients keeps the taps heard.
LEMMA HeardNext ==
    ASSUME HeardInv, Orderly, [Taps!Next]_tapVars
    PROVE  HeardInv'
<1>1. CASE UNCHANGED tapVars
  BY <1>1 DEF tapVars, HeardInv, TapTypes, LinksLive, LoadAlone, Exclusive, Taps!TapsGrounded,
              Taps!Loading, Taps!Leaving, Taps!Tapped, Taps!ResolvePort
<1>2. ASSUME NEW n \in Taps!TapNames, Taps!Create(n) \/ \E o \in Originals : Taps!CreateAlias(n, o)
      PROVE  HeardInv'
  BY <1>2, HeardCreate
<1>3. ASSUME NEW n \in Taps!TapNames, Taps!Delete(n) \/ Taps!Destroy(n) PROVE HeardInv'
  BY <1>3, HeardDelete
<1>4. ASSUME NEW n \in Taps!TapNames, NEW o \in Originals, Taps!Point(n, o) PROVE HeardInv'
  BY <1>4, HeardPoint
<1>5. ASSUME NEW n \in Taps!TapNames, NEW v \in Written, Taps!Write(n, v) PROVE HeardInv'
  BY <1>5, HeardWrite
<1>6. ASSUME NEW n \in Taps!TapNames, NEW k \in Conns, Taps!Subscribe(k, n) PROVE HeardInv'
  BY <1>6, HeardSubscribe
<1>7. CASE Taps!LoadFlow \/ Taps!DestroyContentsStep
  BY <1>7, HeardLoad
<1>8. CASE Taps!TapOnIn
  BY <1>8, HeardTapOnIn
<1>9. CASE Taps!Relink
  BY <1>9, HeardRelink
<1> QED
  BY <1>1, <1>2, <1>3, <1>4, <1>5, <1>6, <1>7, <1>8, <1>9 DEF Taps!Next

-----------------------------------------------------------------------------
(* Every view comes true *)

\* With no tap left and nothing shown only the order of the queue is at stake.
LEMMA ViewNone ==
    ASSUME HeardInv', Taps!Tapped' = {},
           \A k \in Conns, n \in Taps!TapNames : shown'[k][n] = NULL,
           \A r \in subs' : LastIs(queue', r, val'[r])
    PROVE  ViewInv'
<1>1. Taps!Leaving' = {}
  BY DEF Taps!Leaving
<1>2. RepointsTold'
  BY <1>1 DEF RepointsTold
<1>3. ShownAsked'
  BY DEF ShownAsked
<1>4. NewestLast'
  BY DEF NewestLast
<1>5. ShownNow'
  BY DEF ShownNow
<1> QED
  BY <1>2, <1>3, <1>4, <1>5 DEF ViewInv

LEMMA ViewInit == Taps!Init => ViewInv
<1> SUFFICES ASSUME Taps!Init PROVE ViewInv
  OBVIOUS
<1>1. HeardInv
  BY HeardInit
<1>2. Taps!Tapped = {} /\ Taps!Leaving = {} /\ Taps!Elems(queue) = {} /\ subs = {}
  BY DEF Taps!Init, Taps!Tapped, Taps!Elems, Taps!Leaving
<1>3. ShownAsked
  BY DEF Taps!Init, ShownAsked
<1> QED
  BY <1>1, <1>2, <1>3 DEF ViewInv, RepointsTold, NewestLast, ShownNow

\* A step that adds no tap, moves none, re-points no watched name, keeps what is
\* shown to watchers and the re-points that are on their way.
LEMMA ViewFewer ==
    ASSUME ViewInv, HeardInv', NewestLast',
           \A t \in Taps!Tapped' :
              /\ t \in Taps!Tapped
              /\ Taps!ResolvePort(t.target)' = Taps!ResolvePort(t.target)
              /\ t.target \in rel => t.target \in rel'
              /\ \A e \in Taps!Elems(queue) :
                    e.kind = "relink" /\ e.from = t.target => e \in Taps!Elems(queue')
              /\ \A k \in Conns : shown'[k][t.target] = shown[k][t.target]
              /\ \A u \in Taps!Tapped : u.target = t.target => u \in Taps!Tapped'
              /\ \A e \in Taps!Elems(queue) : IsChange(e, t.node) => e \in Taps!Elems(queue')
              /\ val'[t.node] = val[t.node] \/ \E e \in Taps!Elems(queue') : IsChange(e, t.node),
           \A k \in Conns, n \in Taps!TapNames :
              shown'[k][n] # NULL =>
                 shown[k][n] # NULL /\ \A t \in Taps!Tapped : t.target = n => t \in Taps!Tapped'
    PROVE  ViewInv'
<1>1. \A t \in Taps!Tapped' : t \in Taps!Leaving' <=> t \in Taps!Leaving
  BY DEF Taps!Leaving
<1>2. \A t \in Taps!Leaving' : t \in Taps!Tapped' /\ t \in Taps!Leaving
  BY <1>1 DEF Taps!Leaving
<1>3. RepointsTold'
  <2>1. \A t \in Taps!Tapped' : t.target \in Aliases => t.target \in rel'
    BY DEF ViewInv, RepointsTold
  <2>2. ASSUME NEW t \in Taps!Leaving'
        PROVE  \E e \in Taps!Elems(queue') : e.kind = "relink" /\ e.from = t.target
    <3>1. PICK e \in Taps!Elems(queue) : e.kind = "relink" /\ e.from = t.target
      BY <1>2 DEF ViewInv, RepointsTold
    <3> QED
      BY <1>2, <3>1
  <2>3. \A t \in Taps!Leaving' : \E e \in Taps!Elems(queue)' : e.kind = "relink" /\ e.from = t.target
    BY <2>2 DEF Taps!Elems
  <2> QED
    BY <2>1, <2>3 DEF RepointsTold
<1>4. ShownAsked'
  BY DEF ViewInv, ShownAsked
<1>5. ShownNow'
  <2> SUFFICES ASSUME NEW t \in Taps!Tapped', NEW k \in Conns,
                      k \in t.conns, t.node = Taps!ResolvePort(t.target)',
                      \A e \in Taps!Elems(queue)' : ~IsChange(e, t.node),
                      ~\E u \in Taps!Leaving' : u.target = t.target /\ k \in u.conns
               PROVE  shown'[k][t.target] = val'[t.node]
    BY DEF ShownNow
  <2>1. Taps!Elems(queue)' = Taps!Elems(queue')
    BY DEF Taps!Elems
  <2>2. t \in Taps!Tapped /\ t.node = Taps!ResolvePort(t.target)
    OBVIOUS
  <2>3. \A e \in Taps!Elems(queue) : ~IsChange(e, t.node)
    BY <2>1
  <2>4. ~\E u \in Taps!Leaving : u.target = t.target /\ k \in u.conns
    BY <1>1 DEF Taps!Leaving
  <2>5. shown[k][t.target] = val[t.node]
    BY <2>2, <2>3, <2>4 DEF ViewInv, ShownNow
  <2> QED
    BY <2>1, <2>5
<1> QED
  BY <1>3, <1>4, <1>5 DEF ViewInv

\* What is to be shown of the queue, in the next state.
LEMMA NewestNext ==
    ASSUME \A r \in subs' : LastIs(queue', r, val'[r]),
           \A t \in Taps!Tapped' :
              \/ Taps!ResolvePort(t.target)' \in subs'
              \/ \A e \in Taps!Elems(queue') : e.from # Taps!ResolvePort(t.target)'
    PROVE  NewestLast'
<1>1. Taps!Elems(queue)' = Taps!Elems(queue')
  BY DEF Taps!Elems
<1> QED
  BY <1>1 DEF NewestLast, Taps!Fresh

LEMMA ViewCreate ==
    ASSUME ViewInv, NEW n \in Taps!TapNames,
           Taps!Create(n) \/ \E o \in Originals : Taps!CreateAlias(n, o)
    PROVE  ViewInv'
<1>1. HeardInv'
  BY HeardCreate DEF ViewInv
<1>2. /\ taps' = taps /\ subs' = subs /\ rel' = rel /\ val' = val /\ queue' = queue /\ shown' = shown
      /\ Taps!Tapped' = Taps!Tapped
  BY DEF Taps!Create, Taps!CreateAlias, Taps!Tapped
<1>3. \A t \in Taps!Tapped : Taps!ResolvePort(t.target)' = Taps!ResolvePort(t.target)
  <2> TAKE t \in Taps!Tapped
  <2>1. t.target \in live
    BY DEF ViewInv, HeardInv, Taps!TapsGrounded
  <2>2. t.target \in Aliases => link'[t.target] = link[t.target]
    BY <2>1 DEF ViewInv, HeardInv, TapTypes, Taps!Create, Taps!CreateAlias
  <2> QED
    BY <2>2 DEF Taps!ResolvePort
<1>4. NewestLast'
  <2>1. \A t \in Taps!Tapped' :
           \/ Taps!ResolvePort(t.target)' \in subs'
           \/ \A e \in Taps!Elems(queue') : e.from # Taps!ResolvePort(t.target)'
    BY <1>2, <1>3 DEF ViewInv, NewestLast, Taps!Fresh
  <2>2. \A r \in subs' : LastIs(queue', r, val'[r])
    BY <1>2 DEF ViewInv, NewestLast
  <2> QED
    BY <2>1, <2>2, NewestNext
<1> QED
  BY <1>1, <1>2, <1>3, <1>4, ViewFewer

LEMMA ViewWrite ==
    ASSUME ViewInv, NEW n \in Taps!TapNames, NEW v \in Written, Taps!Write(n, v)
    PROVE  ViewInv'
<1> DEFINE r == Taps!ResolvePort(n)
<1>1. HeardInv' /\ TapTypes
  BY HeardWrite DEF ViewInv, HeardInv
<1>2. r \in Taps!TapNames
  BY <1>1, Resolves
<1>3. /\ queue' = Taps!FanOut(queue, r, v) /\ val' = [val EXCEPT ![r] = v]
      /\ live' = live /\ link' = link /\ subs' = subs /\ taps' = taps /\ rel' = rel
      /\ shown' = shown
  BY DEF Taps!Write
<1> HIDE DEF r
<1>4. queue \in Seq(Envelope)
  BY <1>1 DEF TapTypes
<1>5. /\ Taps!Elems(queue) \subseteq Taps!Elems(queue')
      /\ \A e \in Taps!Elems(queue') : e \in Taps!Elems(queue) \/ (IsChange(e, r) /\ r \in subs)
      /\ r \in subs => \E e \in Taps!Elems(queue') : IsChange(e, r)
      /\ LastIs(queue', r, v) \/ r \notin subs
      /\ \A m, w : m # r /\ LastIs(queue, m, w) => LastIs(queue', m, w)
  BY <1>2, <1>3, <1>4, FansOut
<1>6. \A m \in Taps!TapNames : val'[m] = IF m = r THEN v ELSE val[m]
  BY <1>1, <1>3 DEF TapTypes
<1>7. Taps!Tapped' = Taps!Tapped /\ \A m : Taps!ResolvePort(m)' = Taps!ResolvePort(m)
  BY <1>3 DEF Taps!Tapped, Taps!ResolvePort
<1>8. NewestLast'
  <2>1. ASSUME NEW m \in subs' PROVE LastIs(queue', m, val'[m])
    <3>1. m \in subs /\ m \in Taps!TapNames
      BY <1>1, <1>3 DEF TapTypes
    <3> QED
      BY <1>5, <1>6, <3>1 DEF ViewInv, NewestLast
  <2>2. ASSUME NEW t \in Taps!Tapped'
        PROVE  \/ Taps!ResolvePort(t.target)' \in subs'
               \/ \A e \in Taps!Elems(queue') : e.from # Taps!ResolvePort(t.target)'
    <3>1. \/ Taps!ResolvePort(t.target) \in subs
          \/ \A e \in Taps!Elems(queue) : e.from # Taps!ResolvePort(t.target)
      BY <1>7 DEF ViewInv, NewestLast, Taps!Fresh
    <3> QED
      BY <1>3, <1>5, <1>7, <3>1 DEF IsChange
  <2> QED
    BY <2>1, <2>2, NewestNext
<1>9. \A t \in Taps!Tapped : val'[t.node] = val[t.node] \/ \E e \in Taps!Elems(queue') : IsChange(e, t.node)
  <2> TAKE t \in Taps!Tapped
  <2>1. t.node \in subs /\ t.node \in Taps!TapNames
    BY <1>1, TapFields DEF ViewInv, HeardInv, Taps!TapsGrounded
  <2> QED
    BY <1>5, <1>6, <2>1
<1> QED
  BY <1>1, <1>3, <1>5, <1>7, <1>8, <1>9, ViewFewer

\* The queue of what is left after a deletion, and what is shown.
LEMMA DeleteQueues ==
    ASSUME HeardInv, NEW n \in Taps!TapNames, NEW q \in Seq(Envelope), Taps!DeleteInstance(n, q),
           \A r \in subs : r # n => LastIs(q, r, val[r])
    PROVE  /\ \A r \in subs' : LastIs(queue', r, val'[r])
           /\ \A m \in Taps!TapNames : m # n => val'[m] = val[m]
           /\ \A k \in Conns, m \in Taps!TapNames : shown'[k][m] = IF m = n THEN NULL ELSE shown[k][m]
<1> DEFINE D == {e \in Taps!Elems(q) : e.from = n}
<1>1. /\ val' = [val EXCEPT ![n] = Taps!Default] /\ subs' = subs \ {n}
      /\ queue' = Taps!Without(q, D)
      /\ shown' = [k \in Conns |-> [shown[k] EXCEPT ![n] = NULL]]
  BY DEF Taps!DeleteInstance
<1>2. \A m \in Taps!TapNames : m # n => val'[m] = val[m]
  BY <1>1 DEF HeardInv, TapTypes
<1>3. \A k \in Conns, m \in Taps!TapNames : shown'[k][m] = IF m = n THEN NULL ELSE shown[k][m]
  BY <1>1 DEF HeardInv, TapTypes
<1>4. ASSUME NEW r \in subs' PROVE LastIs(queue', r, val'[r])
  <2>1. r \in subs /\ r # n /\ r \in Taps!TapNames
    BY <1>1 DEF HeardInv, TapTypes
  <2>2. \A e \in D : ~IsChange(e, r)
    BY <2>1 DEF IsChange
  <2> HIDE DEF D
  <2>3. LastIs(Taps!Without(q, D), r, val[r])
    BY <2>1, <2>2, LastWithout
  <2> QED
    BY <1>1, <1>2, <2>1, <2>3
<1> QED
  BY <1>2, <1>3, <1>4

LEMMA ViewDelete ==
    ASSUME ViewInv, Risks = {}, NEW n \in Taps!TapNames, Taps!Delete(n) \/ Taps!Destroy(n)
    PROVE  ViewInv'
<1>0. HeardInv /\ Orderly /\ TapTypes
  BY DEF ViewInv, HeardInv, Orderly
<1>1. HeardInv'
  BY <1>0, HeardDelete
<1>2. /\ Taps!DeleteInstance(n, queue) /\ victims' = victims /\ rel' = rel \ {n} /\ subs' = subs \ {n}
      /\ \/ taps' = Taps!FreeTaps(n) /\ ~Taps!Shared(n, n)
         \/ taps' = taps /\ ~\E t \in Taps!Tapped : n \in {t.node, t.target, Taps!ResolvePort(t.target)}
  BY DEF Taps!Delete, Taps!Destroy, Taps!DeleteInstance
<1>3. taps' \in Seq(TapRecord) /\ Taps!Tapped' = {t \in Taps!Tapped : t.target # n}
  BY <1>0, <1>2, FreedTaps DEF TapTypes, Taps!Tapped
<1>4. \A t \in Taps!Tapped' : t.node # n /\ Taps!ResolvePort(t.target) # n
  BY <1>2, <1>3 DEF Taps!Shared
<1>5. queue \in Seq(Envelope) /\ victims' \subseteq Taps!TapNames
  BY <1>0, <1>2 DEF TapTypes
<1>6. /\ Taps!Elems(queue') = {e \in Taps!Elems(queue) : e.from # n}
      /\ \A m \in Taps!TapNames : m # n /\ Taps!ResolvePort(m) # n =>
            Taps!ResolvePort(m)' = Taps!ResolvePort(m)
  BY <1>0, <1>2, <1>3, <1>5, DeleteLeaves
<1>7. /\ \A r \in subs' : LastIs(queue', r, val'[r])
      /\ \A m \in Taps!TapNames : m # n => val'[m] = val[m]
      /\ \A k \in Conns, m \in Taps!TapNames : shown'[k][m] = IF m = n THEN NULL ELSE shown[k][m]
  <2>1. \A r \in subs : r # n => LastIs(queue, r, val[r])
    BY DEF ViewInv, NewestLast
  <2> QED
    BY <1>0, <1>2, <1>5, <2>1, DeleteQueues
<1>8. \A t \in Taps!Tapped' :
         /\ t \in Taps!Tapped /\ t.target # n /\ t.target \in Taps!TapNames /\ t.node \in Taps!TapNames
         /\ Taps!ResolvePort(t.target)' = Taps!ResolvePort(t.target)
  BY <1>0, <1>3, <1>4, <1>6, TapFields
<1>9. NewestLast'
  <2>1. ASSUME NEW t \in Taps!Tapped'
        PROVE  \/ Taps!ResolvePort(t.target)' \in subs'
               \/ \A e \in Taps!Elems(queue') : e.from # Taps!ResolvePort(t.target)'
    <3>1. \/ Taps!ResolvePort(t.target) \in subs
          \/ \A e \in Taps!Elems(queue) : e.from # Taps!ResolvePort(t.target)
      BY <1>8 DEF ViewInv, NewestLast, Taps!Fresh
    <3> QED
      BY <1>2, <1>4, <1>6, <1>8, <3>1
  <2> QED
    BY <1>7, <2>1, NewestNext
<1>10. \A t \in Taps!Tapped' :
              /\ t.target \in rel => t.target \in rel'
              /\ \A e \in Taps!Elems(queue) :
                    e.kind = "relink" /\ e.from = t.target => e \in Taps!Elems(queue')
              /\ \A k \in Conns : shown'[k][t.target] = shown[k][t.target]
              /\ \A u \in Taps!Tapped : u.target = t.target => u \in Taps!Tapped'
              /\ \A e \in Taps!Elems(queue) : IsChange(e, t.node) => e \in Taps!Elems(queue')
              /\ val'[t.node] = val[t.node]
  BY <1>2, <1>3, <1>4, <1>6, <1>7, <1>8 DEF IsChange
<1>11. ASSUME NEW k \in Conns, NEW m \in Taps!TapNames, shown'[k][m] # NULL
       PROVE  shown[k][m] # NULL /\ \A t \in Taps!Tapped : t.target = m => t \in Taps!Tapped'
  BY <1>3, <1>7, <1>11
<1> QED
  BY <1>1, <1>8, <1>9, <1>10, <1>11, ViewFewer

LEMMA ViewLoad ==
    ASSUME ViewInv, Taps!LoadFlow \/ Taps!DestroyContentsStep
    PROVE  ViewInv'
<1>0. HeardInv /\ HeardInv' /\ queue \in Seq(Envelope) /\ \A r \in subs : LastIs(queue, r, val[r])
  BY HeardLoad DEF ViewInv, HeardInv, TapTypes, NewestLast
<1>1. CASE Taps!LoadFlow
  <2> DEFINE e == [kind |-> "destroy", from |-> NULL]
  <2>1. /\ taps' = <<>> /\ subs' \subseteq subs /\ val' = val /\ queue' = Append(queue, e)
        /\ shown' = [k \in Conns |-> [n \in Taps!TapNames |-> NULL]]
    BY <1>1 DEF Taps!LoadFlow
  <2>2. \A r : ~IsChange(e, r)
    BY DEF IsChange
  <2> HIDE DEF e
  <2>3. Taps!Tapped' = {}
    BY <2>1 DEF Taps!Tapped, Taps!Elems
  <2>4. ASSUME NEW r \in subs' PROVE LastIs(queue', r, val'[r])
    <3>1. LastIs(queue, r, val[r])
      BY <1>0, <2>1
    <3>2. LastIs(Append(queue, e), r, val[r])
      BY <1>0, <2>2, <3>1, LastAppend
    <3> QED
      BY <2>1, <3>2
  <2>5. \A k \in Conns, n \in Taps!TapNames : shown'[k][n] = NULL
    BY <2>1
  <2> QED
    BY <1>0, <2>3, <2>4, <2>5, ViewNone
<1>2. CASE Taps!DestroyContentsStep
  <2>1. queue # <<>> /\ Head(queue).kind = "destroy" /\ taps' = taps
    BY <1>2 DEF Taps!DestroyContentsStep
  <2>2. /\ Head(queue) \in Taps!Elems(queue) /\ Head(queue) \in Envelope
        /\ Tail(queue) \in Seq(Envelope)
    BY <1>0, <2>1, ElemsTail
  <2>3. taps = <<>>
    BY <1>0, <2>1, <2>2, LoadEnvelope DEF HeardInv, LoadAlone
  <2>4. Taps!Tapped = {} /\ Taps!Tapped' = {}
    BY <2>1, <2>3 DEF Taps!Tapped, Taps!Elems
  <2>5. \A k \in Conns, n \in Taps!TapNames : shown[k][n] = NULL
    BY <2>4 DEF ViewInv, ShownAsked
  <2>6. \A r \in subs : LastIs(Tail(queue), r, val[r])
    BY <1>0, <2>1, LastTail
  <2>7. CASE queue' = Tail(queue) /\ UNCHANGED <<live, link, val, subs, rel, shown, victims>>
    <3>1. /\ \A r \in subs' : LastIs(queue', r, val'[r])
          /\ \A k \in Conns, n \in Taps!TapNames : shown'[k][n] = NULL
      BY <2>5, <2>6, <2>7
    <3> QED
      BY <1>0, <2>4, <3>1, ViewNone
  <2>8. ASSUME NEW n \in victims, Taps!DeleteInstance(n, Append(Tail(queue), Head(queue)))
        PROVE  ViewInv'
    <3> DEFINE q == Append(Tail(queue), Head(queue))
    <3>1. n \in Taps!TapNames /\ q \in Seq(Envelope)
      BY <1>0, <2>2, <2>8 DEF HeardInv, TapTypes
    <3>2. \A r : ~IsChange(Head(queue), r)
      BY <2>1 DEF IsChange
    <3>3. \A r \in subs : r # n => LastIs(q, r, val[r])
      BY <2>2, <2>6, <3>2, LastAppend
    <3> HIDE DEF q
    <3>4. /\ \A r \in subs' : LastIs(queue', r, val'[r])
          /\ \A k \in Conns, m \in Taps!TapNames : shown'[k][m] = IF m = n THEN NULL ELSE shown[k][m]
      BY <1>0, <2>8, <3>1, <3>3, DeleteQueues DEF q
    <3> QED
      BY <1>0, <2>4, <2>5, <3>4, ViewNone
  <2> QED
    BY <1>2, <2>7, <2>8 DEF Taps!DestroyContentsStep
<1> QED
  BY <1>1, <1>2

\* A change is delivered: every tap on its node says it, and if it was the last
\* one it is the value the node has.
LEMMA ViewTapOnIn ==
    ASSUME ViewInv, Taps!TapOnIn
    PROVE  ViewInv'
<1> DEFINE e == Head(queue)
           hit == {t \in Taps!Tapped : t.node = e.from}
<1>0. HeardInv /\ HeardInv' /\ TapTypes /\ queue \in Seq(Envelope)
  BY HeardTapOnIn DEF ViewInv, HeardInv, TapTypes
<1>1. /\ queue # <<>> /\ e.kind = "change" /\ queue' = Tail(queue)
      /\ link' = link /\ subs' = subs /\ taps' = taps /\ rel' = rel /\ val' = val
      /\ shown' = IF e.from \notin subs THEN shown ELSE Taps!TapEmit(hit, Taps!Told)
  BY DEF Taps!TapOnIn
<1>2. Taps!Elems(queue) = {e} \cup Taps!Elems(queue')
  BY <1>0, <1>1, ElemsTail
<1>3. Taps!Tapped' = Taps!Tapped /\ \A m : Taps!ResolvePort(m)' = Taps!ResolvePort(m)
  BY <1>1 DEF Taps!Tapped, Taps!ResolvePort
<1>4. Taps!Leaving' = Taps!Leaving
  BY <1>3 DEF Taps!Leaving
<1>5. Taps!Elems(queue)' = Taps!Elems(queue')
  BY DEF Taps!Elems
<1>6. RepointsTold'
  BY <1>1, <1>2, <1>3, <1>4, <1>5 DEF ViewInv, RepointsTold
<1>7. NewestLast'
  <2>1. \A r \in subs' : LastIs(queue', r, val'[r])
    BY <1>0, <1>1, LastTail DEF ViewInv, NewestLast
  <2>2. \A t \in Taps!Tapped' :
           \/ Taps!ResolvePort(t.target)' \in subs'
           \/ \A d \in Taps!Elems(queue') : d.from # Taps!ResolvePort(t.target)'
    BY <1>1, <1>2, <1>3 DEF ViewInv, NewestLast, Taps!Fresh
  <2> QED
    BY <2>1, <2>2, NewestNext
<1>8. \A k \in Conns, n \in Taps!TapNames :
         \/ shown'[k][n] = shown[k][n] /\ (e.from \notin subs \/ ~\E t \in hit : t.target = n /\ k \in t.conns)
         \/ shown'[k][n] = e.value /\ \E t \in hit : t.target = n /\ k \in t.conns
  <2> TAKE k \in Conns, n \in Taps!TapNames
  <2>1. Taps!Told[n] = e.value
    BY DEF Taps!Told
  <2> HIDE DEF hit, e
  <2> QED
    BY <1>1, <2>1, Emits
<1>9. ShownAsked'
  <2>1. ASSUME NEW k \in Conns, NEW n \in Taps!TapNames, shown'[k][n] # NULL
        PROVE  \E t \in Taps!Tapped : t.target = n /\ k \in t.conns
    BY <1>8, <2>1 DEF ViewInv, ShownAsked
  <2> QED
    BY <1>3, <2>1 DEF ShownAsked
<1>10. ASSUME NEW t \in Taps!Tapped, NEW k \in Conns, k \in t.conns,
              t.node = Taps!ResolvePort(t.target),
              \A d \in Taps!Elems(queue') : ~IsChange(d, t.node),
              ~\E u \in Taps!Leaving : u.target = t.target /\ k \in u.conns
       PROVE  shown'[k][t.target] = val[t.node]
  <2>1. t.target \in Taps!TapNames /\ t.node \in subs
    BY <1>0, TapFields DEF HeardInv, Taps!TapsGrounded
  <2>2. CASE e.from = t.node
    <3>1. t \in hit
      BY <2>2
    <3>2. shown'[k][t.target] = e.value
      BY <1>8, <1>10, <2>1, <2>2, <3>1
    <3>3. LastIs(queue, t.node, val[t.node])
      BY <2>1 DEF ViewInv, NewestLast
    <3>4. IsChange(e, t.node)
      BY <1>1, <2>2 DEF IsChange
    <3>5. e.value = val[t.node]
      BY <1>0, <1>1, <1>10, <3>3, <3>4, LastTold
    <3> QED
      BY <3>2, <3>5
  <2>3. CASE e.from # t.node
    <3>1. \A d \in Taps!Elems(queue) : ~IsChange(d, t.node)
      BY <1>2, <1>10, <2>3 DEF IsChange
    <3>2. shown[k][t.target] = val[t.node]
      BY <1>10, <3>1 DEF ViewInv, ShownNow
    <3>3. ~\E u \in hit : u.target = t.target /\ k \in u.conns
      <4> SUFFICES ASSUME NEW u \in hit, u.target = t.target, k \in u.conns PROVE FALSE
        OBVIOUS
      <4>1. u \in Taps!Tapped /\ u.node # Taps!ResolvePort(u.target)
        BY <1>10, <2>3
      <4>2. u \in Taps!Leaving
        BY <4>1 DEF Taps!Leaving
      <4> QED
        BY <1>10, <4>2
    <3> QED
      BY <1>8, <2>1, <3>2, <3>3
  <2> QED
    BY <2>2, <2>3
<1>11. ShownNow'
  BY <1>1, <1>3, <1>4, <1>5, <1>10 DEF ShownNow
<1> QED
  BY <1>0, <1>6, <1>7, <1>9, <1>11 DEF ViewInv

\* A control is re-pointed: its taps are to follow, or hear from the new node.
LEMMA ViewPoint ==
    ASSUME ViewInv, Risks = {}, NEW c \in Taps!TapNames, NEW o \in Originals, Taps!Point(c, o)
    PROVE  ViewInv'
<1>0. HeardInv /\ Orderly /\ TapTypes
  BY DEF ViewInv, HeardInv, Orderly
<1>1. HeardInv'
  BY <1>0, HeardPoint
<1>2. /\ c \in Aliases
      /\ queue' = Taps!FanOut(PointQueue(c), o, val[o])
      /\ val[o] \in Written /\ o \in Taps!TapNames
      /\ subs' = subs /\ rel' = rel /\ val' = val /\ shown' = shown
      /\ Taps!Tapped' = Taps!Tapped
      /\ Taps!ResolvePort(c)' = o
      /\ \A m \in Taps!TapNames : m # c => Taps!ResolvePort(m)' = Taps!ResolvePort(m)
      /\ \A e \in Taps!Elems(queue') :
            \/ e \in Taps!Elems(queue) \/ (IsChange(e, o) /\ o \in subs)
            \/ (e = [kind |-> "relink", from |-> c] /\ c \in rel)
      /\ Taps!Elems(queue) \subseteq Taps!Elems(queue')
      /\ c \in rel => [kind |-> "relink", from |-> c] \in Taps!Elems(queue')
  BY <1>0, PointStep
<1>3. Taps!Fresh(o)
  BY DEF Taps!Point
<1>4. \A t \in Taps!Tapped : t.target \in Taps!TapNames /\ t.node \in subs
  BY <1>0, TapFields DEF HeardInv, Taps!TapsGrounded
<1>5. Taps!Elems(queue)' = Taps!Elems(queue')
  BY DEF Taps!Elems
<1>6. RepointsTold'
  <2>1. ASSUME NEW t \in Taps!Leaving'
        PROVE  \E e \in Taps!Elems(queue') : e.kind = "relink" /\ e.from = t.target
    <3>1. t \in Taps!Tapped /\ t.node # Taps!ResolvePort(t.target)'
      BY <1>2 DEF Taps!Leaving
    <3>2. CASE t.target = c
      <4>1. c \in rel
        BY <1>2, <3>1, <3>2 DEF ViewInv, RepointsTold
      <4> QED
        BY <1>2, <3>2, <4>1
    <3>3. CASE t.target # c
      <4>1. t \in Taps!Leaving
        BY <1>2, <1>4, <3>1, <3>3 DEF Taps!Leaving
      <4> QED
        BY <1>2, <4>1 DEF ViewInv, RepointsTold
    <3> QED
      BY <3>2, <3>3
  <2> QED
    BY <1>2, <1>5, <2>1 DEF ViewInv, RepointsTold
<1>7. ShownAsked'
  BY <1>2 DEF ViewInv, ShownAsked
<1>8. PointQueue(c) \in Seq(Envelope) /\ \A r, w : LastIs(queue, r, w) => LastIs(PointQueue(c), r, w)
  BY <1>0, <1>2, PointQueues
<1>9. /\ LastIs(queue', o, val[o]) \/ o \notin subs
      /\ \A r, w : r # o /\ LastIs(PointQueue(c), r, w) => LastIs(queue', r, w)
      /\ o \in subs => \E e \in Taps!Elems(queue') : IsChange(e, o)
  BY <1>2, <1>8, FansOut
<1>10. NewestLast'
  <2>1. \A r \in subs' : LastIs(queue', r, val'[r])
    BY <1>2, <1>8, <1>9 DEF ViewInv, NewestLast
  <2>2. ASSUME NEW t \in Taps!Tapped'
        PROVE  \/ Taps!ResolvePort(t.target)' \in subs'
               \/ \A e \in Taps!Elems(queue') : e.from # Taps!ResolvePort(t.target)'
    <3>1. t \in Taps!Tapped /\ t.target \in Taps!TapNames
      BY <1>2, <1>4
    <3>2. CASE t.target = c
      BY <1>2, <1>3, <3>1, <3>2, TapConstants DEF Taps!Fresh, IsChange
    <3>3. CASE t.target # c
      <4> DEFINE r == Taps!ResolvePort(t.target)
      <4>1. r \in subs \/ \A e \in Taps!Elems(queue) : e.from # r
        BY <3>1 DEF ViewInv, NewestLast, Taps!Fresh
      <4>2. r # c
        BY <1>0, <1>2, <3>1, <3>3, Resolves, TapConstants
      <4>3. Taps!ResolvePort(t.target)' = r
        BY <1>2, <3>1, <3>3
      <4> QED
        BY <1>2, <4>1, <4>2, <4>3 DEF IsChange
    <3> QED
      BY <3>2, <3>3
  <2> QED
    BY <2>1, <2>2, NewestNext
<1>11. ASSUME NEW t \in Taps!Tapped, NEW k \in Conns, k \in t.conns,
              t.node = Taps!ResolvePort(t.target)',
              \A d \in Taps!Elems(queue') : ~IsChange(d, t.node),
              ~\E u \in Taps!Leaving' : u.target = t.target /\ k \in u.conns
       PROVE  shown[k][t.target] = val[t.node]
  <2>1. t.target # c
    BY <1>2, <1>4, <1>9, <1>11
  <2>2. t.node = Taps!ResolvePort(t.target)
    BY <1>2, <1>4, <1>11, <2>1
  <2>3. ~\E u \in Taps!Leaving : u.target = t.target /\ k \in u.conns
    BY <1>2, <1>4, <1>11, <2>1 DEF Taps!Leaving
  <2>4. \A d \in Taps!Elems(queue) : ~IsChange(d, t.node)
    BY <1>2, <1>11
  <2> QED
    BY <1>11, <2>2, <2>3, <2>4 DEF ViewInv, ShownNow
<1>12. ShownNow'
  BY <1>2, <1>5, <1>11 DEF ShownNow
<1> QED
  BY <1>1, <1>6, <1>7, <1>10, <1>12 DEF ViewInv

\* A connection joins: it is handed the value, and so are the others in its tap.
LEMMA ViewSubscribe ==
    ASSUME ViewInv, Risks = {}, NEW k \in Conns, NEW n \in Taps!TapNames, Taps!Subscribe(k, n)
    PROVE  ViewInv'
<1>0. HeardInv /\ Orderly /\ TapTypes
  BY DEF ViewInv, HeardInv, Orderly
<1>1. HeardInv'
  BY <1>0, HeardSubscribe
<1>2. PICK t : Joined(k, n, t)
  BY <1>0, SubscribeStep
<1>3. /\ t \in TapRecord /\ t.target = n /\ t.node = Taps!ResolvePort(n) /\ k \in t.conns
      /\ Taps!Tapped' \subseteq Taps!Tapped \cup {t} /\ t \in Taps!Tapped'
      /\ \A u \in Taps!Tapped : \E w \in Taps!Tapped' : w.target = u.target /\ u.conns \subseteq w.conns
      /\ \A u \in Taps!Leaving : u \in Taps!Tapped'
      /\ shown' = Taps!TapEmit({t}, Taps!Current)
      /\ subs' = subs \cup {t.node} /\ rel \subseteq rel' /\ rel' \subseteq Aliases
      /\ n \in rel' \/ n \notin Aliases \/ \E u \in Taps!Tapped : u.target = n
  BY <1>2 DEF Joined
<1>4. live' = live /\ link' = link /\ val' = val /\ queue' = queue /\ Taps!Fresh(Taps!ResolvePort(n))
  BY DEF Taps!Subscribe
<1>5. \A m : Taps!ResolvePort(m)' = Taps!ResolvePort(m)
  BY <1>4 DEF Taps!ResolvePort
<1>6. \A u \in Taps!Leaving' : u \in Taps!Leaving
  BY <1>3, <1>5 DEF Taps!Leaving
<1>7. Taps!Elems(queue)' = Taps!Elems(queue)
  BY <1>4 DEF Taps!Elems
<1>8. RepointsTold'
  <2>1. \A u \in Taps!Tapped : u.target \in Aliases => u.target \in rel'
    BY <1>3 DEF ViewInv, RepointsTold
  <2>2. n \in Aliases => n \in rel'
    BY <1>3, <2>1
  <2>3. \A u \in Taps!Tapped' : u.target \in Aliases => u.target \in rel'
    BY <1>3, <2>1, <2>2
  <2> QED
    BY <1>6, <1>7, <2>3 DEF ViewInv, RepointsTold
<1>9. ASSUME NEW j \in Conns, NEW m \in Taps!TapNames
      PROVE  \/ shown'[j][m] = val[Taps!ResolvePort(m)] /\ m = n /\ j \in t.conns
             \/ shown'[j][m] = shown[j][m] /\ (m # n \/ j \notin t.conns)
  <2>1. Taps!Current[m] = val[Taps!ResolvePort(m)]
    BY DEF Taps!Current
  <2>2. (\E u \in {t} : u.target = m /\ j \in u.conns) <=> m = n /\ j \in t.conns
    BY <1>3
  <2> QED
    BY <1>3, <2>1, <2>2, Emits
<1>10. ShownAsked'
  <2>1. ASSUME NEW j \in Conns, NEW m \in Taps!TapNames, shown'[j][m] # NULL
        PROVE  \E u \in Taps!Tapped' : u.target = m /\ j \in u.conns
    <3>1. CASE m = n /\ j \in t.conns
      BY <1>3, <3>1
    <3>2. CASE ~(m = n /\ j \in t.conns)
      <4>1. shown[j][m] # NULL
        BY <1>9, <2>1, <3>2
      <4>2. PICK u \in Taps!Tapped : u.target = m /\ j \in u.conns
        BY <4>1 DEF ViewInv, ShownAsked
      <4> QED
        BY <1>3, <4>2
    <3> QED
      BY <3>1, <3>2
  <2> QED
    BY <2>1 DEF ShownAsked
<1>11. NewestLast'
  <2>1. ASSUME NEW r \in subs' PROVE LastIs(queue', r, val'[r])
    <3>1. CASE r \in subs
      BY <1>4, <3>1 DEF ViewInv, NewestLast
    <3>2. CASE r \notin subs
      <4>1. \A e \in Taps!Elems(queue) : e.from # r
        BY <1>3, <1>4, <3>2 DEF Taps!Fresh
      <4>2. \A i \in DOMAIN queue : ~IsChange(queue[i], r)
        BY <4>1 DEF Taps!Elems, IsChange
      <4> QED
        BY <1>4, <4>2 DEF LastIs
    <3> QED
      BY <3>1, <3>2
  <2>2. \A u \in Taps!Tapped' :
           \/ Taps!ResolvePort(u.target)' \in subs'
           \/ \A e \in Taps!Elems(queue') : e.from # Taps!ResolvePort(u.target)'
    BY <1>3, <1>4, <1>5 DEF ViewInv, NewestLast, Taps!Fresh
  <2> QED
    BY <2>1, <2>2, NewestNext
<1>12. ASSUME NEW u \in Taps!Tapped', NEW j \in Conns, j \in u.conns,
              u.node = Taps!ResolvePort(u.target),
              \A e \in Taps!Elems(queue) : ~IsChange(e, u.node),
              ~\E w \in Taps!Leaving' : w.target = u.target /\ j \in w.conns
       PROVE  shown'[j][u.target] = val[u.node]
  <2>1. u.target \in Taps!TapNames /\ (u \in Taps!Tapped \/ u = t)
    BY <1>0, <1>3, TapFields
  <2>2. CASE u.target = n /\ j \in t.conns
    BY <1>9, <1>12, <2>1, <2>2
  <2>3. CASE ~(u.target = n /\ j \in t.conns)
    <3>1. u \in Taps!Tapped /\ shown'[j][u.target] = shown[j][u.target]
      <4>1. u # t
        BY <1>3, <1>12, <2>3
      <4>2. shown'[j][u.target] = shown[j][u.target]
        BY <1>9, <2>1, <2>3
      <4> QED
        BY <2>1, <4>1, <4>2
    <3>2. ASSUME NEW w \in Taps!Leaving, w.target = u.target, j \in w.conns PROVE FALSE
      <4>1. w \in Taps!Tapped /\ w.node # Taps!ResolvePort(w.target)
        BY DEF Taps!Leaving
      <4>2. w \in Taps!Tapped'
        BY <1>3, <3>2
      <4>3. w \in Taps!Leaving'
        BY <1>5, <4>1, <4>2 DEF Taps!Leaving
      <4> QED
        BY <1>12, <3>2, <4>3
    <3> QED
      BY <1>12, <3>1, <3>2 DEF ViewInv, ShownNow
  <2> QED
    BY <2>2, <2>3
<1>13. ShownNow'
  BY <1>4, <1>5, <1>7, <1>12 DEF ShownNow
<1> QED
  BY <1>1, <1>8, <1>10, <1>11, <1>13 DEF ViewInv

\* The taps follow: what moved is told the value where it is now.
LEMMA ViewRelink ==
    ASSUME ViewInv, Taps!Relink
    PROVE  ViewInv'
<1>0. HeardInv /\ HeardInv' /\ TapTypes /\ queue \in Seq(Envelope)
  BY HeardRelink DEF ViewInv, HeardInv, TapTypes
<1>1. /\ queue # <<>> /\ queue' = Tail(queue) /\ link' = link /\ val' = val /\ rel' = rel
      /\ Head(queue).kind = "relink" /\ shown' = Taps!TapEmit(Taps!Leaving, Taps!Current)
  BY DEF Taps!Relink
<1>2. /\ Taps!Tapped' = {[t EXCEPT !.node = Taps!ResolvePort(t.target)] : t \in Taps!Tapped}
      /\ \A t \in Taps!Tapped : Taps!ResolvePort(t.target) \in subs'
      /\ \A r \in subs' : r \in subs \/ \E t \in Taps!Tapped : r = Taps!ResolvePort(t.target)
  BY <1>0, RelinkStep
<1>3. \A m : Taps!ResolvePort(m)' = Taps!ResolvePort(m)
  BY <1>1 DEF Taps!ResolvePort
<1>4. \A u \in Taps!Tapped :
         LET w == [u EXCEPT !.node = Taps!ResolvePort(u.target)]
         IN  w.target = u.target /\ w.node = Taps!ResolvePort(u.target) /\ w.conns = u.conns
  BY <1>0, TapFields DEF TapRecord
<1>5. \A t \in Taps!Tapped' : \E u \in Taps!Tapped :
         t.target = u.target /\ t.node = Taps!ResolvePort(u.target) /\ t.conns = u.conns
  BY <1>2, <1>4
<1>6. \A u \in Taps!Tapped : \E t \in Taps!Tapped' : t.target = u.target /\ t.conns = u.conns
  BY <1>2, <1>4
<1>7. Taps!Leaving' = {}
  BY <1>3, <1>5 DEF Taps!Leaving
<1>8. Taps!Elems(queue) = {Head(queue)} \cup Taps!Elems(queue') /\ Taps!Elems(queue)' = Taps!Elems(queue')
  BY <1>0, <1>1, ElemsTail DEF Taps!Elems
<1>9. RepointsTold'
  BY <1>1, <1>5, <1>7 DEF ViewInv, RepointsTold
<1>10. ASSUME NEW j \in Conns, NEW m \in Taps!TapNames
       PROVE  \/ shown'[j][m] = val[Taps!ResolvePort(m)] /\ \E u \in Taps!Leaving : u.target = m /\ j \in u.conns
              \/ shown'[j][m] = shown[j][m] /\ ~\E u \in Taps!Leaving : u.target = m /\ j \in u.conns
  <2>1. Taps!Current[m] = val[Taps!ResolvePort(m)]
    BY DEF Taps!Current
  <2> QED
    BY <1>1, <2>1, Emits
<1>11. ShownAsked'
  <2>1. ASSUME NEW j \in Conns, NEW m \in Taps!TapNames, shown'[j][m] # NULL
        PROVE  \E u \in Taps!Tapped : u.target = m /\ j \in u.conns
    BY <1>10, <2>1 DEF ViewInv, ShownAsked, Taps!Leaving
  <2> QED
    BY <1>6, <2>1 DEF ShownAsked
<1>12. NewestLast'
  <2>1. ASSUME NEW r \in subs' PROVE LastIs(queue', r, val'[r])
    <3>1. LastIs(queue, r, val[r])
      <4>1. CASE r \in subs
        BY <4>1 DEF ViewInv, NewestLast
      <4>2. CASE r \notin subs
        <5>1. \A e \in Taps!Elems(queue) : e.from # r
          BY <1>2, <4>2 DEF ViewInv, NewestLast, Taps!Fresh
        <5>2. \A i \in DOMAIN queue : ~IsChange(queue[i], r)
          BY <5>1 DEF Taps!Elems, IsChange
        <5> QED
          BY <5>2 DEF LastIs
      <4> QED
        BY <4>1, <4>2
    <3> QED
      BY <1>0, <1>1, <3>1, LastTail
  <2>2. \A t \in Taps!Tapped' :
           \/ Taps!ResolvePort(t.target)' \in subs'
           \/ \A e \in Taps!Elems(queue') : e.from # Taps!ResolvePort(t.target)'
    BY <1>2, <1>3, <1>5
  <2> QED
    BY <2>1, <2>2, NewestNext
<1>13. ASSUME NEW t \in Taps!Tapped', NEW j \in Conns, j \in t.conns,
              \A e \in Taps!Elems(queue') : ~IsChange(e, t.node)
       PROVE  shown'[j][t.target] = val[t.node]
  <2>1. PICK u \in Taps!Tapped :
           t.target = u.target /\ t.node = Taps!ResolvePort(u.target) /\ t.conns = u.conns
    BY <1>5
  <2>2. u.target \in Taps!TapNames
    BY <1>0, TapFields
  <2>3. CASE \E w \in Taps!Leaving : w.target = u.target /\ j \in w.conns
    BY <1>10, <2>1, <2>2, <2>3
  <2>4. CASE ~\E w \in Taps!Leaving : w.target = u.target /\ j \in w.conns
    <3>1. shown'[j][u.target] = shown[j][u.target]
      BY <1>10, <2>2, <2>4
    <3>2. u.node = Taps!ResolvePort(u.target)
      BY <1>13, <2>1, <2>4 DEF Taps!Leaving
    <3>3. \A e \in Taps!Elems(queue) : ~IsChange(e, u.node)
      BY <1>1, <1>8, <1>13, <2>1, <3>2 DEF IsChange
    <3>4. shown[j][u.target] = val[u.node]
      BY <1>13, <2>1, <2>4, <3>2, <3>3 DEF ViewInv, ShownNow
    <3> QED
      BY <2>1, <3>1, <3>2, <3>4
  <2> QED
    BY <2>3, <2>4
<1>14. ShownNow'
  BY <1>1, <1>8, <1>13 DEF ShownNow
<1> QED
  BY <1>0, <1>9, <1>11, <1>12, <1>14 DEF ViewInv

LEMMA ViewNext ==
    ASSUME ViewInv, Risks = {}, [Taps!Next]_tapVars
    PROVE  ViewInv'
<1>1. CASE UNCHANGED tapVars
  BY <1>1 DEF tapVars, ViewInv, HeardInv, TapTypes, LinksLive, LoadAlone, Exclusive, Taps!TapsGrounded,
              Taps!Loading, Taps!Leaving, Taps!Tapped, Taps!ResolvePort, RepointsTold, ShownAsked,
              NewestLast, ShownNow, Taps!Elems, Taps!Fresh
<1>2. ASSUME NEW n \in Taps!TapNames, Taps!Create(n) \/ \E o \in Originals : Taps!CreateAlias(n, o)
      PROVE  ViewInv'
  BY <1>2, ViewCreate
<1>3. ASSUME NEW n \in Taps!TapNames, Taps!Delete(n) \/ Taps!Destroy(n) PROVE ViewInv'
  BY <1>3, ViewDelete
<1>4. ASSUME NEW n \in Taps!TapNames, NEW o \in Originals, Taps!Point(n, o) PROVE ViewInv'
  BY <1>4, ViewPoint
<1>5. ASSUME NEW n \in Taps!TapNames, NEW v \in Written, Taps!Write(n, v) PROVE ViewInv'
  BY <1>5, ViewWrite
<1>6. ASSUME NEW n \in Taps!TapNames, NEW k \in Conns, Taps!Subscribe(k, n) PROVE ViewInv'
  BY <1>6, ViewSubscribe
<1>7. CASE Taps!LoadFlow \/ Taps!DestroyContentsStep
  BY <1>7, ViewLoad
<1>8. CASE Taps!TapOnIn
  BY <1>8, ViewTapOnIn
<1>9. CASE Taps!Relink
  BY <1>9, ViewRelink
<1> QED
  BY <1>1, <1>2, <1>3, <1>4, <1>5, <1>6, <1>7, <1>8, <1>9 DEF Taps!Next

\* Once nothing is under way no tap is behind, and what is shown is true.
LEMMA ViewInvGives == ViewInv => Taps!ViewsTrue
<1> SUFFICES ASSUME ViewInv, queue = <<>>, NEW k \in Conns, NEW n \in live, shown[k][n] # NULL
             PROVE  shown[k][n] = val[Taps!ResolvePort(n)]
  BY DEF Taps!ViewsTrue
<1>1. n \in Taps!TapNames /\ Taps!Elems(queue) = {}
  BY DEF ViewInv, HeardInv, TapTypes, Taps!Elems
<1>2. PICK t \in Taps!Tapped : t.target = n /\ k \in t.conns
  BY <1>1 DEF ViewInv, ShownAsked
<1>3. Taps!Leaving = {}
  BY <1>1 DEF ViewInv, RepointsTold
<1>4. t.node = Taps!ResolvePort(n)
  BY <1>2, <1>3 DEF Taps!Leaving
<1> QED
  BY <1>1, <1>2, <1>3, <1>4 DEF ViewInv, ShownNow

-----------------------------------------------------------------------------
(* The theorems *)

\* Every tap stays on a node that exists and carries the bridge's Subscriber
\* record, whoever subscribes late, as long as clients keep the rules about
\* sharing a node, deleting and loading (bridge.c, Bridge_Subscribe,
\* Bridge_Relink, Bridge_FreeTaps; serializer.c, DestroyContentsStep).
THEOREM TapsGroundedThm == Orderly /\ Taps!Spec => []Taps!TapsGrounded
<1>1. HeardInv => Taps!TapsGrounded
  BY DEF HeardInv
<1>2. HeardInv /\ Orderly /\ [Taps!Next]_(Taps!tapVars) => HeardInv'
  BY HeardNext DEF tapVars, Taps!tapVars
<1>3. Orderly => Orderly'
  BY DEF Orderly
<1> QED
  BY <1>1, <1>2, <1>3, HeardInit, PTL DEF Taps!Spec

\* Whatever clients that keep every rule write, re-point, watch, delete and load,
\* in whatever order it arrives: once nothing is under way every connection shows
\* the value of what it asked for (bridge.c, Bridge_TapOnIn, Bridge_Relink).
THEOREM ViewsTrueThm == Risks = {} /\ Taps!Spec => []Taps!ViewsTrue
<1>1. ViewInv /\ Risks = {} /\ [Taps!Next]_(Taps!tapVars) => ViewInv'
  BY ViewNext DEF tapVars, Taps!tapVars
<1>2. Risks = {} => (Risks = {})'
  OBVIOUS
<1> QED
  BY <1>1, <1>2, ViewInit, ViewInvGives, PTL DEF Taps!Spec

\* A step of the session is a step of the taps or leaves them alone.
LEMMA SessionTaps ==
    /\ MCInit /\ of = "taps" => Taps!Init
    /\ [MCNext]_<<of, ix, trieVars, tapVars>> => of' = of /\ (of = "taps" => [Taps!Next]_tapVars)
<1>1. MCInit /\ of = "taps" => Taps!Init
  BY DEF MCInit
<1>2. MCNext => of' = of /\ (of = "taps" => [Taps!Next]_tapVars)
  BY DEF MCNext, PathStep, TrieStep, TapStep, tapVars
<1> QED
  BY <1>1, <1>2 DEF tapVars

\* The same of the composition that the run looks at: every tap is heard, however
\* controls are re-pointed and things deleted (bridge.c, Bridge_Relink).
THEOREM TapsHeardThm == Orderly /\ MCSpec => []TapsHeard
<1> DEFINE I == of = "taps" => HeardInv
<1>1. MCInit => I
  BY SessionTaps, HeardInit
<1>2. I /\ Orderly /\ [MCNext]_<<of, ix, trieVars, tapVars>> => I'
  BY SessionTaps, HeardNext
<1>3. I => TapsHeard
  BY DEF TapsHeard, HeardInv
<1>4. Orderly => Orderly'
  BY DEF Orderly
<1> HIDE DEF I
<1> QED
  BY <1>1, <1>2, <1>3, <1>4, PTL DEF MCSpec

\* Of that composition too: every connection shows the value of what it asked for
\* (bridge.c, Bridge_TapOnIn, Bridge_Relink).
THEOREM SessionViewsTrueThm == Risks = {} /\ MCSpec => []ViewsTrue
<1> DEFINE I == of = "taps" => ViewInv
<1>1. MCInit => I
  BY SessionTaps, ViewInit
<1>2. I /\ Risks = {} /\ [MCNext]_<<of, ix, trieVars, tapVars>> => I'
  BY SessionTaps, ViewNext
<1>3. I => ViewsTrue
  BY ViewInvGives DEF ViewsTrue
<1>4. Risks = {} => (Risks = {})'
  OBVIOUS
<1> HIDE DEF I
<1> QED
  BY <1>1, <1>2, <1>3, <1>4, PTL DEF MCSpec

-----------------------------------------------------------------------------
(* The path index *)

(* Paths as sequences *)

\* Names are strings of letters, paths and containers sequences of names.
Label == Seq(Nat)
Dirs == Seq(Label)

\* Sequences are equal that agree at every place.
LEMMA SeqSame ==
    ASSUME NEW s \in Dirs, NEW t \in Dirs, Len(s) = Len(t),
           \A k \in 1 .. Len(s) : s[k] = t[k]
    PROVE  s = t
  BY DEF Dirs

\* The first m names of a path.
LEMMA Cut ==
    ASSUME NEW p \in Dirs, NEW m \in 0 .. Len(p)
    PROVE  /\ SubSeq(p, 1, m) \in Dirs /\ Len(SubSeq(p, 1, m)) = m
           /\ \A k \in 1 .. m : SubSeq(p, 1, m)[k] = p[k]
<1>1. Len(p) \in Nat /\ m \in Nat /\ \A k \in 1 .. Len(p) : p[k] \in Label
  BY DEF Dirs
<1>2. \A k \in 1 .. m : p[k] \in Label /\ 1 + k - 1 = k
  BY <1>1
<1>3. m - 1 + 1 = m /\ m \in Int /\ (m # 0 => 1 <= m)
  BY <1>1
<1>4. /\ SubSeq(p, 1, m) \in Seq(Label)
      /\ Len(SubSeq(p, 1, m)) = IF 1 <= m THEN m - 1 + 1 ELSE 0
      /\ \A k \in 1 .. m - 1 + 1 : SubSeq(p, 1, m)[k] = p[1 + k - 1]
  BY <1>2, <1>3, SubSeqProperties
<1> QED
  BY <1>1, <1>2, <1>3, <1>4 DEF Dirs

\* A path is its container and its name.
LEMMA FrontLast ==
    ASSUME NEW p \in Dirs, p # <<>>
    PROVE  /\ Front(p) \in Dirs /\ Last(p) \in Label
           /\ Len(Front(p)) = Len(p) - 1 /\ Len(p) \in Nat \ {0} /\ Len(Front(p)) \in Nat
           /\ \A k \in 1 .. Len(p) - 1 : Front(p)[k] = p[k]
           /\ Append(Front(p), Last(p)) = p
<1>1. Len(p) \in Nat \ {0} /\ \A k \in 1 .. Len(p) : p[k] \in Label
  BY DEF Dirs
<1>2. Front(p) \in Dirs /\ Len(Front(p)) = Len(p) - 1 /\ \A k \in 1 .. Len(p) - 1 : Front(p)[k] = p[k]
  <2>1. Len(p) - 1 \in 0 .. Len(p)
    BY <1>1
  <2> QED
    BY <2>1, Cut DEF Front
<1>3. Last(p) \in Label
  BY <1>1 DEF Last
<1>4. Append(Front(p), Last(p)) = p
  <2>1. /\ Append(Front(p), Last(p)) \in Dirs /\ Len(Append(Front(p), Last(p))) = Len(p)
    <3>1. Append(Front(p), Last(p)) \in Dirs /\ Len(Append(Front(p), Last(p))) = Len(Front(p)) + 1
      BY <1>2, <1>3 DEF Dirs
    <3> QED
      BY <3>1, <1>1, <1>2
  <2>2. ASSUME NEW k \in 1 .. Len(p)
        PROVE  Append(Front(p), Last(p))[k] = p[k]
    <3>1. CASE k = Len(p)
      BY <3>1, <1>1, <1>2, <1>3 DEF Last
    <3>2. CASE k # Len(p)
      BY <3>2, <1>1, <1>2, <1>3
    <3> QED
      BY <3>1, <3>2
  <2> QED
    BY <2>1, <2>2, SeqSame
<1> QED
  BY <1>1, <1>2, <1>3, <1>4

LEMMA OfAppend ==
    ASSUME NEW s \in Dirs, NEW x \in Label
    PROVE  /\ Append(s, x) \in Dirs /\ Append(s, x) # <<>>
           /\ Front(Append(s, x)) = s /\ Last(Append(s, x)) = x
           /\ Len(Append(s, x)) = Len(s) + 1 /\ Len(s) \in Nat
<1>1. /\ Append(s, x) \in Dirs /\ Len(Append(s, x)) = Len(s) + 1 /\ Len(s) \in Nat
      /\ Append(s, x)[Len(s) + 1] = x /\ \A k \in 1 .. Len(s) : Append(s, x)[k] = s[k]
  BY DEF Dirs
<1>2. Append(s, x) # <<>>
  BY <1>1
<1>3. Front(Append(s, x)) = s
  <2>1. /\ Front(Append(s, x)) \in Dirs /\ Len(Front(Append(s, x))) = Len(Append(s, x)) - 1
        /\ \A k \in 1 .. Len(Append(s, x)) - 1 : Front(Append(s, x))[k] = Append(s, x)[k]
    BY <1>1, <1>2, FrontLast
  <2>2. Len(Append(s, x)) - 1 = Len(s)
    BY <1>1
  <2> QED
    BY <1>1, <2>1, <2>2, SeqSame
<1> QED
  BY <1>1, <1>2, <1>3 DEF Last

\* What it is for a path to begin with another.
LEMMA Begins ==
    ASSUME NEW o \in Dirs, NEW p \in Dirs
    PROVE  IsPrefix(o, p) <=> Len(o) <= Len(p) /\ \A k \in 1 .. Len(o) : o[k] = p[k]
<1>1. Len(o) \in Nat /\ Len(p) \in Nat /\ SubSeq(o, 1, Len(o)) = o
  BY DEF Dirs
<1>2. ASSUME Len(o) <= Len(p)
      PROVE  /\ SubSeq(p, 1, Len(o)) \in Dirs /\ Len(SubSeq(p, 1, Len(o))) = Len(o)
             /\ \A k \in 1 .. Len(o) : SubSeq(p, 1, Len(o))[k] = p[k]
  BY <1>1, <1>2 DEF Dirs
<1>3. ASSUME Len(o) <= Len(p)
      PROVE  SubSeq(p, 1, Len(o)) = o <=> \A k \in 1 .. Len(o) : o[k] = p[k]
  BY <1>1, <1>2, <1>3, SeqSame
<1> QED
  BY <1>1, <1>3 DEF IsPrefix

\* Two beginnings of one path, the shorter begins the longer.
LEMMA BeginsBoth ==
    ASSUME NEW o \in Dirs, NEW n \in Dirs, NEW p \in Dirs, IsPrefix(o, p), IsPrefix(n, p)
    PROVE  IsPrefix(o, n) \/ IsPrefix(n, o)
<1>1. Len(o) \in Nat /\ Len(n) \in Nat
  BY DEF Dirs
<1>2. /\ \A k \in 1 .. Len(o) : o[k] = p[k]
      /\ \A k \in 1 .. Len(n) : n[k] = p[k]
  BY Begins
<1>3. CASE Len(o) <= Len(n)
  BY <1>1, <1>2, <1>3, Begins
<1>4. CASE Len(n) <= Len(o)
  BY <1>1, <1>2, <1>4, Begins
<1> QED
  BY <1>1, <1>3, <1>4

\* A path that begins with o, and is longer, lies in one that does.
LEMMA BeginsFront ==
    ASSUME NEW o \in Dirs, NEW p \in Dirs, p # <<>>
    PROVE  /\ IsPrefix(o, p) => o = p \/ IsPrefix(o, Front(p))
           /\ IsPrefix(o, Front(p)) => IsPrefix(o, p) /\ o # p
           /\ IsPrefix(p, p)
<1>1. Len(o) \in Nat /\ Len(p) \in Nat
  BY DEF Dirs
<1>2. ASSUME IsPrefix(o, p)  PROVE o = p \/ IsPrefix(o, Front(p))
  <2>1. Len(o) <= Len(p) /\ \A k \in 1 .. Len(o) : o[k] = p[k]
    BY <1>2, Begins
  <2>2. CASE Len(o) = Len(p)
    BY <2>1, <2>2, SeqSame
  <2>3. CASE Len(o) <= Len(p) - 1
    <3>1. Front(p) \in Dirs /\ Len(Front(p)) = Len(p) - 1 /\ \A k \in 1 .. Len(p) - 1 : Front(p)[k] = p[k]
      BY FrontLast
    <3>2. Len(o) <= Len(Front(p)) /\ \A k \in 1 .. Len(o) : o[k] = Front(p)[k]
      BY <1>1, <2>1, <2>3, <3>1
    <3> QED
      BY <3>1, <3>2, Begins
  <2> QED
    BY <1>1, <2>1, <2>2, <2>3
<1>3. ASSUME IsPrefix(o, Front(p))  PROVE IsPrefix(o, p) /\ o # p
  <2>1. Front(p) \in Dirs /\ Len(Front(p)) = Len(p) - 1 /\ \A k \in 1 .. Len(p) - 1 : Front(p)[k] = p[k]
    BY FrontLast
  <2>2. Len(o) <= Len(p) - 1 /\ \A k \in 1 .. Len(o) : o[k] = Front(p)[k]
    BY <1>3, <2>1, Begins
  <2>3. Len(o) <= Len(p) /\ \A k \in 1 .. Len(o) : o[k] = p[k]
    BY <1>1, <2>1, <2>2
  <2> QED
    BY <1>1, <2>2, <2>3, Begins
<1>4. IsPrefix(p, p)
  BY <1>1, Begins
<1> QED
  BY <1>2, <1>3, <1>4

\* n in the place of o, at the beginning of p.
Moved(o, n, p) == n \o SubSeq(p, Len(o) + 1, Len(p))

LEMMA MovedIs ==
    ASSUME NEW o \in Dirs, NEW n \in Dirs, NEW p \in Dirs, Len(o) <= Len(p)
    PROVE  /\ Moved(o, n, p) \in Dirs
           /\ Len(Moved(o, n, p)) = Len(n) + (Len(p) - Len(o))
           /\ \A k \in 1 .. Len(n) : Moved(o, n, p)[k] = n[k]
           /\ \A k \in 1 .. Len(p) - Len(o) : Moved(o, n, p)[Len(n) + k] = p[Len(o) + k]
<1> DEFINE r == SubSeq(p, Len(o) + 1, Len(p))
<1>1. Len(o) \in Nat /\ Len(p) \in Nat /\ Len(n) \in Nat
  BY DEF Dirs
<1>2. r \in Dirs /\ Len(r) = Len(p) - Len(o) /\ \A k \in 1 .. Len(p) - Len(o) : r[k] = p[Len(o) + k]
  BY <1>1 DEF Dirs
<1> HIDE DEF r
<1>3. /\ n \o r \in Dirs /\ Len(n \o r) = Len(n) + Len(r)
      /\ \A k \in 1 .. Len(n) : (n \o r)[k] = n[k]
      /\ \A k \in 1 .. Len(r) : (n \o r)[Len(n) + k] = r[k]
  <2>1. /\ n \o r \in Seq(Label) /\ Len(n \o r) = Len(n) + Len(r)
        /\ \A k \in 1 .. Len(n) + Len(r) : (n \o r)[k] = IF k <= Len(n) THEN n[k] ELSE r[k - Len(n)]
    BY <1>2, ConcatProperties DEF Dirs
  <2>2. Len(r) \in Nat
    BY <1>2 DEF Dirs
  <2>3. ASSUME NEW k \in 1 .. Len(r)  PROVE (n \o r)[Len(n) + k] = r[k]
    <3>1. Len(n) + k \in 1 .. Len(n) + Len(r) /\ ~(Len(n) + k <= Len(n)) /\ (Len(n) + k) - Len(n) = k
      BY <1>1, <2>2
    <3> QED
      BY <2>1, <3>1
  <2>4. ASSUME NEW k \in 1 .. Len(n)  PROVE (n \o r)[k] = n[k]
    <3>1. k \in 1 .. Len(n) + Len(r) /\ k <= Len(n)
      BY <1>1, <2>2
    <3> QED
      BY <2>1, <3>1
  <2> QED
    BY <2>1, <2>3, <2>4 DEF Dirs
<1> QED
  BY <1>2, <1>3 DEF Moved, r

\* What a moved path begins with, and that paths stay apart.
LEMMA MovedBegins ==
    ASSUME NEW o \in Dirs, NEW n \in Dirs, NEW p \in Dirs, IsPrefix(o, p)
    PROVE  IsPrefix(n, Moved(o, n, p)) /\ (n # <<>> => Moved(o, n, p) # <<>>)
<1>1. Len(o) \in Nat /\ Len(p) \in Nat /\ Len(n) \in Nat /\ Len(o) <= Len(p)
  BY Begins
<1>2. /\ Moved(o, n, p) \in Dirs /\ Len(n) <= Len(Moved(o, n, p))
      /\ \A k \in 1 .. Len(n) : Moved(o, n, p)[k] = n[k]
  <2>1. /\ Moved(o, n, p) \in Dirs /\ Len(Moved(o, n, p)) = Len(n) + (Len(p) - Len(o))
        /\ \A k \in 1 .. Len(n) : Moved(o, n, p)[k] = n[k]
    BY <1>1, MovedIs
  <2> QED
    BY <1>1, <2>1
<1>3. IsPrefix(n, Moved(o, n, p))
  BY <1>2, Begins
<1>4. n # <<>> => Len(n) # 0
  BY DEF Dirs
<1> QED
  BY <1>1, <1>2, <1>3, <1>4

LEMMA MovedApart ==
    ASSUME NEW o \in Dirs, NEW n \in Dirs, NEW p \in Dirs, NEW q \in Dirs,
           IsPrefix(o, p), IsPrefix(o, q), Moved(o, n, p) = Moved(o, n, q)
    PROVE  p = q
<1>1. /\ Len(o) \in Nat /\ Len(p) \in Nat /\ Len(n) \in Nat /\ Len(q) \in Nat
      /\ Len(o) <= Len(p) /\ Len(o) <= Len(q) /\ \A k \in 1 .. Len(o) : o[k] = p[k] /\ o[k] = q[k]
  BY Begins
<1>2. Len(p) = Len(q)
  <2>1. Len(Moved(o, n, p)) = Len(n) + (Len(p) - Len(o))
    BY <1>1, MovedIs
  <2>2. Len(Moved(o, n, q)) = Len(n) + (Len(q) - Len(o))
    BY <1>1, MovedIs
  <2> QED
    BY <1>1, <2>1, <2>2
<1>3. ASSUME NEW k \in 1 .. Len(p)  PROVE p[k] = q[k]
  <2>1. CASE k <= Len(o)
    BY <2>1, <1>1
  <2>2. CASE k > Len(o)
    <3>1. k - Len(o) \in 1 .. Len(p) - Len(o) /\ Len(o) + (k - Len(o)) = k
      BY <2>2, <1>1
    <3> DEFINE d == k - Len(o)
    <3>a. /\ \A c \in 1 .. Len(p) - Len(o) : Moved(o, n, p)[Len(n) + c] = p[Len(o) + c]
          /\ \A c \in 1 .. Len(p) - Len(o) : Moved(o, n, q)[Len(n) + c] = q[Len(o) + c]
      <4>1. \A c \in 1 .. Len(p) - Len(o) : Moved(o, n, p)[Len(n) + c] = p[Len(o) + c]
        BY <1>1, MovedIs, ZenonT(60)
      <4>2. \A c \in 1 .. Len(q) - Len(o) : Moved(o, n, q)[Len(n) + c] = q[Len(o) + c]
        BY <1>1, MovedIs, ZenonT(60)
      <4> QED
        BY <4>1, <4>2, <1>2
    <3>b. d \in 1 .. Len(p) - Len(o) /\ Len(o) + d = k
      BY <3>1
    <3> HIDE DEF d
    <3>2. Moved(o, n, p)[Len(n) + d] = p[k] /\ Moved(o, n, q)[Len(n) + d] = q[k]
      BY <3>a, <3>b
    <3> QED
      BY <3>2
  <2> QED
    BY <1>1, <2>1, <2>2
<1> QED
  BY <1>2, <1>3, SeqSame

\* A moved path lies where what it lay in has gone.
LEMMA MovedFront ==
    ASSUME NEW o \in Dirs, NEW n \in Dirs, NEW p \in Dirs, p # <<>>, IsPrefix(o, Front(p))
    PROVE  /\ Front(Moved(o, n, p)) = Moved(o, n, Front(p))
           /\ Last(Moved(o, n, p)) = Last(p)
           /\ Moved(o, n, p) # <<>> /\ Len(Moved(o, n, p)) # 0
<1> DEFINE m == Moved(o, n, p)
           f == Moved(o, n, Front(p))
<1>1. /\ Len(o) \in Nat /\ Len(p) \in Nat /\ Len(n) \in Nat /\ Front(p) \in Dirs
      /\ Len(Front(p)) = Len(p) - 1 /\ \A k \in 1 .. Len(p) - 1 : Front(p)[k] = p[k]
  BY FrontLast
<1>2. Len(o) <= Len(p) - 1 /\ Len(o) <= Len(p)
  BY <1>1, Begins
<1>3. /\ m \in Dirs /\ Len(m) = Len(n) + (Len(p) - Len(o))
      /\ \A k \in 1 .. Len(n) : m[k] = n[k]
      /\ \A k \in 1 .. Len(p) - Len(o) : m[Len(n) + k] = p[Len(o) + k]
  BY <1>2, MovedIs
<1>4. /\ f \in Dirs /\ Len(f) = Len(n) + (Len(p) - 1 - Len(o))
      /\ \A k \in 1 .. Len(n) : f[k] = n[k]
      /\ \A k \in 1 .. Len(p) - 1 - Len(o) : f[Len(n) + k] = Front(p)[Len(o) + k]
  <2>1. Len(o) <= Len(Front(p))
    BY <1>1, <1>2
  <2>2. /\ f \in Dirs /\ Len(f) = Len(n) + (Len(Front(p)) - Len(o))
        /\ \A k \in 1 .. Len(n) : f[k] = n[k]
        /\ \A k \in 1 .. Len(Front(p)) - Len(o) : f[Len(n) + k] = Front(p)[Len(o) + k]
    BY <1>1, <2>1, MovedIs, ZenonT(60)
  <2> QED
    BY <1>1, <2>2
<1> HIDE DEF m, f
<1>5. m # <<>> /\ Len(m) # 0
  BY <1>1, <1>2, <1>3
<1>6. /\ Front(m) \in Dirs /\ Len(Front(m)) = Len(m) - 1
      /\ \A k \in 1 .. Len(m) - 1 : Front(m)[k] = m[k]
  BY <1>3, <1>5, FrontLast
<1>7. ASSUME NEW k \in 1 .. Len(f)  PROVE Front(m)[k] = f[k]
  <2>1. k \in 1 .. Len(m) - 1 /\ Front(m)[k] = m[k]
    BY <1>1, <1>2, <1>3, <1>4, <1>6
  <2>2. CASE k <= Len(n)
    BY <2>1, <2>2, <1>1, <1>3, <1>4
  <2>3. CASE k > Len(n)
    <3> DEFINE d == k - Len(n)
    <3>1. d \in 1 .. Len(p) - 1 - Len(o) /\ d \in 1 .. Len(p) - Len(o) /\ k = Len(n) + d
      BY <2>3, <1>1, <1>2, <1>4
    <3> HIDE DEF d
    <3>2. m[k] = p[Len(o) + d] /\ f[k] = Front(p)[Len(o) + d]
      BY <3>1, <1>3, <1>4
    <3>3. Len(o) + d \in 1 .. Len(p) - 1
      BY <3>1, <1>1
    <3> QED
      BY <2>1, <3>2, <3>3, <1>1
  <2> QED
    BY <1>1, <1>4, <2>2, <2>3
<1>8. Front(m) = f
  <2>1. Len(Front(m)) = Len(f)
    BY <1>1, <1>2, <1>3, <1>4, <1>6
  <2> QED
    BY <1>4, <1>6, <1>7, <2>1, SeqSame
<1>9. Last(m) = Last(p)
  <2>1. Len(p) - Len(o) \in 1 .. Len(p) - Len(o) /\ Len(o) + (Len(p) - Len(o)) = Len(p)
    BY <1>1, <1>2
  <2>2. m[Len(n) + (Len(p) - Len(o))] = p[Len(p)]
    BY <1>3, <2>1
  <2> QED
    BY <2>2, <1>3 DEF Last
<1> QED
  BY <1>5, <1>8, <1>9 DEF m, f

\* The thing itself goes to the new path.
LEMMA MovedSelf ==
    ASSUME NEW o \in Dirs, NEW n \in Dirs
    PROVE  Moved(o, n, o) = n
<1>1. Len(o) \in Nat /\ Len(n) \in Nat
  BY DEF Dirs
<1>2. /\ Moved(o, n, o) \in Dirs /\ Len(Moved(o, n, o)) = Len(n)
      /\ \A k \in 1 .. Len(n) : Moved(o, n, o)[k] = n[k]
  BY <1>1, MovedIs
<1> QED
  BY <1>2, SeqSame

-----------------------------------------------------------------------------
(* Names none of which begins another *)

\* What RepathSubtree compares as strings are whole names then.
PrefixFree(P) == \A a, b \in P : IsPrefix(a, b) => a = b

LEMMA StartsWithIs ==
    ASSUME NEW P, PrefixFree(P), NEW c \in Dirs, NEW o \in Dirs, o # <<>>,
           \A k \in 1 .. Len(c) : c[k] \in P, \A k \in 1 .. Len(o) : o[k] \in P
    PROVE  StartsWith(c, o) <=> IsPrefix(o, c)
<1> DEFINE k == Len(o)
<1>1. k \in Nat \ {0} /\ Len(c) \in Nat /\ Last(o) = o[k] /\ k \in 1 .. k
  BY DEF Dirs, Last
<1>2. /\ Front(o) \in Dirs /\ Len(Front(o)) = k - 1 /\ \A j \in 1 .. k - 1 : Front(o)[j] = o[j]
  BY FrontLast
<1>3. ASSUME k <= Len(c)
      PROVE  /\ SubSeq(c, 1, k - 1) \in Dirs /\ Len(SubSeq(c, 1, k - 1)) = k - 1
             /\ \A j \in 1 .. k - 1 : SubSeq(c, 1, k - 1)[j] = c[j]
  <2>1. k - 1 \in 0 .. Len(c)
    BY <1>1, <1>3
  <2> QED
    BY <2>1, Cut
<1>4. ASSUME k <= Len(c)
      PROVE  Front(o) = SubSeq(c, 1, k - 1) <=> \A j \in 1 .. k - 1 : o[j] = c[j]
  <2>1. ASSUME Front(o) = SubSeq(c, 1, k - 1)  PROVE \A j \in 1 .. k - 1 : o[j] = c[j]
    BY <1>2, <1>3, <1>4, <2>1
  <2>2. ASSUME \A j \in 1 .. k - 1 : o[j] = c[j]  PROVE Front(o) = SubSeq(c, 1, k - 1)
    BY <1>2, <1>3, <1>4, <2>2, SeqSame
  <2> QED
    BY <2>1, <2>2
<1>5. ASSUME k <= Len(c)  PROVE IsPrefix(Last(o), c[k]) <=> o[k] = c[k]
  <2>1. o[k] \in P /\ c[k] \in P /\ Last(o) = o[k] /\ o[k] \in Label
    BY <1>1, <1>5 DEF Dirs
  <2>2. IsPrefix(o[k], c[k]) => o[k] = c[k]
    BY <2>1 DEF PrefixFree
  <2>3. IsPrefix(o[k], o[k])
    BY <2>1 DEF IsPrefix, Label
  <2> QED
    BY <2>1, <2>2, <2>3
<1>6. (\A j \in 1 .. k : o[j] = c[j]) <=> (\A j \in 1 .. k - 1 : o[j] = c[j]) /\ o[k] = c[k]
  <2>1. \A j \in 1 .. k : j \in 1 .. k - 1 \/ j = k
    BY <1>1
  <2>2. \A j \in 1 .. k - 1 : j \in 1 .. k
    BY <1>1
  <2> QED
    BY <1>1, <2>1, <2>2
<1> QED
  BY <1>1, <1>4, <1>5, <1>6, Begins DEF StartsWith

LEMMA SwapIs ==
    ASSUME NEW c \in Dirs, NEW o \in Dirs, NEW n \in Dirs, o # <<>>, n # <<>>, IsPrefix(o, c)
    PROVE  Swap(c, o, n) = Moved(o, n, c)
<1>1. Len(o) \in Nat \ {0} /\ Len(o) <= Len(c) /\ Last(o) = c[Len(o)]
  BY Begins DEF Dirs, Last
<1>2. Last(o) \in Label /\ Last(n) \in Label /\ Append(Front(n), Last(n)) = n
  BY FrontLast
<1>3. SubSeq(c[Len(o)], Len(Last(o)) + 1, Len(c[Len(o)])) = <<>>
  <2>1. Len(Last(o)) \in Nat
    BY <1>2 DEF Label
  <2>2. Len(Last(o)) < Len(Last(o)) + 1 /\ Len(Last(o)) + 1 \in Int /\ Len(Last(o)) \in Int
    BY <2>1
  <2>3. SubSeq(Last(o), Len(Last(o)) + 1, Len(Last(o))) = <<>>
    BY <2>2, SubSeqEmpty
  <2> QED
    BY <1>1, <2>3
<1>4. Last(n) \o <<>> = Last(n)
  BY <1>2, ConcatEmptySeq DEF Label
<1> QED
  BY <1>2, <1>3, <1>4 DEF Swap, Moved

-----------------------------------------------------------------------------
(* The index: which path each instance is registered under *)

Keys == UNION {[D -> Insts] : D \in SUBSET Dirs}

IxType ==
    [live : SUBSET Insts, name : [Insts -> Label], cont : [Insts -> Dirs], key : Keys,
     members : [Insts -> SUBSET Insts], link : [Insts -> Insts \cup {NULL}],
     target : [Insts -> Dirs]]

\* The instances of L are registered, each under its path in q, and no others.
KeysOf(S, q, L) ==
    /\ L \subseteq Insts /\ \A j \in L : q[j] \in Dirs /\ q[j] # <<>>
    /\ DOMAIN S.key = {q[j] : j \in L}
    /\ \A j \in L : S.key[q[j]] = j

LEMMA Apart ==
    ASSUME NEW S, NEW q, NEW L, KeysOf(S, q, L), NEW j \in L, NEW k \in L, q[j] = q[k]
    PROVE  j = k
  BY DEF KeysOf

\* What a path leads to.
LEMMA PathLeads ==
    ASSUME NEW S, NEW q, NEW L, KeysOf(S, q, L)
    PROVE  /\ \A j \in L : ResolvePath(S, q[j]) = j
           /\ \A p : ResolvePath(S, p) # NULL =>
                 ResolvePath(S, p) \in L /\ q[ResolvePath(S, p)] = p
           /\ \A j \in Insts \ L : ~HasPath(S, j)
<1>1. \A j \in L : ResolvePath(S, q[j]) = j
  BY DEF KeysOf, ResolvePath
<1>2. ASSUME NEW p, ResolvePath(S, p) # NULL
      PROVE  ResolvePath(S, p) \in L /\ q[ResolvePath(S, p)] = p
  BY <1>2 DEF KeysOf, ResolvePath
<1>3. ASSUME NEW j \in Insts \ L  PROVE ~HasPath(S, j)
  <2>1. j # NULL
    BY PathIndexAssumption
  <2> QED
    BY <2>1, <1>2 DEF HasPath
<1> QED
  BY <1>1, <1>2, <1>3

\* The container of a path.
LEMMA ContainerIs ==
    ASSUME NEW S, NEW q, NEW L, KeysOf(S, q, L), NEW p \in Dirs, p # <<>>
    PROVE  /\ ContainerOfPath(S, p) # NULL =>
                 ContainerOfPath(S, p) \in L /\ q[ContainerOfPath(S, p)] = Front(p)
           /\ \A c \in L : q[c] = Front(p) => ContainerOfPath(S, p) = c /\ c # NULL
<1>1. ContainerOfPath(S, p) # NULL => ContainerOfPath(S, p) \in L /\ q[ContainerOfPath(S, p)] = Front(p)
  BY PathLeads DEF ContainerOfPath
<1>2. ASSUME NEW c \in L, q[c] = Front(p)  PROVE ContainerOfPath(S, p) = c /\ c # NULL
  <2>1. Len(p) # 1
    <3>1. Front(p) # <<>> /\ Front(p) \in Dirs
      BY <1>2 DEF KeysOf
    <3>2. Len(Front(p)) # 0
      BY <3>1 DEF Dirs
    <3>3. Len(Front(p)) = Len(p) - 1 /\ Len(p) \in Nat
      BY FrontLast
    <3> QED
      BY <3>2, <3>3
  <2>2. c # NULL
    BY PathIndexAssumption DEF KeysOf
  <2> QED
    BY <1>2, <2>1, <2>2, PathLeads DEF ContainerOfPath
<1> QED
  BY <1>1, <1>2

LEMMA KeyTypes ==
    ASSUME NEW D, D \subseteq Dirs, NEW f \in [D -> Insts]
    PROVE  f \in Keys
  BY DEF Keys

\* UnregisterPath: one instance loses its path, and its place in its container.
Unnamed(S, q, L, j, U) ==
    /\ U \in IxType /\ KeysOf(U, q, L \ {j})
    /\ U.live = S.live /\ U.name = S.name /\ U.cont = S.cont
    /\ U.link = S.link /\ U.target = S.target
    /\ \A c \in Insts : \A k \in U.members[c] :
          k \in S.members[c] /\ ~(k = j /\ c \in L /\ q[c] = Front(q[j]))

LEMMA UnregisterIs ==
    ASSUME NEW S \in IxType, NEW q, NEW L, KeysOf(S, q, L), NEW j \in L,
           NEW p, p = q[j]
    PROVE  Unnamed(S, q, L, j, UnregisterPath(S, p))
<1> DEFINE U == UnregisterPath(S, p)
           c0 == ContainerOfPath(S, p)
           K == Restrict(S.key, DOMAIN S.key \ {p})
           M == IF c0 # NULL THEN [S.members EXCEPT ![c0] = @ \ {j}] ELSE S.members
<1>0. j \in Insts /\ p \in Dirs /\ p # <<>> /\ j # NULL
  BY PathIndexAssumption DEF KeysOf
<1>1. ResolvePath(S, p) = j
  BY PathLeads
<1>2. U = [S EXCEPT !.key = K, !.members = M]
  <2>1. U = [S EXCEPT !.key = K,
                      !.members = IF j # NULL /\ c0 # NULL THEN [S.members EXCEPT ![c0] = @ \ {j}] ELSE S.members]
    BY <1>1 DEF UnregisterPath
  <2> HIDE DEF c0, K
  <2> QED
    BY <2>1, <1>0
<1>3. c0 # NULL => c0 \in L /\ c0 \in Insts
  <2>1. L \subseteq Insts
    BY DEF KeysOf
  <2> QED
    BY <2>1, <1>0, ContainerIs
<1>4. DOMAIN K = {q[k] : k \in L \ {j}} /\ \A k \in L \ {j} : K[q[k]] = k
  <2>1. DOMAIN S.key \ {p} = {q[k] : k \in L \ {j}}
    <3>1. \A k \in L : q[k] = q[j] => k = j
      BY Apart
    <3> QED
      BY <3>1 DEF KeysOf
  <2> QED
    BY <2>1 DEF Restrict, KeysOf
<1>5. K \in Keys
  <2>1. {q[k] : k \in L \ {j}} \subseteq Dirs /\ K = [x \in {q[k] : k \in L \ {j}} |-> K[x]]
    BY <1>4 DEF KeysOf, Restrict
  <2>2. \A x \in {q[k] : k \in L \ {j}} : K[x] \in Insts
    BY <1>4 DEF KeysOf
  <2>3. K \in [{q[k] : k \in L \ {j}} -> Insts]
    BY <1>4, <2>1, <2>2
  <2> QED
    BY <2>1, <2>3, KeyTypes
<1>6. S.members \in [Insts -> SUBSET Insts]
  BY DEF IxType
<1>7. /\ M \in [Insts -> SUBSET Insts]
      /\ \A c \in Insts : M[c] = IF c = c0 THEN S.members[c] \ {j} ELSE S.members[c]
  <2>1. CASE c0 = NULL
    BY <2>1, <1>6, PathIndexAssumption
  <2>2. CASE c0 # NULL
    BY <2>2, <1>3, <1>6
  <2> QED
    BY <2>1, <2>2
<1>8. \A c \in L : q[c] = Front(p) => c0 = c
  BY <1>0, ContainerIs
<1> HIDE DEF K, M, c0, U
<1>9. /\ U \in IxType /\ U.key = K /\ U.members = M
      /\ U.live = S.live /\ U.name = S.name /\ U.cont = S.cont
      /\ U.link = S.link /\ U.target = S.target
  BY <1>2, <1>5, <1>7 DEF IxType
<1>10. KeysOf(U, q, L \ {j})
  BY <1>4, <1>9 DEF KeysOf
<1> QED
  BY <1>7, <1>8, <1>9, <1>10 DEF Unnamed, U

\* RegisterPath, of an instance that has no path: it gets this one, its Name and,
\* if the container is there, its Container and a place in it.
Entered(S, q, L, j, p, r, R) ==
    /\ R \in IxType /\ KeysOf(R, r, L \cup {j})
    /\ R.live = S.live /\ R.link = S.link /\ R.target = S.target
    /\ R.name = [S.name EXCEPT ![j] = Last(p)]
    /\ (\E c \in L : q[c] = Front(p)) => R.cont = [S.cont EXCEPT ![j] = Front(p)]
    /\ (\A c \in L : q[c] # Front(p)) => R.cont = S.cont
    /\ \A c \in Insts : \A k \in R.members[c] :
          k \in S.members[c] \/ (k = j /\ c \in L /\ q[c] = Front(p))

LEMMA RegisterIs ==
    ASSUME NEW S \in IxType, NEW q, NEW L, KeysOf(S, q, L), NEW j \in Insts \ L,
           NEW p \in Dirs, p # <<>>, ~IsShort(p), \A k \in L : q[k] # p,
           NEW r, r[j] = p, \A k \in L : r[k] = q[k]
    PROVE  Entered(S, q, L, j, p, r, RegisterPath(S, p, j))
<1> DEFINE R == RegisterPath(S, p, j)
           K == [x \in DOMAIN S.key \cup {p} |-> IF x = p THEN j ELSE S.key[x]]
           N == [S.name EXCEPT ![j] = Last(p)]
           B == [S EXCEPT !.key = K, !.name = N]
           c0 == ContainerOfPath(B, p)
<1>1. ~HasPath(S, j)
  BY PathLeads
<1> DEFINE A == [S EXCEPT !.name = N]
<1>a. R = EnterPath(A, p, j)
  <2>1. RetireOlder(S, p, j) = S
    BY <1>1 DEF RetireOlder
  <2>2. TakeName(S, p, j) = A
    BY <2>1 DEF TakeName, IxType
  <2> HIDE DEF A
  <2> QED
    BY <2>2 DEF RegisterPath
<1>2. R = IF c0 = NULL THEN B ELSE [B EXCEPT !.cont[j] = Front(p), !.members[c0] = @ \cup {j}]
  <2> HIDE DEF N
  <2>1. A.key = S.key
    BY DEF IxType
  <2> HIDE DEF A, R, B
  <2>2. [A EXCEPT !.key = K] = B
    <3> HIDE DEF K
    <3> QED
      BY DEF A, B, IxType
  <2>3. R = LET BB == [A EXCEPT !.key = K]
                cc == ContainerOfPath(BB, p)
            IN  IF cc = NULL THEN BB
                ELSE [BB EXCEPT !.cont[j] = Front(p), !.members[cc] = @ \cup {j}]
    BY <1>a, <2>1 DEF EnterPath
  <2> HIDE DEF K
  <2> QED
    BY <2>2, <2>3
<1>3. p \notin DOMAIN S.key
  BY DEF KeysOf
<1>4. DOMAIN K = {r[k] : k \in L \cup {j}} /\ \A k \in L \cup {j} : K[r[k]] = k
  <2>1. DOMAIN K = {p} \cup DOMAIN S.key
    OBVIOUS
  <2>2. K[p] = j /\ \A x \in DOMAIN S.key : K[x] = S.key[x]
    BY <1>3
  <2>3. DOMAIN S.key = {r[k] : k \in L}
    BY DEF KeysOf
  <2> HIDE DEF K
  <2>4. DOMAIN K = {r[k] : k \in L \cup {j}}
    BY <2>1, <2>3
  <2> QED
    BY <2>2, <2>3, <2>4 DEF KeysOf
<1>5. K \in Keys
  <2>1. {r[k] : k \in L \cup {j}} \subseteq Dirs /\ \A x \in {r[k] : k \in L \cup {j}} : K[x] \in Insts
    <3> HIDE DEF K
    <3> QED
      BY <1>4 DEF KeysOf
  <2>2. K = [x \in DOMAIN K |-> K[x]]
    OBVIOUS
  <2> HIDE DEF K
  <2>3. K \in [{r[k] : k \in L \cup {j}} -> Insts]
    BY <1>4, <2>1, <2>2
  <2> QED
    BY <2>1, <2>3, KeyTypes
<1>6. N \in [Insts -> Label] /\ Front(p) \in Dirs
  BY FrontLast DEF IxType
<1> HIDE DEF K, N
<1>7. /\ B \in IxType /\ B.key = K /\ B.name = N /\ B.live = S.live /\ B.link = S.link
      /\ B.target = S.target /\ B.cont = S.cont /\ B.members = S.members
  BY <1>5, <1>6 DEF IxType
<1>8. KeysOf(B, r, L \cup {j})
  BY <1>4, <1>7 DEF KeysOf
<1>9. p # Front(p)
  BY FrontLast
<1>10. /\ c0 # NULL => c0 \in L /\ q[c0] = Front(p)
       /\ \A c \in L : q[c] = Front(p) => c0 = c /\ c # NULL
  <2> HIDE DEF B
  <2>1. /\ c0 # NULL => c0 \in L \cup {j} /\ r[c0] = Front(p)
        /\ \A c \in L \cup {j} : r[c] = Front(p) => c0 = c /\ c # NULL
    BY <1>8, ContainerIs
  <2> HIDE DEF c0
  <2> QED
    BY <1>9, <2>1
<1> HIDE DEF B, c0, R
<1>11. c0 = NULL => Entered(S, q, L, j, p, r, R)
  <2> SUFFICES ASSUME c0 = NULL  PROVE Entered(S, q, L, j, p, r, R)
    OBVIOUS
  <2>1. R = B
    BY <1>2
  <2> QED
    BY <2>1, <1>7, <1>8, <1>10 DEF N, Entered
<1>12. c0 # NULL => Entered(S, q, L, j, p, r, R)
  <2> SUFFICES ASSUME c0 # NULL  PROVE Entered(S, q, L, j, p, r, R)
    OBVIOUS
  <2> DEFINE C == [S.cont EXCEPT ![j] = Front(p)]
             M == [S.members EXCEPT ![c0] = @ \cup {j}]
  <2>0. L \subseteq Insts /\ S.cont \in [Insts -> Dirs] /\ S.members \in [Insts -> SUBSET Insts]
    BY DEF IxType, KeysOf
  <2>1. C \in [Insts -> Dirs] /\ M \in [Insts -> SUBSET Insts] /\ c0 \in Insts
        /\ \A c \in Insts : M[c] = IF c = c0 THEN S.members[c] \cup {j} ELSE S.members[c]
    BY <1>6, <1>10, <2>0
  <2>2. R = [B EXCEPT !.cont = C, !.members = M]
    BY <1>2, <1>7 DEF IxType
  <2> HIDE DEF C, M
  <2>3. /\ R \in IxType /\ R.key = K /\ R.name = N /\ R.live = S.live /\ R.link = S.link
        /\ R.target = S.target /\ R.cont = C /\ R.members = M
    BY <2>1, <2>2, <1>7 DEF IxType
  <2>4. KeysOf(R, r, L \cup {j})
    BY <2>3, <1>7, <1>8 DEF KeysOf
  <2>5. \A c \in Insts : \A k \in R.members[c] :
           k \in S.members[c] \/ (k = j /\ c \in L /\ q[c] = Front(p))
    BY <2>1, <2>3, <1>10
  <2> QED
    BY <2>3, <2>4, <2>5, <1>10 DEF N, C, Entered
<1> QED
  BY <1>11, <1>12 DEF R

\* RegisterPath, of an instance under the path it has: it is told its Container
\* again, whatever its Container said.
LEMMA AgainIs ==
    ASSUME NEW S \in IxType, NEW q, NEW L, KeysOf(S, q, L), NEW j \in L,
           NEW p, p = q[j], ~IsShort(p), S.name[j] = Last(p),
           NEW c \in L, q[c] = Front(p),
           NEW R, R = RegisterPath(S, p, j)
    PROVE  /\ R \in IxType /\ R.key = S.key /\ R.name = S.name /\ R.live = S.live
           /\ R.link = S.link /\ R.target = S.target
           /\ R.cont = [S.cont EXCEPT ![j] = Front(p)]
           /\ \A d \in Insts : \A k \in R.members[d] :
                 k \in S.members[d] \/ (k = j /\ d = c)
<1> DEFINE K == [x \in DOMAIN S.key \cup {p} |-> IF x = p THEN j ELSE S.key[x]]
           N == [S.name EXCEPT ![j] = Last(p)]
           C == [S.cont EXCEPT ![j] = Front(p)]
           M == [S.members EXCEPT ![c] = @ \cup {j}]
<1>1. j \in Insts /\ c \in Insts /\ p \in Dirs /\ p # <<>> /\ j # NULL
  BY PathIndexAssumption DEF KeysOf
<1>2. RetireOlder(S, p, j) = S
  <2>1. HasPath(S, j) => PathOf(S, j) = p
    BY <1>1, PathLeads DEF HasPath
  <2> QED
    BY <2>1 DEF RetireOlder
<1>3. K = S.key
  <2>1. p \in DOMAIN S.key /\ S.key[p] = j
    BY DEF KeysOf
  <2>2. S.key = [x \in DOMAIN S.key |-> S.key[x]]
    BY DEF IxType, Keys
  <2>3. DOMAIN S.key \cup {p} = DOMAIN S.key
    BY <2>1
  <2> QED
    BY <2>1, <2>2, <2>3
<1>4. N = S.name
  BY <1>1 DEF IxType
<1>5. R = EnterPath(S, p, j) /\ [S EXCEPT !.key = K] = S
  <2>1. [S EXCEPT !.name = N] = S
    BY <1>4 DEF IxType
  <2>2. TakeName(S, p, j) = [S EXCEPT !.name = N]
    BY <1>2 DEF TakeName, IxType
  <2> HIDE DEF K, N
  <2>3. [S EXCEPT !.key = K] = S
    BY <1>3 DEF IxType
  <2>4. TakeName(S, p, j) = S
    BY <2>1, <2>2
  <2> QED
    BY <2>3, <2>4 DEF RegisterPath
<1>6. ContainerOfPath(S, p) = c /\ c # NULL
  BY <1>1, ContainerIs
<1>7. R = [S EXCEPT !.cont[j] = Front(p), !.members[c] = @ \cup {j}]
  <2>1. R = LET BB == [S EXCEPT !.key = K]
                cc == ContainerOfPath(BB, p)
            IN  IF cc = NULL THEN BB
                ELSE [BB EXCEPT !.cont[j] = Front(p), !.members[cc] = @ \cup {j}]
    BY <1>5 DEF EnterPath
  <2> HIDE DEF K
  <2> QED
    BY <2>1, <1>5, <1>6
<1>8. C \in [Insts -> Dirs] /\ M \in [Insts -> SUBSET Insts]
      /\ \A d \in Insts : M[d] = IF d = c THEN S.members[d] \cup {j} ELSE S.members[d]
  <2>1. Front(p) \in Dirs
    BY <1>1, FrontLast
  <2>2. S.cont \in [Insts -> Dirs] /\ S.members \in [Insts -> SUBSET Insts]
    BY DEF IxType
  <2> QED
    BY <1>1, <2>1, <2>2
<1>9. R = [S EXCEPT !.cont = C, !.members = M]
  BY <1>7 DEF IxType
<1> HIDE DEF C, M
<1>10. /\ R \in IxType /\ R.key = S.key /\ R.name = S.name /\ R.live = S.live
       /\ R.link = S.link /\ R.target = S.target /\ R.cont = C /\ R.members = M
  BY <1>8, <1>9 DEF IxType
<1> QED
  BY <1>8, <1>10 DEF C

\* Counting up to a bound.
LEMMA UpTo ==
    ASSUME NEW n \in Nat, NEW G, 0 \in G, \A i \in Nat : i < n /\ i \in G => i + 1 \in G
    PROVE  \A i \in 0 .. n : i \in G
<1> DEFINE T == {i \in 0 .. n : i \notin G}
<1>1. SUFFICES ASSUME T # {}  PROVE FALSE
  OBVIOUS
<1>2. T \subseteq Nat
  OBVIOUS
<1> HIDE DEF T
<1>3. PICK x \in T : \A y \in T : ~(<<y, x>> \in OpToRel(<, Nat))
  BY <1>1, <1>2, NatLessThanWellFounded, WFMin
<1>4. \A y \in T : ~(y < x)
  BY <1>2, <1>3 DEF OpToRel
<1> QED
  BY <1>4 DEF T

-----------------------------------------------------------------------------
(* The invariant of the index *)

\* A path spelt in the names there are.
Lettered(p) == \A k \in 1 .. Len(p) : p[k] \in Names \cup {RootName}

Paths(S) == [j \in Insts |-> PathOf(S, j)]

\* The root view is at the top.
Rooted(S) == Root \in S.live /\ S.cont[Root] = <<>> /\ S.name[Root] = RootName

\* Every instance is registered under its path, and nothing else is.
Keyed(S) == KeysOf(S, Paths(S), S.live)

\* Everything but the root view lies in something.
Homed(S) == \A j \in S.live \ {Root} : \E c \in S.live : PathOf(S, c) = S.cont[j]

\* What Members lists hold lies there.
Listed(S) ==
    \A c \in Insts : \A j \in S.members[c] :
        j \in S.live \ {Root} /\ c \in S.live /\ PathOf(S, c) = S.cont[j]

\* Paths are made of names that clients gave, below the root's.
Spelt(S) == \A j \in S.live : Lettered(PathOf(S, j))

\* An alias is of something there is, and says where that is.
Aliased(S) ==
    \A j \in Insts : S.link[j] # NULL =>
        j \in S.live /\ S.link[j] \in S.live /\ S.target[j] = PathOf(S, S.link[j])

PathInv(S) ==
    S \in IxType /\ Rooted(S) /\ Keyed(S) /\ Homed(S) /\ Listed(S) /\ Spelt(S) /\ Aliased(S)

LEMMA PathOfIs ==
    ASSUME NEW S \in IxType, NEW j \in Insts
    PROVE  /\ PathOf(S, j) \in Dirs /\ PathOf(S, j) # <<>>
           /\ Front(PathOf(S, j)) = S.cont[j] /\ Last(PathOf(S, j)) = S.name[j]
           /\ Paths(S)[j] = PathOf(S, j)
           /\ S.cont[j] \in Dirs /\ S.name[j] \in Label
<1>1. S.cont[j] \in Dirs /\ S.name[j] \in Label
  BY DEF IxType
<1> QED
  BY <1>1, OfAppend DEF PathOf, Paths

\* What the invariant says of who is where.
LEMMA InvFacts ==
    ASSUME NEW S, PathInv(S)
    PROVE  /\ S \in IxType /\ S.live \subseteq Insts /\ Root \in S.live
           /\ \A j \in S.live : /\ ResolvePath(S, PathOf(S, j)) = j /\ HasPath(S, j)
                                /\ PathOf(S, j) \in Dirs /\ PathOf(S, j) # <<>>
           /\ \A p : ResolvePath(S, p) # NULL =>
                 ResolvePath(S, p) \in S.live /\ PathOf(S, ResolvePath(S, p)) = p
           /\ \A p \in DOMAIN S.key : ResolvePath(S, p) # NULL /\ ResolvePath(S, p) = S.key[p]
           /\ ResolvePath(S, <<>>) = NULL
           /\ \A j, k \in S.live : PathOf(S, j) = PathOf(S, k) => j = k
           /\ \A j \in Insts \ S.live : ~HasPath(S, j)
<1>1. S \in IxType /\ Keyed(S) /\ Root \in S.live
  BY DEF PathInv, Rooted
<1>2. S.live \subseteq Insts
  BY <1>1 DEF IxType
<1>3. /\ \A j \in S.live : ResolvePath(S, Paths(S)[j]) = j
      /\ \A p : ResolvePath(S, p) # NULL =>
            ResolvePath(S, p) \in S.live /\ Paths(S)[ResolvePath(S, p)] = p
      /\ \A j \in Insts \ S.live : ~HasPath(S, j)
  BY <1>1, PathLeads DEF Keyed
<1>4. \A j \in S.live : Paths(S)[j] = PathOf(S, j) /\ PathOf(S, j) \in Dirs /\ PathOf(S, j) # <<>>
  BY <1>1, <1>2, PathOfIs
<1>5. \A j \in S.live : ResolvePath(S, PathOf(S, j)) = j /\ HasPath(S, j)
  BY <1>3, <1>4 DEF HasPath
<1>6. \A p \in DOMAIN S.key : ResolvePath(S, p) # NULL /\ ResolvePath(S, p) = S.key[p]
  <2>1. \A p \in DOMAIN S.key : S.key[p] \in Insts
    BY <1>1 DEF IxType, Keys
  <2> QED
    BY <2>1, PathIndexAssumption DEF ResolvePath
<1>7. ResolvePath(S, <<>>) = NULL
  BY <1>3, <1>4
<1>8. \A j, k \in S.live : PathOf(S, j) = PathOf(S, k) => j = k
  BY <1>5
<1> QED
  BY <1>1, <1>2, <1>3, <1>4, <1>5, <1>6, <1>7, <1>8

LEMMA InvGives ==
    ASSUME PathInv(ix)
    PROVE  IndexTrue /\ ContentsTrue /\ TargetTracks
<1>1. Addressable
  BY InvFacts DEF Addressable
<1>2. NoStaleKeys
  BY InvFacts DEF NoStaleKeys
<1>3. Contained
  <2> SUFFICES ASSUME NEW i \in ix.live \ {Root}
               PROVE  ParentOf(i) \in ix.live /\ HasPath(ix, ParentOf(i))
    BY DEF Contained
  <2>1. PICK c \in ix.live : PathOf(ix, c) = ix.cont[i]
    BY DEF PathInv, Homed
  <2>2. ParentOf(i) = c
    BY <2>1, InvFacts DEF ParentOf
  <2> QED
    BY <2>2, InvFacts
<1>4. MembersReal
  <2> SUFFICES ASSUME NEW c \in ix.live, NEW i \in ix.members[c]
               PROVE  i \in ix.live /\ ParentOf(i) = c
    BY DEF MembersReal
  <2>1. c \in Insts
    BY InvFacts
  <2>2. i \in ix.live \ {Root} /\ c \in ix.live /\ PathOf(ix, c) = ix.cont[i]
    BY <2>1 DEF PathInv, Listed
  <2> QED
    BY <2>2, InvFacts DEF ParentOf
<1>5. TargetTracks
  <2>1. ix.live \subseteq Insts
    BY InvFacts
  <2> QED
    BY <2>1 DEF TargetTracks, PathInv, Aliased
<1> QED
  BY <1>1, <1>2, <1>3, <1>4, <1>5 DEF IndexTrue, ContentsTrue

\* Nothing lies below a path that is free.
LEMMA NoneBelow ==
    ASSUME NEW S, PathInv(S), NEW n \in Dirs, Len(n) > 1, ResolvePath(S, n) = NULL
    PROVE  \A j \in S.live : ~IsPrefix(n, PathOf(S, j))
<1> DEFINE T == {j \in S.live : IsPrefix(n, PathOf(S, j))}
           D == {Len(PathOf(S, j)) : j \in T}
<1>1. SUFFICES ASSUME T # {}  PROVE FALSE
  OBVIOUS
<1>2. \A j \in S.live : PathOf(S, j) \in Dirs /\ PathOf(S, j) # <<>> /\ Len(PathOf(S, j)) \in Nat
  BY InvFacts, FrontLast
<1>3. D # {} /\ D \subseteq Nat
  BY <1>1, <1>2
<1>4. PICK x \in D : \A y \in D : ~(<<y, x>> \in OpToRel(<, Nat))
  <2> HIDE DEF D
  <2> QED
    BY <1>3, NatLessThanWellFounded, WFMin
<1>5. \A y \in D : ~(y < x)
  <2> HIDE DEF D
  <2> QED
    BY <1>3, <1>4 DEF OpToRel
<1>6. PICK j \in T : x = Len(PathOf(S, j))
  OBVIOUS
<1>7. j \in S.live /\ IsPrefix(n, PathOf(S, j)) /\ j \in Insts /\ S \in IxType
  BY InvFacts
<1>8. n # PathOf(S, j)
  BY <1>7, InvFacts, PathIndexAssumption
<1>9. IsPrefix(n, S.cont[j]) /\ S.cont[j] \in Dirs /\ Len(S.cont[j]) = Len(PathOf(S, j)) - 1
  BY <1>2, <1>7, <1>8, BeginsFront, PathOfIs, FrontLast
<1>10. j # Root
  <2>1. Len(n) <= Len(S.cont[j])
    BY <1>9, Begins
  <2> QED
    BY <2>1 DEF PathInv, Rooted
<1>11. PICK c \in S.live : PathOf(S, c) = S.cont[j]
  BY <1>7, <1>10 DEF PathInv, Homed
<1>12. c \in T
  BY <1>9, <1>11
<1> QED
  BY <1>2, <1>5, <1>6, <1>7, <1>9, <1>11, <1>12

\* Only the root view is at the top.
LEMMA Deep ==
    ASSUME NEW S, PathInv(S), NEW j \in S.live \ {Root}
    PROVE  Len(PathOf(S, j)) > 1 /\ Len(PathOf(S, j)) \in Nat
<1>1. PICK c \in S.live : PathOf(S, c) = S.cont[j]
  BY DEF PathInv, Homed
<1>2. S \in IxType /\ j \in Insts /\ PathOf(S, c) # <<>> /\ PathOf(S, c) \in Dirs
  BY InvFacts
<1>3. Front(PathOf(S, j)) = S.cont[j] /\ PathOf(S, j) \in Dirs /\ PathOf(S, j) # <<>>
  BY <1>2, PathOfIs
<1>4. Len(S.cont[j]) # 0 /\ Len(S.cont[j]) \in Nat
  BY <1>1, <1>2, FrontLast
<1>5. Len(S.cont[j]) = Len(PathOf(S, j)) - 1 /\ Len(PathOf(S, j)) \in Nat
  BY <1>3, FrontLast
<1>6. \A a, b \in Nat : a # 0 /\ a = b - 1 => b > 1
  OBVIOUS
<1> QED
  BY <1>4, <1>5, <1>6

LEMMA RootDepth ==
    ASSUME NEW S, PathInv(S)
    PROVE  Len(PathOf(S, Root)) = 1
<1>1. S.cont[Root] = <<>>
  BY DEF PathInv, Rooted
<1>2. Root \in Insts /\ S \in IxType
  BY InvFacts
<1>3. PathOf(S, Root) \in Dirs /\ PathOf(S, Root) # <<>> /\ Front(PathOf(S, Root)) = <<>>
  BY <1>1, <1>2, PathOfIs
<1>4. Len(<<>>) = Len(PathOf(S, Root)) - 1 /\ Len(PathOf(S, Root)) \in Nat
  BY <1>3, FrontLast
<1> QED
  BY <1>4

\* A path spelt in names is no short key.
LEMMA LetteredLong ==
    ASSUME NEW p \in Dirs, p # <<>>, Lettered(p)
    PROVE  ~IsShort(p)
<1>1. Len(p) \in Nat \ {0}
  BY FrontLast
<1>2. 1 \in 1 .. Len(p)
  BY <1>1
<1>3. p[1] \in Names \cup {RootName}
  BY <1>2 DEF Lettered
<1>4. RootName # <<>>
  BY DEF RootName
<1> QED
  BY <1>3, <1>4, PathIndexAssumption DEF IsShort

\* The names of a path made of others are theirs.
LEMMA LetteredFront ==
    ASSUME NEW p \in Dirs, p # <<>>, Lettered(p)
    PROVE  Lettered(Front(p)) /\ Last(p) \in Names \cup {RootName}
<1>1. Len(p) \in Nat \ {0} /\ Len(Front(p)) = Len(p) - 1 /\ \A k \in 1 .. Len(p) - 1 : Front(p)[k] = p[k]
  BY FrontLast
<1>2. Last(p) = p[Len(p)] /\ Len(p) \in 1 .. Len(p)
  BY <1>1 DEF Last
<1>3. \A k \in 1 .. Len(p) - 1 : k \in 1 .. Len(p)
  BY <1>1
<1> QED
  BY <1>1, <1>2, <1>3 DEF Lettered

LEMMA LetteredAppend ==
    ASSUME NEW p \in Dirs, NEW x \in Label, Lettered(p), x \in Names \cup {RootName}
    PROVE  Lettered(Append(p, x))
<1>1. Len(p) \in Nat /\ Len(Append(p, x)) = Len(p) + 1
  BY OfAppend
<1>2. \A k \in 1 .. Len(p) + 1 : Append(p, x)[k] = IF k = Len(p) + 1 THEN x ELSE p[k]
  BY <1>1 DEF Dirs
<1>3. \A k \in 1 .. Len(p) + 1 : k = Len(p) + 1 \/ k \in 1 .. Len(p)
  BY <1>1
<1> QED
  BY <1>1, <1>2, <1>3 DEF Lettered

LEMMA LetteredMoved ==
    ASSUME NEW o \in Dirs, NEW n \in Dirs, NEW p \in Dirs, IsPrefix(o, p), Lettered(n), Lettered(p)
    PROVE  Lettered(Moved(o, n, p))
<1>1. Len(o) \in Nat /\ Len(n) \in Nat /\ Len(p) \in Nat /\ Len(o) <= Len(p)
  BY Begins DEF Dirs
<1>2. /\ Len(Moved(o, n, p)) = Len(n) + (Len(p) - Len(o))
      /\ \A k \in 1 .. Len(n) : Moved(o, n, p)[k] = n[k]
      /\ \A k \in 1 .. Len(p) - Len(o) : Moved(o, n, p)[Len(n) + k] = p[Len(o) + k]
  BY <1>1, MovedIs
<1> SUFFICES ASSUME NEW k \in 1 .. Len(n) + (Len(p) - Len(o))
             PROVE  Moved(o, n, p)[k] \in Names \cup {RootName}
  BY <1>2 DEF Lettered
<1>3. CASE k <= Len(n)
  <2>1. k \in 1 .. Len(n)
    BY <1>1, <1>3
  <2> QED
    BY <1>2, <2>1 DEF Lettered
<1>4. CASE k > Len(n)
  <2> DEFINE d == k - Len(n)
  <2>1. d \in 1 .. Len(p) - Len(o) /\ k = Len(n) + d /\ Len(o) + d \in 1 .. Len(p)
    BY <1>1, <1>4
  <2> HIDE DEF d
  <2>2. Moved(o, n, p)[k] = p[Len(o) + d]
    BY <1>2, <2>1
  <2> QED
    BY <2>1, <2>2 DEF Lettered
<1> QED
  BY <1>1, <1>3, <1>4

-----------------------------------------------------------------------------
(* A subtree that has gone elsewhere *)

\* What a rename or a move makes of the paths: those that begin with the old path
\* of i begin with the new one.
NewPaths(S, i, new) ==
    [j \in Insts |-> IF IsPrefix(PathOf(S, i), PathOf(S, j))
                     THEN Moved(PathOf(S, i), new, PathOf(S, j)) ELSE PathOf(S, j)]

\* A place that something can go to: in a container that is there and is not
\* inside it, under a name that is free.
Place(S, i, new) ==
    /\ i \in S.live \ {Root}
    /\ new \in Dirs /\ new # <<>> /\ Lettered(new) /\ ResolvePath(S, new) = NULL
    /\ ~IsPrefix(PathOf(S, i), Front(new))
    /\ \E c \in S.live : PathOf(S, c) = Front(new)

LEMMA PlaceFacts ==
    ASSUME NEW S, PathInv(S), NEW i, NEW new, Place(S, i, new)
    PROVE  /\ i \in Insts /\ PathOf(S, i) \in Dirs /\ PathOf(S, i) # <<>>
           /\ Len(new) > 1 /\ Len(new) \in Nat
           /\ \A j \in S.live : ~IsPrefix(new, PathOf(S, j))
           /\ ~IsPrefix(PathOf(S, i), new) /\ ~IsPrefix(PathOf(S, i), PathOf(S, Root))
           /\ ~IsPrefix(new, PathOf(S, i))
<1>0. PICK c \in S.live : PathOf(S, c) = Front(new)
  BY DEF Place
<1>1. i \in S.live \ {Root} /\ new \in Dirs /\ new # <<>> /\ ResolvePath(S, new) = NULL
  BY DEF Place
<1>2. i \in Insts /\ PathOf(S, i) \in Dirs /\ PathOf(S, i) # <<>> /\ ResolvePath(S, PathOf(S, i)) = i /\ i # NULL
  BY <1>1, InvFacts, PathIndexAssumption
<1>3. Len(new) > 1 /\ Len(new) \in Nat
  <2>1. Front(new) # <<>> /\ Front(new) \in Dirs /\ Len(Front(new)) = Len(new) - 1 /\ Len(new) \in Nat
    BY <1>0, <1>1, InvFacts, FrontLast
  <2>2. Len(Front(new)) # 0 /\ Len(Front(new)) \in Nat
    BY <2>1, FrontLast
  <2> QED
    BY <2>1, <2>2
<1>4. \A j \in S.live : ~IsPrefix(new, PathOf(S, j))
  BY <1>1, <1>3, NoneBelow
<1>5. ~IsPrefix(PathOf(S, i), new)
  BY <1>1, <1>2, BeginsFront DEF Place
<1>6. ~IsPrefix(PathOf(S, i), PathOf(S, Root))
  <2>1. PathOf(S, Root) \in Dirs /\ Len(PathOf(S, Root)) = 1
    BY InvFacts, RootDepth
  <2>3. Len(PathOf(S, i)) > 1 /\ Len(PathOf(S, i)) \in Nat
    BY <1>1, Deep
  <2> QED
    BY <1>2, <2>1, <2>3, Begins
<1> QED
  BY <1>1, <1>2, <1>3, <1>4, <1>5, <1>6

\* The new paths: no two are the same, and everything lies where it lay.
LEMMA NewPathsApart ==
    ASSUME NEW S, PathInv(S), NEW i, NEW new, Place(S, i, new),
           NEW j \in S.live, NEW k \in S.live, IsPrefix(PathOf(S, i), PathOf(S, j)), j # k
    PROVE  /\ NewPaths(S, i, new)[j] # NewPaths(S, i, new)[k]
           /\ NewPaths(S, i, new)[j] # PathOf(S, k)
<1> DEFINE o == PathOf(S, i)
<1>1. /\ o \in Dirs /\ PathOf(S, j) \in Dirs /\ PathOf(S, k) \in Dirs /\ new \in Dirs
      /\ j \in Insts /\ k \in Insts /\ PathOf(S, j) # PathOf(S, k)
  BY InvFacts, PlaceFacts DEF Place
<1>2. NewPaths(S, i, new)[j] = Moved(o, new, PathOf(S, j)) /\ IsPrefix(new, Moved(o, new, PathOf(S, j)))
  BY <1>1, MovedBegins DEF NewPaths
<1>3. ~IsPrefix(new, PathOf(S, k))
  BY PlaceFacts
<1>4. CASE IsPrefix(o, PathOf(S, k))
  <2>1. NewPaths(S, i, new)[k] = Moved(o, new, PathOf(S, k))
    BY <1>1, <1>4 DEF NewPaths
  <2> QED
    BY <1>1, <1>2, <1>3, <1>4, <2>1, MovedApart
<1>5. CASE ~IsPrefix(o, PathOf(S, k))
  <2>1. NewPaths(S, i, new)[k] = PathOf(S, k)
    BY <1>1, <1>5 DEF NewPaths
  <2> QED
    BY <1>2, <1>3, <2>1
<1> QED
  BY <1>4, <1>5

LEMMA NewPathsIn ==
    ASSUME NEW S, PathInv(S), NEW i, NEW new, Place(S, i, new), NEW j \in S.live
    PROVE  /\ NewPaths(S, i, new)[j] \in Dirs /\ NewPaths(S, i, new)[j] # <<>>
           /\ Lettered(NewPaths(S, i, new)[j])
           /\ i = j => NewPaths(S, i, new)[j] = new
           /\ IsPrefix(PathOf(S, i), PathOf(S, j)) /\ i # j =>
                 /\ IsPrefix(PathOf(S, i), S.cont[j])
                 /\ Front(NewPaths(S, i, new)[j]) = Moved(PathOf(S, i), new, S.cont[j])
                 /\ Last(NewPaths(S, i, new)[j]) = S.name[j]
           /\ \A c \in S.live : PathOf(S, c) = S.cont[j] /\ i # j =>
                 NewPaths(S, i, new)[c] = Front(NewPaths(S, i, new)[j])
<1> DEFINE o == PathOf(S, i)
           p == PathOf(S, j)
           f == NewPaths(S, i, new)
<1>1. /\ o \in Dirs /\ o # <<>> /\ p \in Dirs /\ p # <<>> /\ new \in Dirs /\ j \in Insts
      /\ S \in IxType /\ new # <<>> /\ Lettered(new) /\ Lettered(p) /\ i \in S.live
  BY InvFacts, PlaceFacts DEF Place, PathInv, Spelt
<1>2. Front(p) = S.cont[j] /\ Last(p) = S.name[j] /\ S.cont[j] \in Dirs
  BY <1>1, PathOfIs
<1>3. f[j] = IF IsPrefix(o, p) THEN Moved(o, new, p) ELSE p
  BY <1>1 DEF NewPaths
<1>a. \A c \in S.live : f[c] = IF IsPrefix(o, PathOf(S, c)) THEN Moved(o, new, PathOf(S, c)) ELSE PathOf(S, c)
  BY InvFacts DEF NewPaths
<1> HIDE DEF f
<1>4. IsPrefix(o, p) => Moved(o, new, p) \in Dirs /\ Moved(o, new, p) # <<>> /\ Lettered(Moved(o, new, p))
  <2> SUFFICES ASSUME IsPrefix(o, p)
               PROVE  Moved(o, new, p) \in Dirs /\ Moved(o, new, p) # <<>> /\ Lettered(Moved(o, new, p))
    OBVIOUS
  <2>1. Len(o) <= Len(p)
    BY <1>1, Begins
  <2> QED
    BY <1>1, <2>1, MovedIs, MovedBegins, LetteredMoved
<1>5. i = j => f[j] = new
  <2>1. IsPrefix(o, o) /\ Moved(o, new, o) = new
    BY <1>1, BeginsFront, MovedSelf
  <2> QED
    BY <1>3, <2>1
<1>6. IsPrefix(o, p) /\ i # j => IsPrefix(o, Front(p))
  <2>1. i # j => o # p
    BY <1>1, InvFacts
  <2> QED
    BY <1>1, <2>1, BeginsFront
<1>7. IsPrefix(o, p) /\ i # j => Front(f[j]) = Moved(o, new, Front(p)) /\ Last(f[j]) = Last(p)
  BY <1>1, <1>3, <1>6, MovedFront
<1>8. ASSUME NEW c \in S.live, PathOf(S, c) = S.cont[j], i # j  PROVE f[c] = Front(f[j])
  <2>1. CASE IsPrefix(o, p)
    BY <2>1, <1>2, <1>6, <1>7, <1>8, <1>a
  <2>2. CASE ~IsPrefix(o, p)
    <3>1. ~IsPrefix(o, Front(p))
      BY <2>2, <1>1, BeginsFront
    <3> QED
      BY <2>2, <3>1, <1>2, <1>3, <1>8, <1>a
  <2> QED
    BY <2>1, <2>2
<1> QED
  BY <1>1, <1>2, <1>3, <1>4, <1>5, <1>6, <1>7, <1>8 DEF f

\* The index of a moved subtree is as true as it was, and only i has another
\* container.
LEMMA MovedInv ==
    ASSUME NEW S, PathInv(S), NEW i, NEW new, Place(S, i, new), NEW f, f = NewPaths(S, i, new),
           NEW T \in IxType, T.live = S.live, T.link = S.link, KeysOf(T, f, S.live),
           \A j \in S.live : T.cont[j] = Front(f[j]) /\ T.name[j] = Last(f[j]),
           \A c \in Insts : \A j \in T.members[c] :
               j \in S.live \ {Root} /\ c \in S.live /\ f[c] = Front(f[j]),
           \A j \in S.live : S.link[j] # NULL => T.target[j] = f[S.link[j]]
    PROVE  /\ PathInv(T)
           /\ \A j \in S.live \ {i} : ResolvePath(T, T.cont[j]) = ResolvePath(S, S.cont[j])
<1>1. /\ S.live \subseteq Insts /\ S \in IxType /\ Root \in S.live
      /\ i \in S.live /\ i # Root /\ new \in Dirs /\ new # <<>>
  BY InvFacts DEF Place
<1>2. \A j \in S.live : f[j] \in Dirs /\ f[j] # <<>> /\ Lettered(f[j])
  BY NewPathsIn
<1>3. \A j \in S.live : PathOf(T, j) = f[j] /\ Paths(T)[j] = f[j]
  BY <1>1, <1>2, FrontLast DEF PathOf, Paths
<1>4. f[Root] = PathOf(S, Root) /\ f[i] = new
  <2>1. ~IsPrefix(PathOf(S, i), PathOf(S, Root)) /\ Root \in Insts
    BY <1>1, PlaceFacts
  <2>2. f[i] = new
    BY <1>1, NewPathsIn
  <2> QED
    BY <2>1, <2>2 DEF NewPaths
<1>5. Rooted(T)
  <2>1. S.cont[Root] = <<>> /\ S.name[Root] = RootName
    BY DEF PathInv, Rooted
  <2>2. Front(PathOf(S, Root)) = S.cont[Root] /\ Last(PathOf(S, Root)) = S.name[Root]
    BY <1>1, PathOfIs
  <2> QED
    BY <1>1, <1>4, <2>1, <2>2 DEF Rooted
<1>6. Keyed(T)
  BY <1>3 DEF Keyed, KeysOf
<1>7. ASSUME NEW j \in S.live \ {Root}
      PROVE  \E c \in S.live : f[c] = Front(f[j]) /\ (j # i => PathOf(S, c) = S.cont[j])
  <2>1. CASE j = i
    <3>1. PICK c \in S.live : PathOf(S, c) = Front(new)
      BY DEF Place
    <3>2. f[c] = Front(new)
      <4>1. ~IsPrefix(PathOf(S, i), Front(new)) /\ c \in Insts
        BY <1>1 DEF Place
      <4> QED
        BY <3>1, <4>1 DEF NewPaths
    <3> QED
      BY <2>1, <3>2, <1>4
  <2>2. CASE j # i
    <3>1. PICK c \in S.live : PathOf(S, c) = S.cont[j]
      BY DEF PathInv, Homed
    <3> QED
      BY <2>2, <3>1, NewPathsIn
  <2> QED
    BY <2>1, <2>2
<1>8. Homed(T)
  BY <1>3, <1>7 DEF Homed
<1>9. Listed(T)
  BY <1>3 DEF Listed
<1>10. Spelt(T)
  BY <1>2, <1>3 DEF Spelt
<1>11. Aliased(T)
  <2>1. \A j \in Insts : S.link[j] # NULL => j \in S.live /\ S.link[j] \in S.live
    BY DEF PathInv, Aliased
  <2> QED
    BY <1>3, <2>1 DEF Aliased
<1>12. PathInv(T)
  BY <1>5, <1>6, <1>8, <1>9, <1>10, <1>11 DEF PathInv
<1>13. ASSUME NEW j \in S.live \ {i}
       PROVE  ResolvePath(T, T.cont[j]) = ResolvePath(S, S.cont[j])
  <2>1. CASE j = Root
    <3>1. T.cont[j] = <<>> /\ S.cont[j] = <<>>
      BY <2>1, <1>5 DEF PathInv, Rooted
    <3> QED
      BY <3>1, <1>12, InvFacts
  <2>2. CASE j # Root
    <3>1. PICK c \in S.live : f[c] = Front(f[j]) /\ PathOf(S, c) = S.cont[j]
      BY <2>2, <1>7
    <3>2. ResolvePath(S, S.cont[j]) = c
      BY <3>1, InvFacts
    <3>3. PathOf(T, c) = T.cont[j]
      BY <3>1, <1>3
    <3>4. ResolvePath(T, T.cont[j]) = c
      BY <3>3, <1>12, InvFacts
    <3> QED
      BY <3>2, <3>4
  <2> QED
    BY <2>1, <2>2
<1> QED
  BY <1>12, <1>13

\* The index when i, and those of D, have gone to their new paths, and the rest
\* of what i holds has not.
SomePaths(S, i, new, D) ==
    [j \in Insts |-> IF j \in D \cup {i} THEN NewPaths(S, i, new)[j] ELSE PathOf(S, j)]

Halfway(S, i, new, D, T) ==
    /\ T \in IxType /\ T.live = S.live /\ T.link = S.link /\ T.target = S.target
    /\ KeysOf(T, SomePaths(S, i, new, D), S.live)
    /\ \A j \in S.live : T.name[j] = Last(NewPaths(S, i, new)[j])
    /\ \A j \in S.live : T.cont[j] = IF j \in D \cup {i} THEN Front(NewPaths(S, i, new)[j]) ELSE S.cont[j]
    /\ \A c \in Insts : \A j \in T.members[c] :
          j \in S.live \ {Root} /\ c \in S.live /\ NewPaths(S, i, new)[c] = Front(NewPaths(S, i, new)[j])

\* Names stay.
LEMMA NewPathsLast ==
    ASSUME NEW S, PathInv(S), NEW i, NEW new, Place(S, i, new), NEW j \in S.live
    PROVE  Last(NewPaths(S, i, new)[j]) = IF j = i THEN Last(new) ELSE S.name[j]
<1>1. S \in IxType /\ j \in Insts
  BY InvFacts
<1>2. CASE j = i
  BY <1>2, NewPathsIn
<1>3. CASE j # i /\ IsPrefix(PathOf(S, i), PathOf(S, j))
  BY <1>3, NewPathsIn
<1>4. CASE j # i /\ ~IsPrefix(PathOf(S, i), PathOf(S, j))
  <2>1. NewPaths(S, i, new)[j] = PathOf(S, j)
    BY <1>1, <1>4 DEF NewPaths
  <2> QED
    BY <1>1, <1>4, <2>1, PathOfIs
<1> QED
  BY <1>2, <1>3, <1>4

\* The re-key: i goes first, and is told its Container by RegisterPath, whatever
\* the command wrote there.
LEMMA RekeyIs ==
    ASSUME NEW S, PathInv(S), NEW i, NEW new, Place(S, i, new),
           NEW B \in IxType, B.live = S.live, B.link = S.link, B.target = S.target,
           B.key = S.key, B.members = S.members,
           \A j \in S.live \ {i} : B.cont[j] = S.cont[j], B.name = [S.name EXCEPT ![i] = Last(new)]
    PROVE  Halfway(S, i, new, {}, Rekey(B, i, PathOf(S, i), new))
<1> DEFINE q == Paths(S)
           L == S.live
           f == NewPaths(S, i, new)
           r == SomePaths(S, i, new, {})
           U == UnregisterPath(B, PathOf(S, i))
           R == RegisterPath(U, new, i)
<1>1. /\ S \in IxType /\ L \subseteq Insts /\ i \in L /\ i \in Insts /\ i # Root
      /\ new \in Dirs /\ new # <<>> /\ q[i] = PathOf(S, i)
  <2>1. i \in L /\ i # Root /\ new \in Dirs /\ new # <<>>
    BY DEF Place
  <2> QED
    BY <2>1, InvFacts, PathOfIs
<1>2. \A j \in L : q[j] = PathOf(S, j)
  BY <1>1, PathOfIs
<1>3. KeysOf(B, q, L)
  BY DEF PathInv, Keyed, KeysOf
<1> HIDE DEF q
<1>a. Unnamed(B, q, L, i, U)
  BY <1>1, <1>3, UnregisterIs
<1> HIDE DEF U, R
<1>4. /\ U \in IxType /\ KeysOf(U, q, L \ {i})
      /\ U.live = B.live /\ U.name = B.name /\ U.cont = B.cont
      /\ U.link = B.link /\ U.target = B.target
      /\ \A c \in Insts : \A k \in U.members[c] :
            k \in B.members[c] /\ ~(k = i /\ c \in L /\ q[c] = Front(q[i]))
  BY <1>a DEF Unnamed
<1>5. \A k \in L \ {i} : q[k] # new
  BY <1>1, <1>2, PlaceFacts, BeginsFront
<1>6. f[i] = new
  BY <1>1, NewPathsIn
<1>7. r[i] = new /\ \A k \in L \ {i} : r[k] = q[k]
  BY <1>1, <1>2, <1>6 DEF SomePaths
<1> HIDE DEF r
<1>b. Entered(U, q, L \ {i}, i, new, r, R)
  <2>1. i \in Insts \ (L \ {i})
    BY <1>1
  <2>2. ~IsShort(new)
    BY <1>1, LetteredLong DEF Place
  <2> QED
    BY <1>1, <1>4, <1>5, <1>7, <2>1, <2>2, RegisterIs DEF R
<1>8. /\ R \in IxType /\ KeysOf(R, r, (L \ {i}) \cup {i})
      /\ R.live = U.live /\ R.link = U.link /\ R.target = U.target
      /\ R.name = [U.name EXCEPT ![i] = Last(new)]
      /\ (\E c \in L \ {i} : q[c] = Front(new)) => R.cont = [U.cont EXCEPT ![i] = Front(new)]
      /\ \A c \in Insts : \A k \in R.members[c] :
            k \in U.members[c] \/ (k = i /\ c \in L \ {i} /\ q[c] = Front(new))
  BY <1>b DEF Entered
<1>9. PICK h \in L : PathOf(S, h) = Front(new)
  BY DEF Place
<1>10. h # i
  <2>1. ~IsPrefix(PathOf(S, i), Front(new)) /\ PathOf(S, i) \in Dirs /\ PathOf(S, i) # <<>>
    BY PlaceFacts DEF Place
  <2> QED
    BY <1>9, <2>1, BeginsFront
<1>11. R.cont = [U.cont EXCEPT ![i] = Front(new)]
  BY <1>2, <1>8, <1>9, <1>10
<1>12. \A j \in L : R.name[j] = IF j = i THEN Last(new) ELSE S.name[j]
  <2>1. S.name \in [Insts -> Label]
    BY <1>1 DEF IxType
  <2> QED
    BY <1>1, <1>4, <1>8, <2>1
<1>13. \A j \in L : R.cont[j] = IF j = i THEN Front(new) ELSE S.cont[j]
  <2>1. B.cont \in [Insts -> Dirs]
    BY DEF IxType
  <2> QED
    BY <1>1, <1>4, <1>11, <2>1
<1>14. ASSUME NEW c \in Insts, NEW j \in R.members[c]
       PROVE  j \in L \ {Root} /\ c \in L /\ f[c] = Front(f[j])
  <2>1. CASE j \in U.members[c]
    <3>1. j \in S.members[c] /\ ~(j = i /\ c \in L /\ q[c] = Front(q[i]))
      BY <2>1, <1>4
    <3>2. j \in L \ {Root} /\ c \in L /\ PathOf(S, c) = S.cont[j]
      BY <3>1 DEF PathInv, Listed
    <3>3. j # i
      <4>1. Front(PathOf(S, i)) = S.cont[i]
        BY <1>1, PathOfIs
      <4> QED
        BY <3>1, <3>2, <4>1, <1>1, <1>2
    <3> QED
      BY <3>2, <3>3, NewPathsIn
  <2>2. CASE j = i /\ c \in L \ {i} /\ q[c] = Front(new)
    <3>1. ~IsPrefix(PathOf(S, i), PathOf(S, c)) /\ PathOf(S, c) = Front(new)
      BY <2>2, <1>2 DEF Place
    <3>2. f[c] = Front(new)
      BY <3>1 DEF NewPaths
    <3> QED
      BY <2>2, <3>2, <1>1, <1>6
  <2> QED
    BY <2>1, <2>2, <1>8
<1>15. KeysOf(R, r, L)
  <2>1. (L \ {i}) \cup {i} = L
    BY <1>1
  <2> QED
    BY <2>1, <1>8
<1>16. \A j \in L : Last(f[j]) = IF j = i THEN Last(new) ELSE S.name[j]
  BY NewPathsLast
<1>17. Rekey(B, i, PathOf(S, i), new) = R
  BY DEF Rekey, R, U
<1> HIDE DEF f
<1>18. Halfway(S, i, new, {}, R)
  BY <1>4, <1>6, <1>8, <1>12, <1>13, <1>14, <1>15, <1>16 DEF Halfway, f, r
<1> QED
  BY <1>17, <1>18

\* The names clients give, and the root's: none begins another.
Distinct == PrefixFree(Names \cup {RootName})

\* What a loop may move next.
Waiting(S, i, D) == {j \in S.live \ (D \cup {i}) : IsPrefix(PathOf(S, i), PathOf(S, j))}

\* One round of the loop: one more descendant arrives, whether what it lies in has
\* arrived or not.
LEMMA RepathStep ==
    ASSUME Distinct, NEW S, PathInv(S), NEW i, NEW new, Place(S, i, new),
           NEW D, NEW T, Halfway(S, i, new, D, T), NEW j \in Waiting(S, i, D)
    PROVE  Halfway(S, i, new, D \cup {j}, RepathOne(T, j, PathOf(S, j), PathOf(S, i), new))
<1> DEFINE o == PathOf(S, i)
           q == SomePaths(S, i, new, D)
           r == SomePaths(S, i, new, D \cup {j})
           f == NewPaths(S, i, new)
           p == Moved(o, new, PathOf(S, j))
           U == UnregisterPath(T, PathOf(S, j))
           A == RegisterPath(U, p, j)
           L == S.live
<1>1. /\ S \in IxType /\ L \subseteq Insts /\ i \in L /\ j \in L /\ i # j /\ j \notin D /\ j \in Insts
      /\ IsPrefix(o, PathOf(S, j)) /\ new \in Dirs /\ new # <<>> /\ o \in Dirs /\ o # <<>>
  BY InvFacts DEF Waiting, Place
<1>2. T \in IxType /\ KeysOf(T, q, L)
  BY DEF Halfway
<1>3. q[j] = PathOf(S, j) /\ f[j] = p
  BY <1>1 DEF SomePaths, NewPaths
<1>4. /\ p \in Dirs /\ p # <<>> /\ Lettered(p) /\ IsPrefix(o, S.cont[j])
      /\ Front(p) = Moved(o, new, S.cont[j]) /\ Last(p) = S.name[j]
      /\ S.cont[j] \in Dirs
  <2>1. /\ p \in Dirs /\ p # <<>> /\ Lettered(p) /\ IsPrefix(o, S.cont[j])
        /\ Front(p) = Moved(o, new, S.cont[j]) /\ Last(p) = S.name[j]
    BY <1>1, <1>3, NewPathsIn
  <2> QED
    BY <1>1, <2>1, PathOfIs
<1>5. r[j] = p /\ \A k \in L \ {j} : r[k] = q[k]
  BY <1>1, <1>3 DEF SomePaths
<1>6. \A k \in L \ {j} : q[k] # p
  <2> SUFFICES ASSUME NEW k \in L \ {j}  PROVE q[k] # p
    OBVIOUS
  <2>1. f[j] # f[k] /\ f[j] # PathOf(S, k)
    BY <1>1, NewPathsApart
  <2>2. q[k] = f[k] \/ q[k] = PathOf(S, k)
    BY <1>1 DEF SomePaths
  <2> QED
    BY <1>3, <2>1, <2>2
<1> HIDE DEF q, r, f, p
<1>7. Unnamed(T, q, L, j, U)
  BY <1>1, <1>2, <1>3, UnregisterIs
<1> HIDE DEF U
<1>8. U \in IxType /\ KeysOf(U, q, L \ {j})
  BY <1>7 DEF Unnamed
<1>9. Entered(U, q, L \ {j}, j, p, r, A)
  <2>1. j \in Insts \ (L \ {j})
    BY <1>1
  <2>2. ~IsShort(p)
    BY <1>4, LetteredLong
  <2> QED
    BY <1>4, <1>5, <1>6, <1>8, <2>1, <2>2, RegisterIs
<1> HIDE DEF A
<1>10. /\ U.live = L /\ U.link = S.link /\ U.target = S.target
       /\ U.cont = T.cont /\ U.name = T.name
  BY <1>7 DEF Unnamed, Halfway
<1>11. /\ A \in IxType /\ A.live = L /\ A.link = S.link /\ A.target = S.target
       /\ A.name = [T.name EXCEPT ![j] = Last(p)]
       /\ KeysOf(A, r, (L \ {j}) \cup {j})
       /\ A.cont = T.cont \/ A.cont = [T.cont EXCEPT ![j] = Front(p)]
  BY <1>9, <1>10 DEF Entered
<1>12. KeysOf(A, r, L)
  <2>1. (L \ {j}) \cup {j} = L
    BY <1>1
  <2> QED
    BY <1>11, <2>1
<1>13. \A k \in L : A.name[k] = Last(f[k])
  <2>1. \A k \in L : T.name[k] = Last(f[k])
    BY DEF Halfway, f
  <2>2. T.name \in [Insts -> Label]
    BY <1>2 DEF IxType
  <2> QED
    BY <1>1, <1>3, <1>11, <2>1, <2>2
<1>14. ASSUME NEW c \in Insts, NEW k \in A.members[c]
       PROVE  k \in L \ {Root} /\ c \in L /\ f[c] = Front(f[k])
  <2>1. CASE k \in T.members[c]
    BY <2>1 DEF Halfway, f
  <2>2. CASE k = j /\ c \in L \ {j} /\ q[c] = Front(p)
    <3>1. j # Root
      BY <1>1, PlaceFacts
    <3>2. IsPrefix(new, Front(p))
      BY <1>1, <1>4, MovedBegins
    <3>3. q[c] # PathOf(S, c)
      BY <2>2, <3>2, PlaceFacts
    <3>4. q[c] = f[c]
      BY <3>3 DEF q, f, SomePaths
    <3> QED
      BY <2>2, <3>1, <3>4, <1>1, <1>3
  <2>3. k \in T.members[c] \/ (k = j /\ c \in L \ {j} /\ q[c] = Front(p))
    <3>1. k \in U.members[c] \/ (k = j /\ c \in L \ {j} /\ q[c] = Front(p))
      BY <1>9 DEF Entered
    <3>2. k \in U.members[c] => k \in T.members[c]
      BY <1>7 DEF Unnamed
    <3> QED
      BY <3>1, <3>2
  <2> QED
    BY <2>1, <2>2, <2>3
\* The Container: set by RegisterPath, or left for the loop to swap.
<1>15. T.cont \in [Insts -> Dirs] /\ T.cont[j] = S.cont[j] /\ Front(p) \in Dirs
  <2>1. T.cont[j] = S.cont[j]
    BY <1>1 DEF Halfway
  <2>2. T.cont \in [Insts -> Dirs]
    BY <1>2 DEF IxType
  <2> QED
    BY <1>4, <2>1, <2>2, FrontLast
<1>16. Lettered(o) /\ Lettered(S.cont[j]) /\ Lettered(Front(p))
  <2>1. Lettered(PathOf(S, i)) /\ Lettered(PathOf(S, j))
    BY <1>1 DEF PathInv, Spelt
  <2>2. PathOf(S, j) \in Dirs /\ PathOf(S, j) # <<>> /\ Front(PathOf(S, j)) = S.cont[j]
    BY <1>1, PathOfIs
  <2> QED
    BY <1>4, <2>1, <2>2, LetteredFront
<1>17. StartsWith(S.cont[j], o) /\ Swap(S.cont[j], o, new) = Front(p)
  BY <1>1, <1>4, <1>16, StartsWithIs, SwapIs DEF Lettered, Distinct
<1>18. ~StartsWith(Front(p), o)
  <2>1. ~IsPrefix(o, Front(p))
    <3>1. IsPrefix(new, Front(p))
      BY <1>1, <1>4, MovedBegins
    <3>2. ~IsPrefix(o, new) /\ ~IsPrefix(new, o)
      BY PlaceFacts
    <3> QED
      BY <1>1, <1>15, <3>1, <3>2, BeginsBoth
  <2> QED
    BY <1>1, <1>15, <1>16, <2>1, StartsWithIs DEF Lettered, Distinct
<1> DEFINE C == [T.cont EXCEPT ![j] = Front(p)]
           Z == RepathOne(T, j, PathOf(S, j), o, new)
<1>19. C \in [Insts -> Dirs] /\ C[j] = Front(p)
  BY <1>1, <1>15
<1>20. Z = IF StartsWith(A.cont[j], o) THEN [A EXCEPT !.cont[j] = Swap(A.cont[j], o, new)] ELSE A
  BY DEF RepathOne, A, U, p, Moved
<1> HIDE DEF Z
<1>21. Z = [A EXCEPT !.cont = C]
  <2>1. CASE A.cont = C
    <3>1. Z = A
      BY <2>1, <1>18, <1>19, <1>20
    <3> HIDE DEF C
    <3> QED
      BY <2>1, <3>1, <1>11 DEF IxType
  <2>2. CASE A.cont = T.cont
    <3>1. Z = [A EXCEPT !.cont[j] = Swap(A.cont[j], o, new)]
      BY <2>2, <1>15, <1>17, <1>20
    <3>2. Swap(A.cont[j], o, new) = Front(p)
      BY <2>2, <1>15, <1>17
    <3> QED
      BY <2>2, <3>1, <3>2, <1>11 DEF IxType
  <2> QED
    BY <1>11, <2>1, <2>2
<1>22. \A k \in L : C[k] = IF k \in (D \cup {j}) \cup {i} THEN Front(f[k]) ELSE S.cont[k]
  <2>1. \A k \in L : T.cont[k] = IF k \in D \cup {i} THEN Front(f[k]) ELSE S.cont[k]
    BY DEF Halfway, f
  <2> QED
    BY <1>1, <1>3, <1>15, <2>1
<1> HIDE DEF C
<1>23. /\ Z \in IxType /\ Z.live = L /\ Z.link = S.link /\ Z.target = S.target /\ Z.key = A.key
       /\ Z.name = A.name /\ Z.cont = C /\ Z.members = A.members
  BY <1>11, <1>19, <1>21 DEF IxType
<1>24. KeysOf(Z, r, L)
  BY <1>12, <1>23 DEF KeysOf
<1>25. Halfway(S, i, new, D \cup {j}, Z)
  BY <1>13, <1>14, <1>22, <1>23, <1>24 DEF Halfway, f, r
<1> QED
  BY <1>25 DEF Z

-----------------------------------------------------------------------------
(* The loops *)

\* An order in which a loop takes the members of a set: each once.
LEMMA Orders ==
    ASSUME NEW D, IsFiniteSet(D), NEW s \in SetToSeqs(D)
    PROVE  /\ Len(s) \in Nat /\ DOMAIN s = 1 .. Len(s)
           /\ \A k \in 1 .. Len(s) : s[k] \in D
           /\ \A j, k \in 1 .. Len(s) : j # k => s[j] # s[k]
           /\ {s[k] : k \in 1 .. Len(s)} = D
<1> DEFINE n == Cardinality(D)
<1>1. n \in Nat /\ s \in [1 .. n -> D] /\ \A j, k \in 1 .. n : j # k => s[j] # s[k]
  BY FS_CardinalityType DEF SetToSeqs
<1>2. Len(s) = n /\ DOMAIN s = 1 .. n
  BY <1>1
<1>3. s \in Injection(1 .. n, D)
  BY <1>1 DEF Injection, IsInjective
<1>4. IsFiniteSet(1 .. n) /\ Cardinality(1 .. n) = n
  BY <1>1, FS_Interval
<1>5. s \in Surjection(1 .. n, D)
  BY <1>3, <1>4, FS_Injection
<1>6. \A x \in D : \E k \in 1 .. n : s[k] = x
  BY <1>5 DEF Surjection
<1> HIDE DEF n
<1> QED
  BY <1>1, <1>2, <1>6

\* The descendants that the loop collects.
LEMMA InsideIs ==
    ASSUME NEW S, PathInv(S), NEW i, NEW new, Place(S, i, new), NEW A, Halfway(S, i, new, {}, A)
    PROVE  /\ Inside(A, PathOf(S, i)) = Waiting(S, i, {})
           /\ \A j \in Waiting(S, i, {}) : PathOf(A, j) = PathOf(S, j)
<1> DEFINE o == PathOf(S, i)
           r == SomePaths(S, i, new, {})
<1>1. /\ S \in IxType /\ S.live \subseteq Insts /\ i \in S.live /\ i \in Insts /\ o \in Dirs
      /\ new \in Dirs /\ new # <<>>
  BY InvFacts, PlaceFacts DEF Place
<1>2. A.live = S.live /\ A \in IxType /\ KeysOf(A, r, S.live)
  BY DEF Halfway
<1>3. \A j \in S.live \ {i} : A.cont[j] = S.cont[j] /\ A.name[j] = S.name[j]
  <2>1. \A j \in S.live \ {i} : A.cont[j] = S.cont[j] /\ A.name[j] = Last(NewPaths(S, i, new)[j])
    BY DEF Halfway
  <2> QED
    BY <2>1, NewPathsLast
<1>4. \A j \in S.live \ {i} : PathOf(A, j) = PathOf(S, j) /\ r[j] = PathOf(S, j)
  BY <1>1, <1>3 DEF PathOf, SomePaths
<1>5. PathOf(A, i) = new
  <2>1. NewPaths(S, i, new)[i] = new
    BY <1>1, NewPathsIn
  <2>2. A.cont[i] = Front(new) /\ A.name[i] = Last(new)
    BY <1>1, <2>1 DEF Halfway
  <2> QED
    BY <1>1, <2>2, FrontLast DEF PathOf
<1> HIDE DEF r
<1>6. \A j \in S.live \ {i} : HasPath(A, j)
  BY <1>2, <1>4, PathLeads DEF HasPath
<1>7. ~IsPrefix(o, new) /\ \A j \in S.live \ {i} : PathOf(S, j) # o
  BY <1>1, PlaceFacts, InvFacts
<1> QED
  BY <1>2, <1>4, <1>5, <1>6, <1>7 DEF Inside, Waiting, IsStrictPrefix

\* One round, of the k-th descendant.
RepathRound(A, order, old, new, T, k) ==
    RepathOne(T, order[k], PathOf(A, order[k]), old, new)

\* The states the loop goes through.
IsRepathing(A, order, old, new, m, f) ==
    f = [k \in 0 .. m |-> IF k = 0 THEN A ELSE RepathRound(A, order, old, new, f[k - 1], k)]

LEMMA RepathingExists ==
    ASSUME NEW A, NEW order, NEW old, NEW new, NEW n \in Nat
    PROVE  \E f : IsRepathing(A, order, old, new, n, f)
<1> DEFINE G == {m \in 0 .. n : \E f : IsRepathing(A, order, old, new, m, f)}
<1>1. 0 \in G
  <2> DEFINE f == [k \in 0 .. 0 |-> A]
  <2>1. f = [k \in 0 .. 0 |-> IF k = 0 THEN A ELSE RepathRound(A, order, old, new, f[k - 1], k)]
    OBVIOUS
  <2> HIDE DEF f
  <2>2. IsRepathing(A, order, old, new, 0, f)
    BY <2>1 DEF IsRepathing
  <2> QED
    BY <2>2
<1>2. ASSUME NEW m \in Nat, m < n, m \in G  PROVE m + 1 \in G
  <2>1. PICK f : IsRepathing(A, order, old, new, m, f)
    BY <1>2
  <2>2. \A k \in 0 .. m : f[k] = IF k = 0 THEN A ELSE RepathRound(A, order, old, new, f[k - 1], k)
    BY <2>1 DEF IsRepathing
  <2> DEFINE g == [k \in 0 .. m + 1 |-> IF k <= m THEN f[k] ELSE RepathRound(A, order, old, new, f[m], m + 1)]
  <2>3. ASSUME NEW k \in 0 .. m + 1
        PROVE  g[k] = IF k = 0 THEN A ELSE RepathRound(A, order, old, new, g[k - 1], k)
    <3>1. CASE k <= m
      <4>1. k \in 0 .. m /\ (k # 0 => k - 1 \in 0 .. m + 1 /\ k - 1 <= m)
        BY <3>1
      <4> QED
        BY <2>2, <4>1
    <3>2. CASE k = m + 1
      <4>1. k # 0 /\ k - 1 = m /\ m \in 0 .. m + 1 /\ ~(k <= m) /\ m <= m
        BY <3>2
      <4> QED
        BY <3>2, <4>1
    <3> QED
      BY <3>1, <3>2
  <2>4. g = [k \in 0 .. m + 1 |-> g[k]]
    OBVIOUS
  <2> HIDE DEF g
  <2>5. IsRepathing(A, order, old, new, m + 1, g)
    BY <2>3, <2>4 DEF IsRepathing
  <2> QED
    BY <1>2, <2>5
<1> HIDE DEF G
<1>3. n \in G
  BY <1>1, <1>2, UpTo
<1> QED
  BY <1>3 DEF G

\* The whole loop: everything that i holds arrives.
LEMMA RepathRuns ==
    ASSUME Distinct, NEW S, PathInv(S), NEW i, NEW new, Place(S, i, new),
           NEW A, Halfway(S, i, new, {}, A), NEW order \in SetToSeqs(Inside(A, PathOf(S, i)))
    PROVE  \E Z : /\ Halfway(S, i, new, Waiting(S, i, {}), Z)
                  /\ RepathSubtree(A, order, PathOf(S, i), new) = Retarget(Z, PathOf(S, i), new)
<1> DEFINE o == PathOf(S, i)
           W == Waiting(S, i, {})
           n == Len(order)
           run == CHOOSE f : IsRepathing(A, order, o, new, n, f)
           seen(m) == {order[k] : k \in 1 .. m}
<1>1. Inside(A, o) = W /\ \A j \in W : PathOf(A, j) = PathOf(S, j)
  BY InsideIs
<1>2. IsFiniteSet(W)
  <2>1. W \subseteq Insts
    BY InvFacts DEF Waiting
  <2> QED
    BY <2>1, FS_Subset, PathIndexAssumption
<1>3. /\ n \in Nat /\ \A k \in 1 .. n : order[k] \in W
      /\ \A j, k \in 1 .. n : j # k => order[j] # order[k]
      /\ seen(n) = W
  BY <1>1, <1>2, Orders
<1>4. IsRepathing(A, order, o, new, n, run)
  <2>1. \E f : IsRepathing(A, order, o, new, n, f)
    BY <1>3, RepathingExists
  <2> QED
    BY <2>1
<1>5. RepathSubtree(A, order, o, new) = Retarget(run[n], o, new)
  BY DEF RepathSubtree, IsRepathing, RepathRound
<1> HIDE DEF run, n, W
<1>6. run[0] = A /\ \A k \in 1 .. n : run[k] = RepathOne(run[k - 1], order[k], PathOf(A, order[k]), o, new)
  BY <1>3, <1>4 DEF IsRepathing, RepathRound
<1> DEFINE G == {m \in 0 .. n : Halfway(S, i, new, seen(m), run[m])}
<1>7. 0 \in G
  <2>1. seen(0) = {}
    OBVIOUS
  <2>2. 0 \in 0 .. n
    BY <1>3
  <2> HIDE DEF seen
  <2> QED
    BY <2>1, <2>2, <1>6
<1>8. ASSUME NEW m \in Nat, m < n, m \in G  PROVE m + 1 \in G
  <2> DEFINE j == order[m + 1]
  <2>1. m + 1 \in 1 .. n /\ (m + 1) - 1 = m /\ m + 1 \in 0 .. n
    BY <1>3, <1>8
  <2>2. j \in W /\ \A k \in 1 .. m : order[k] # j
    <3>1. \A k \in 1 .. m : k \in 1 .. n /\ k # m + 1
      BY <2>1, <1>3
    <3> QED
      BY <1>3, <2>1, <3>1
  <2>3. seen(m + 1) = seen(m) \cup {j}
    <3>1. \A k \in Int : k \in 1 .. m + 1 <=> k \in 1 .. m \/ k = m + 1
      OBVIOUS
    <3> QED
      BY <3>1
  <2>4. j \notin seen(m)
    BY <2>2
  <2> HIDE DEF j, seen
  <2>5. j \in Waiting(S, i, seen(m))
    BY <2>2, <2>4 DEF Waiting, W
  <2>6. Halfway(S, i, new, seen(m), run[m])
    BY <1>8
  <2>7. Halfway(S, i, new, seen(m) \cup {j}, RepathOne(run[m], j, PathOf(S, j), o, new))
    BY <2>5, <2>6, RepathStep
  <2>8. run[m + 1] = RepathOne(run[m], j, PathOf(S, j), o, new)
    BY <1>1, <1>6, <2>1, <2>2 DEF j
  <2> QED
    BY <2>1, <2>3, <2>7, <2>8
<1>9. n \in G
  <2> HIDE DEF G, seen
  <2>1. n \in Nat /\ \A m \in Nat : m < n /\ m \in G => m + 1 \in G
    BY <1>3, <1>8
  <2>2. \A m \in 0 .. n : m \in G
    BY <1>7, <2>1, UpTo
  <2> QED
    BY <2>1, <2>2
<1>10. Halfway(S, i, new, W, run[n])
  <2> HIDE DEF seen
  <2> QED
    BY <1>3, <1>9
<1> QED
  BY <1>5, <1>10 DEF W

\* Aliases are told, and the index is true.
LEMMA RetargetInv ==
    ASSUME NEW S, PathInv(S), NEW i, NEW new, Place(S, i, new),
           NEW Z, Halfway(S, i, new, Waiting(S, i, {}), Z),
           NEW T, T = Retarget(Z, PathOf(S, i), new)
    PROVE  /\ PathInv(T) /\ T.live = S.live
           /\ \A j \in S.live \ {i} : ResolvePath(T, T.cont[j]) = ResolvePath(S, S.cont[j])
<1> DEFINE o == PathOf(S, i)
           f == NewPaths(S, i, new)
           W == Waiting(S, i, {})
           L == S.live
           told(j) == j \in Z.live /\ Z.link[j] # NULL /\ HasPath(Z, j) /\ IsPrefix(o, Z.target[j])
           X == [j \in Insts |-> IF told(j) THEN Moved(o, new, Z.target[j]) ELSE Z.target[j]]
<1>1. /\ S \in IxType /\ L \subseteq Insts /\ i \in L /\ i \in Insts /\ o \in Dirs /\ new \in Dirs
  BY InvFacts, PlaceFacts DEF Place
<1>2. /\ Z \in IxType /\ Z.live = L /\ Z.link = S.link /\ Z.target = S.target
      /\ KeysOf(Z, SomePaths(S, i, new, W), L)
      /\ \A j \in L : Z.name[j] = Last(f[j])
      /\ \A j \in L : Z.cont[j] = IF j \in W \cup {i} THEN Front(f[j]) ELSE S.cont[j]
      /\ \A c \in Insts : \A j \in Z.members[c] : j \in L \ {Root} /\ c \in L /\ f[c] = Front(f[j])
  BY DEF Halfway
<1>3. ASSUME NEW j \in L, j \notin W \cup {i}
      PROVE  f[j] = PathOf(S, j) /\ Front(f[j]) = S.cont[j]
  <2>1. ~IsPrefix(o, PathOf(S, j)) /\ j \in Insts
    BY <1>1, <1>3 DEF Waiting
  <2>2. f[j] = PathOf(S, j)
    BY <2>1 DEF NewPaths
  <2> QED
    BY <1>1, <2>1, <2>2, PathOfIs
<1>4. \A j \in L : SomePaths(S, i, new, W)[j] = f[j]
  BY <1>1, <1>3 DEF SomePaths
<1>5. KeysOf(Z, f, L)
  <2> HIDE DEF f, W
  <2> QED
    BY <1>2, <1>4 DEF KeysOf
<1>6. \A j \in L : Z.cont[j] = Front(f[j])
  BY <1>2, <1>3
<1>7. \A j \in L : f[j] \in Dirs /\ f[j] # <<>>
  BY NewPathsIn
<1>8. \A j \in L : HasPath(Z, j)
  <2>1. \A j \in L : PathOf(Z, j) = f[j]
    BY <1>2, <1>6, <1>7, FrontLast DEF PathOf
  <2> QED
    BY <1>5, <2>1, PathLeads DEF HasPath
<1>9. X \in [Insts -> Dirs]
  <2>1. Z.target \in [Insts -> Dirs]
    BY <1>2 DEF IxType
  <2>2. \A t \in Dirs : IsPrefix(o, t) => Moved(o, new, t) \in Dirs
    BY <1>1, Begins, MovedIs
  <2> QED
    BY <2>1, <2>2
<1>10. ASSUME NEW j \in L, S.link[j] # NULL  PROVE X[j] = f[S.link[j]]
  <2> DEFINE d == S.link[j]
  <2>1. d \in L /\ S.target[j] = PathOf(S, d) /\ j \in Insts /\ d \in Insts
    BY <1>1, <1>10 DEF PathInv, Aliased
  <2>2. told(j) <=> IsPrefix(o, PathOf(S, d))
    BY <1>2, <1>8, <1>10, <2>1
  <2>3. f[d] = IF IsPrefix(o, PathOf(S, d)) THEN Moved(o, new, PathOf(S, d)) ELSE PathOf(S, d)
    BY <2>1 DEF NewPaths
  <2> HIDE DEF told, f
  <2> QED
    BY <1>2, <2>1, <2>2, <2>3
<1>11. T = [Z EXCEPT !.target = X]
  BY <1>2 DEF Retarget, Moved, IxType
<1> HIDE DEF X, f
<1>12. /\ T \in IxType /\ T.live = L /\ T.link = S.link /\ T.key = Z.key /\ T.target = X
       /\ T.cont = Z.cont /\ T.name = Z.name /\ T.members = Z.members
  BY <1>2, <1>9, <1>11 DEF IxType
<1>13. KeysOf(T, f, L)
  BY <1>5, <1>12 DEF KeysOf
<1> QED
  BY <1>2, <1>6, <1>10, <1>12, <1>13, MovedInv DEF f

-----------------------------------------------------------------------------
(* Deleting *)

\* The index when those of D are gone.
Partway(S, D, T) ==
    /\ T \in IxType /\ T.live = S.live \ D /\ KeysOf(T, Paths(S), S.live \ D)
    /\ \A j \in S.live \ D : T.name[j] = S.name[j] /\ T.cont[j] = S.cont[j]
    /\ \A j \in Insts : T.link[j] = IF j \in D \/ S.link[j] \in D THEN NULL ELSE S.link[j]
    /\ \A j \in Insts \ D : T.target[j] = S.target[j]
    /\ \A c \in Insts : \A k \in T.members[c] : k \in S.members[c] /\ k \notin D /\ c \notin D

LEMMA PartwayNone ==
    ASSUME NEW S, PathInv(S)
    PROVE  Partway(S, {}, S)
<1>1. S \in IxType /\ KeysOf(S, Paths(S), S.live)
  BY DEF PathInv, Keyed
<1>2. S.live \ {} = S.live
  OBVIOUS
<1> QED
  BY <1>1, <1>2 DEF Partway

LEMMA DeleteStep ==
    ASSUME NEW S, PathInv(S), NEW D, NEW T, Partway(S, D, T), NEW j \in S.live \ D,
           NEW Z, Z = DeleteInstance(UnregisterPath(T, PathOf(S, j)), j)
    PROVE  Partway(S, D \cup {j}, Z)
<1> DEFINE q == Paths(S)
           L == S.live \ D
           U == UnregisterPath(T, PathOf(S, j))
<1>1. /\ S \in IxType /\ S.live \subseteq Insts /\ j \in Insts /\ j \in L /\ j # NULL
      /\ q[j] = PathOf(S, j) /\ \A k \in S.live : q[k] = PathOf(S, k)
  BY InvFacts, PathOfIs, PathIndexAssumption
<1>2. T \in IxType /\ KeysOf(T, q, L) /\ T.live = L
  BY DEF Partway
<1> HIDE DEF q, L
<1>3. Unnamed(T, q, L, j, U)
  BY <1>1, <1>2, UnregisterIs
<1>4. Z = DeleteInstance(U, j)
  OBVIOUS
<1> HIDE DEF U
<1>5. /\ U \in IxType /\ KeysOf(U, q, L \ {j}) /\ U.live = L /\ U.name = T.name /\ U.cont = T.cont
      /\ U.link = T.link /\ U.target = T.target
      /\ \A c \in Insts : \A k \in U.members[c] :
            k \in T.members[c] /\ ~(k = j /\ c \in L /\ q[c] = Front(q[j]))
  BY <1>2, <1>3 DEF Unnamed
<1>6. ~HasPath(U, j)
  <2>1. j \in Insts \ (L \ {j})
    BY <1>1
  <2> QED
    BY <1>5, <2>1, PathLeads
<1> DEFINE N == [U.name EXCEPT ![j] = <<>>]
           C == [U.cont EXCEPT ![j] = <<>>]
           M == [U.members EXCEPT ![j] = {}]
           K == [k \in Insts |-> IF j \in {k, U.link[k]} THEN NULL ELSE U.link[k]]
           G == [U.target EXCEPT ![j] = <<>>]
<1>7. Z = [U EXCEPT !.live = @ \ {j}, !.name[j] = <<>>, !.cont[j] = <<>>, !.members[j] = {},
                    !.link = [k \in Insts |-> IF j \in {k, @[k]} THEN NULL ELSE @[k]],
                    !.target[j] = <<>>]
  BY <1>4, <1>6 DEF DeleteInstance
<1>8. Z = [U EXCEPT !.live = L \ {j}, !.name = N, !.cont = C, !.members = M, !.link = K, !.target = G]
  BY <1>5, <1>7 DEF IxType
<1>9. /\ U.name \in [Insts -> Label] /\ U.cont \in [Insts -> Dirs] /\ U.members \in [Insts -> SUBSET Insts]
      /\ U.link \in [Insts -> Insts \cup {NULL}] /\ U.target \in [Insts -> Dirs]
  BY <1>5 DEF IxType
<1>10. <<>> \in Label /\ <<>> \in Dirs
  BY DEF Label, Dirs
<1>11. N \in [Insts -> Label] /\ \A k \in Insts \ {j} : N[k] = U.name[k]
  BY <1>1, <1>9, <1>10
<1>12. C \in [Insts -> Dirs] /\ \A k \in Insts \ {j} : C[k] = U.cont[k]
  BY <1>1, <1>9, <1>10
<1>13. M \in [Insts -> SUBSET Insts] /\ M[j] = {} /\ \A k \in Insts \ {j} : M[k] = U.members[k]
  BY <1>1, <1>9
<1>14. /\ K \in [Insts -> Insts \cup {NULL}]
       /\ \A k \in Insts : K[k] = IF k = j \/ U.link[k] = j THEN NULL ELSE U.link[k]
  BY <1>9
<1>15. G \in [Insts -> Dirs] /\ \A k \in Insts \ {j} : G[k] = U.target[k]
  BY <1>1, <1>9, <1>10
<1> HIDE DEF N, C, M, K, G
<1>16. L \ {j} \in SUBSET Insts
  BY <1>1 DEF L
<1>17. /\ Z \in IxType /\ Z.live = L \ {j} /\ Z.name = N /\ Z.cont = C /\ Z.members = M
       /\ Z.link = K /\ Z.target = G /\ Z.key = U.key
  <2>1. /\ U.key \in Keys /\ N \in [Insts -> Label] /\ C \in [Insts -> Dirs]
        /\ M \in [Insts -> SUBSET Insts] /\ K \in [Insts -> Insts \cup {NULL}] /\ G \in [Insts -> Dirs]
    BY <1>5, <1>11, <1>12, <1>13, <1>14, <1>15 DEF IxType
  <2>2. Z = [live |-> L \ {j}, name |-> N, cont |-> C, key |-> U.key, members |-> M, link |-> K, target |-> G]
    BY <1>5, <1>8 DEF IxType
  <2> QED
    BY <1>16, <2>1, <2>2 DEF IxType
<1>18. L \ {j} = S.live \ (D \cup {j})
  BY DEF L
<1>19. KeysOf(Z, q, L \ {j})
  BY <1>5, <1>17 DEF KeysOf
<1>20. \A k \in S.live \ (D \cup {j}) : N[k] = S.name[k] /\ C[k] = S.cont[k]
  <2>1. \A k \in S.live \ D : T.name[k] = S.name[k] /\ T.cont[k] = S.cont[k]
    BY DEF Partway
  <2> QED
    BY <2>1, <1>1, <1>5, <1>11, <1>12
<1>21. \A k \in Insts : K[k] = IF k \in D \cup {j} \/ S.link[k] \in D \cup {j} THEN NULL ELSE S.link[k]
  <2>1. \A k \in Insts : T.link[k] = IF k \in D \/ S.link[k] \in D THEN NULL ELSE S.link[k]
    BY DEF Partway
  <2> QED
    BY <2>1, <1>1, <1>5, <1>14
<1>22. \A k \in Insts \ (D \cup {j}) : G[k] = S.target[k]
  <2>1. \A k \in Insts \ D : T.target[k] = S.target[k]
    BY DEF Partway
  <2> QED
    BY <2>1, <1>5, <1>15
<1>23. ASSUME NEW c \in Insts, NEW k \in M[c]
       PROVE  k \in S.members[c] /\ k \notin D \cup {j} /\ c \notin D \cup {j}
  <2>1. c # j /\ k \in U.members[c]
    BY <1>13
  <2>2. k \in T.members[c] /\ ~(k = j /\ c \in L /\ q[c] = Front(q[j]))
    BY <2>1, <1>5
  <2>3. k \in S.members[c] /\ k \notin D /\ c \notin D
    BY <2>2 DEF Partway
  <2>4. c \in S.live /\ PathOf(S, c) = S.cont[k]
    BY <2>3 DEF PathInv, Listed
  <2>5. k # j
    <3>1. Front(PathOf(S, j)) = S.cont[j]
      BY <1>1, PathOfIs
    <3> QED
      BY <2>2, <2>3, <2>4, <3>1, <1>1 DEF L
  <2> QED
    BY <2>1, <2>3, <2>5
<1> QED
  BY <1>17, <1>18, <1>19, <1>20, <1>21, <1>22, <1>23 DEF Partway, q

\* When nothing is left inside what has gone, the index is true.
LEMMA PartwayInv ==
    ASSUME NEW S, PathInv(S), NEW D, Root \notin D, NEW T, Partway(S, D, T),
           \A j \in S.live \ D : \A c \in D : PathOf(S, c) # S.cont[j]
    PROVE  /\ PathInv(T) /\ T.live = S.live \ D
           /\ \A j \in T.live : ResolvePath(T, T.cont[j]) = ResolvePath(S, S.cont[j])
<1> DEFINE L == S.live \ D
<1>1. S \in IxType /\ S.live \subseteq Insts /\ Root \in L
  BY InvFacts
<1>2. T \in IxType /\ T.live = L /\ KeysOf(T, Paths(S), L)
  BY DEF Partway
<1>3. \A j \in L : T.name[j] = S.name[j] /\ T.cont[j] = S.cont[j]
  BY DEF Partway
<1>4. \A j \in L : PathOf(T, j) = PathOf(S, j) /\ Paths(T)[j] = Paths(S)[j]
  BY <1>1, <1>3 DEF PathOf, Paths
<1>5. Rooted(T)
  BY <1>1, <1>2, <1>3 DEF PathInv, Rooted
<1>6. Keyed(T)
  BY <1>2, <1>4 DEF Keyed, KeysOf
<1>7. \A j \in L \ {Root} : \E c \in L : PathOf(S, c) = S.cont[j]
  BY DEF PathInv, Homed
<1>8. Homed(T)
  BY <1>2, <1>3, <1>4, <1>7 DEF Homed
<1>9. Listed(T)
  <2> SUFFICES ASSUME NEW c \in Insts, NEW j \in T.members[c]
               PROVE  j \in L \ {Root} /\ c \in L /\ PathOf(T, c) = T.cont[j]
    BY <1>2 DEF Listed
  <2>1. j \in S.members[c] /\ j \notin D /\ c \notin D
    BY DEF Partway
  <2>2. j \in S.live \ {Root} /\ c \in S.live /\ PathOf(S, c) = S.cont[j]
    BY <2>1 DEF PathInv, Listed
  <2> QED
    BY <2>1, <2>2, <1>3, <1>4
<1>10. Spelt(T)
  BY <1>2, <1>4 DEF PathInv, Spelt
<1>11. Aliased(T)
  <2> SUFFICES ASSUME NEW j \in Insts, T.link[j] # NULL
               PROVE  j \in L /\ T.link[j] \in L /\ T.target[j] = PathOf(T, T.link[j])
    BY <1>2 DEF Aliased
  <2>1. T.link[j] = S.link[j] /\ j \notin D /\ S.link[j] \notin D /\ S.link[j] # NULL
    BY DEF Partway
  <2>2. j \in S.live /\ S.link[j] \in S.live /\ S.target[j] = PathOf(S, S.link[j])
    BY <2>1 DEF PathInv, Aliased
  <2>3. T.target[j] = S.target[j]
    BY <2>1 DEF Partway
  <2> QED
    BY <2>1, <2>2, <2>3, <1>4
<1>12. PathInv(T)
  BY <1>2, <1>5, <1>6, <1>8, <1>9, <1>10, <1>11 DEF PathInv
<1>13. ASSUME NEW j \in L  PROVE ResolvePath(T, T.cont[j]) = ResolvePath(S, S.cont[j])
  <2>1. CASE j = Root
    <3>1. T.cont[j] = <<>> /\ S.cont[j] = <<>>
      BY <2>1, <1>5 DEF PathInv, Rooted
    <3> QED
      BY <3>1, <1>12, InvFacts
  <2>2. CASE j # Root
    <3>1. PICK c \in L : PathOf(S, c) = S.cont[j]
      BY <2>2, <1>7
    <3>2. ResolvePath(S, S.cont[j]) = c
      BY <3>1, InvFacts
    <3>3. PathOf(T, c) = T.cont[j] /\ c \in T.live
      BY <3>1, <1>2, <1>3, <1>4
    <3>4. ResolvePath(T, T.cont[j]) = c
      BY <3>3, <1>12, InvFacts
    <3> QED
      BY <3>2, <3>4
  <2> QED
    BY <2>1, <2>2
<1> QED
  BY <1>2, <1>12, <1>13

\* What delete-instance takes, and that nothing is left inside it.
LEMMA DoomedIs ==
    ASSUME NEW S, PathInv(S), NEW p, NEW i, i = ResolvePath(S, p), i \notin {NULL, Root},
           NEW D, D = {i} \cup Inside(S, p)
    PROVE  /\ D \subseteq S.live /\ Root \notin D /\ IsFiniteSet(D)
           /\ \A j \in S.live \ D : \A c \in D : PathOf(S, c) # S.cont[j]
<1>1. i \in S.live /\ PathOf(S, i) = p /\ p \in Dirs /\ p # <<>>
  BY InvFacts
<1>2. D \subseteq S.live /\ S.live \subseteq Insts /\ S \in IxType
  BY <1>1, InvFacts DEF Inside
<1>3. \A j \in S.live : j \in D <=> IsPrefix(p, PathOf(S, j))
  <2> SUFFICES ASSUME NEW j \in S.live  PROVE j \in D <=> IsPrefix(p, PathOf(S, j))
    OBVIOUS
  <2>1. IsPrefix(p, p)
    BY <1>1, BeginsFront
  <2>2. HasPath(S, j) /\ (PathOf(S, j) = p => j = i)
    BY <1>1, InvFacts
  <2> QED
    BY <1>1, <2>1, <2>2 DEF Inside, IsStrictPrefix
<1>4. Root \notin D
  <2>1. Root \in S.live /\ PathOf(S, Root) \in Dirs /\ Len(PathOf(S, Root)) = 1
    BY InvFacts, RootDepth
  <2>3. Len(p) > 1 /\ Len(p) \in Nat
    BY <1>1, Deep
  <2> QED
    BY <1>1, <1>3, <2>1, <2>3, Begins
<1>5. IsFiniteSet(D)
  BY <1>2, FS_Subset, PathIndexAssumption
<1>6. ASSUME NEW j \in S.live \ D, NEW c \in D, PathOf(S, c) = S.cont[j]  PROVE FALSE
  <2>1. PathOf(S, j) \in Dirs /\ PathOf(S, j) # <<>> /\ Front(PathOf(S, j)) = S.cont[j]
    BY <1>2, PathOfIs
  <2>2. IsPrefix(p, S.cont[j])
    BY <1>2, <1>3, <1>6
  <2> QED
    BY <1>1, <1>3, <2>1, <2>2, BeginsFront
<1> QED
  BY <1>2, <1>4, <1>5, <1>6

\* The states the loop of delete-instance goes through.
DeleteRound(S, order, p, T, k) ==
    DeleteInstance(UnregisterPath(T, IF order[k] = ResolvePath(S, p) THEN p ELSE PathOf(S, order[k])), order[k])

IsDeleting(S, order, p, m, f) ==
    f = [k \in 0 .. m |-> IF k = 0 THEN S ELSE DeleteRound(S, order, p, f[k - 1], k)]

LEMMA DeletingExists ==
    ASSUME NEW S, NEW order, NEW p, NEW n \in Nat
    PROVE  \E f : IsDeleting(S, order, p, n, f)
<1> DEFINE G == {m \in 0 .. n : \E f : IsDeleting(S, order, p, m, f)}
<1>1. 0 \in G
  <2> DEFINE f == [k \in 0 .. 0 |-> S]
  <2>1. f = [k \in 0 .. 0 |-> IF k = 0 THEN S ELSE DeleteRound(S, order, p, f[k - 1], k)]
    OBVIOUS
  <2> HIDE DEF f
  <2>2. IsDeleting(S, order, p, 0, f)
    BY <2>1 DEF IsDeleting
  <2> QED
    BY <2>2
<1>2. ASSUME NEW m \in Nat, m < n, m \in G  PROVE m + 1 \in G
  <2>1. PICK f : IsDeleting(S, order, p, m, f)
    BY <1>2
  <2>2. \A k \in 0 .. m : f[k] = IF k = 0 THEN S ELSE DeleteRound(S, order, p, f[k - 1], k)
    BY <2>1 DEF IsDeleting
  <2> DEFINE g == [k \in 0 .. m + 1 |-> IF k <= m THEN f[k] ELSE DeleteRound(S, order, p, f[m], m + 1)]
  <2>3. ASSUME NEW k \in 0 .. m + 1
        PROVE  g[k] = IF k = 0 THEN S ELSE DeleteRound(S, order, p, g[k - 1], k)
    <3>1. CASE k <= m
      <4>1. k \in 0 .. m /\ (k # 0 => k - 1 \in 0 .. m + 1 /\ k - 1 <= m)
        BY <3>1
      <4> QED
        BY <2>2, <4>1
    <3>2. CASE k = m + 1
      <4>1. k # 0 /\ k - 1 = m /\ m \in 0 .. m + 1 /\ ~(k <= m) /\ m <= m
        BY <3>2
      <4> QED
        BY <3>2, <4>1
    <3> QED
      BY <3>1, <3>2
  <2>4. g = [k \in 0 .. m + 1 |-> g[k]]
    OBVIOUS
  <2> HIDE DEF g
  <2>5. IsDeleting(S, order, p, m + 1, g)
    BY <2>3, <2>4 DEF IsDeleting
  <2> QED
    BY <1>2, <2>5
<1> HIDE DEF G
<1>3. n \in G
  BY <1>1, <1>2, UpTo
<1> QED
  BY <1>3 DEF G

\* The whole loop: everything that was collected is gone.
LEMMA DeleteRuns ==
    ASSUME NEW S, PathInv(S), NEW p, ResolvePath(S, p) \notin {NULL, Root},
           NEW D, D = {ResolvePath(S, p)} \cup Inside(S, p), NEW order \in SetToSeqs(D)
    PROVE  Partway(S, D, DeleteEach(S, order, p))
<1> DEFINE n == Len(order)
           run == CHOOSE f : IsDeleting(S, order, p, n, f)
           seen(m) == {order[k] : k \in 1 .. m}
<1>1. D \subseteq S.live /\ IsFiniteSet(D)
  BY DoomedIs
<1>2. /\ n \in Nat /\ \A k \in 1 .. n : order[k] \in D
      /\ \A j, k \in 1 .. n : j # k => order[j] # order[k]
      /\ seen(n) = D
  BY <1>1, Orders
<1>3. IsDeleting(S, order, p, n, run)
  <2>1. \E f : IsDeleting(S, order, p, n, f)
    BY <1>2, DeletingExists
  <2> QED
    BY <2>1
<1>4. DeleteEach(S, order, p) = run[n]
  BY DEF DeleteEach, IsDeleting, DeleteRound
<1>5. \A j \in S.live : (IF j = ResolvePath(S, p) THEN p ELSE PathOf(S, j)) = PathOf(S, j)
  BY InvFacts
<1> HIDE DEF run, n
<1>6. run[0] = S /\ \A k \in 1 .. n : run[k] = DeleteInstance(UnregisterPath(run[k - 1], PathOf(S, order[k])), order[k])
  <2>1. run[0] = S /\ \A k \in 1 .. n : run[k] = DeleteRound(S, order, p, run[k - 1], k)
    BY <1>2, <1>3 DEF IsDeleting
  <2>2. \A k \in 1 .. n : order[k] \in S.live
    BY <1>1, <1>2
  <2> QED
    BY <1>5, <2>1, <2>2 DEF DeleteRound
<1> DEFINE G == {m \in 0 .. n : Partway(S, seen(m), run[m])}
<1>7. 0 \in G
  <2>1. seen(0) = {}
    OBVIOUS
  <2>2. 0 \in 0 .. n
    BY <1>2
  <2> HIDE DEF seen
  <2> QED
    BY <2>1, <2>2, <1>6, PartwayNone
<1>8. ASSUME NEW m \in Nat, m < n, m \in G  PROVE m + 1 \in G
  <2> DEFINE j == order[m + 1]
  <2>1. m + 1 \in 1 .. n /\ (m + 1) - 1 = m /\ m + 1 \in 0 .. n
    BY <1>2, <1>8
  <2>2. j \in S.live /\ \A k \in 1 .. m : order[k] # j
    <3>1. \A k \in 1 .. m : k \in 1 .. n /\ k # m + 1
      BY <2>1, <1>2
    <3> QED
      BY <1>1, <1>2, <2>1, <3>1
  <2>3. seen(m + 1) = seen(m) \cup {j}
    <3>1. \A k \in Int : k \in 1 .. m + 1 <=> k \in 1 .. m \/ k = m + 1
      OBVIOUS
    <3> QED
      BY <3>1
  <2>4. j \notin seen(m)
    BY <2>2
  <2>5. run[m + 1] = DeleteInstance(UnregisterPath(run[m], PathOf(S, j)), j)
    BY <1>6, <2>1
  <2> HIDE DEF j, seen
  <2>6. Partway(S, seen(m), run[m])
    BY <1>8
  <2>7. Partway(S, seen(m) \cup {j}, run[m + 1])
    BY <2>2, <2>4, <2>5, <2>6, DeleteStep
  <2> QED
    BY <2>1, <2>3, <2>7
<1>9. n \in G
  <2> HIDE DEF G, seen
  <2>1. n \in Nat /\ \A m \in Nat : m < n /\ m \in G => m + 1 \in G
    BY <1>2, <1>8
  <2>2. \A m \in 0 .. n : m \in G
    BY <1>7, <2>1, UpTo
  <2> QED
    BY <2>1, <2>2
<1> QED
  <2> HIDE DEF seen
  <2> QED
    BY <1>2, <1>4, <1>9

-----------------------------------------------------------------------------
(* Creating *)

\* The index with one instance more, which may be an alias.
Grown(S, i, p, T) ==
    /\ T \in IxType /\ T.live = S.live \cup {i}
    /\ KeysOf(T, [Paths(S) EXCEPT ![i] = p], S.live \cup {i})
    /\ T.name[i] = Last(p) /\ T.cont[i] = Front(p)
    /\ \A k \in S.live : T.name[k] = S.name[k] /\ T.cont[k] = S.cont[k]
    /\ \A c \in Insts : \A k \in T.members[c] :
          k \in S.members[c] \/ (k = i /\ c \in S.live /\ PathOf(S, c) = Front(p))
    /\ \A k \in Insts \ {i} : T.link[k] = S.link[k] /\ T.target[k] = S.target[k]
    /\ T.link[i] # NULL => T.link[i] \in S.live /\ T.target[i] = PathOf(S, T.link[i])

\* It is true if the container is there.
LEMMA CreatedInv ==
    ASSUME NEW S, PathInv(S), NEW i \in Insts \ S.live, NEW p \in Dirs, p # <<>>, Lettered(p),
           NEW h \in S.live, PathOf(S, h) = Front(p), NEW T, Grown(S, i, p, T)
    PROVE  /\ PathInv(T)
           /\ \A j \in S.live : ResolvePath(T, T.cont[j]) = ResolvePath(S, S.cont[j])
<1> DEFINE r == [Paths(S) EXCEPT ![i] = p]
<1>0. /\ T \in IxType /\ T.live = S.live \cup {i} /\ KeysOf(T, r, S.live \cup {i})
      /\ T.name[i] = Last(p) /\ T.cont[i] = Front(p)
      /\ \A k \in S.live : T.name[k] = S.name[k] /\ T.cont[k] = S.cont[k]
      /\ \A c \in Insts : \A k \in T.members[c] :
            k \in S.members[c] \/ (k = i /\ c \in S.live /\ PathOf(S, c) = Front(p))
      /\ \A k \in Insts \ {i} : T.link[k] = S.link[k] /\ T.target[k] = S.target[k]
      /\ T.link[i] # NULL => T.link[i] \in S.live /\ T.target[i] = PathOf(S, T.link[i])
  BY DEF Grown
<1>a. r[i] = p /\ \A k \in S.live : r[k] = PathOf(S, k)
  <2>1. S.live \subseteq Insts
    BY InvFacts
  <2> QED
    BY <2>1 DEF Paths
<1> HIDE DEF r
<1> DEFINE L == S.live
<1>1. S \in IxType /\ L \subseteq Insts /\ Root \in L /\ i # Root
  BY InvFacts
<1>2. PathOf(T, i) = p /\ \A k \in L : PathOf(T, k) = PathOf(S, k)
  BY <1>0, FrontLast DEF PathOf
<1>3. \A k \in L \cup {i} : Paths(T)[k] = r[k]
  BY <1>a, <1>1, <1>2 DEF Paths
<1>4. Rooted(T)
  BY <1>0, <1>1 DEF PathInv, Rooted
<1>5. Keyed(T)
  BY <1>0, <1>3 DEF Keyed, KeysOf
<1>6. Homed(T)
  <2>1. \A j \in L \ {Root} : \E c \in L : PathOf(S, c) = S.cont[j]
    BY DEF PathInv, Homed
  <2> QED
    BY <1>0, <1>2, <2>1 DEF Homed
<1>7. Listed(T)
  <2>1. \A c \in Insts : \A j \in S.members[c] : j \in L \ {Root} /\ c \in L /\ PathOf(S, c) = S.cont[j]
    BY DEF PathInv, Listed
  <2> QED
    BY <1>0, <1>1, <1>2, <2>1 DEF Listed
<1>8. Spelt(T)
  <2>1. \A j \in L : Lettered(PathOf(S, j))
    BY DEF PathInv, Spelt
  <2> QED
    BY <1>0, <1>2, <2>1 DEF Spelt
<1>9. Aliased(T)
  <2>1. \A j \in Insts : S.link[j] # NULL => j \in L /\ S.link[j] \in L /\ S.target[j] = PathOf(S, S.link[j])
    BY DEF PathInv, Aliased
  <2> QED
    BY <1>0, <1>2, <2>1 DEF Aliased
<1>10. PathInv(T)
  BY <1>0, <1>4, <1>5, <1>6, <1>7, <1>8, <1>9 DEF PathInv
<1>11. ASSUME NEW j \in L  PROVE ResolvePath(T, T.cont[j]) = ResolvePath(S, S.cont[j])
  <2>1. CASE j = Root
    <3>1. T.cont[j] = <<>> /\ S.cont[j] = <<>>
      BY <2>1, <1>4 DEF PathInv, Rooted
    <3> QED
      BY <3>1, <1>10, InvFacts
  <2>2. CASE j # Root
    <3>1. PICK c \in L : PathOf(S, c) = S.cont[j]
      BY <2>2 DEF PathInv, Homed
    <3>2. ResolvePath(S, S.cont[j]) = c
      BY <3>1, InvFacts
    <3>3. PathOf(T, c) = T.cont[j] /\ c \in T.live
      BY <3>1, <1>0, <1>2
    <3>4. ResolvePath(T, T.cont[j]) = c
      BY <3>3, <1>10, InvFacts
    <3> QED
      BY <3>2, <3>4
  <2> QED
    BY <2>1, <2>2
<1> QED
  BY <1>10, <1>11

\* CreateObject gives the new instance a path and a place in its container.
MadeAs(S, i, p, T) ==
    /\ T \in IxType /\ T.live = S.live \cup {i} /\ T.link = S.link /\ T.target = S.target
    /\ KeysOf(T, [Paths(S) EXCEPT ![i] = p], S.live \cup {i})
    /\ T.name[i] = Last(p) /\ T.cont[i] = Front(p)
    /\ \A k \in S.live : T.name[k] = S.name[k] /\ T.cont[k] = S.cont[k]
    /\ \A c \in Insts : \A k \in T.members[c] :
          k \in S.members[c] \/ (k = i /\ c \in S.live /\ PathOf(S, c) = Front(p))

LEMMA MakeIs ==
    ASSUME NEW S, PathInv(S), NEW i \in Insts \ S.live, NEW p \in Dirs, p # <<>>, Lettered(p),
           NEW h \in S.live, PathOf(S, h) = Front(p), ResolvePath(S, p) = NULL,
           NEW T, T = RegisterPath([S EXCEPT !.live = @ \cup {i}, !.cont[i] = Front(p)], p, i)
    PROVE  MadeAs(S, i, p, T)
<1> DEFINE L == S.live
           q == Paths(S)
           r == [Paths(S) EXCEPT ![i] = p]
           C == [S.cont EXCEPT ![i] = Front(p)]
           B == [S EXCEPT !.live = L \cup {i}, !.cont = C]
<1>1. S \in IxType /\ L \subseteq Insts /\ i \notin L /\ i \in Insts /\ Front(p) \in Dirs
  BY InvFacts, FrontLast
<1>2. \A k \in L : q[k] = PathOf(S, k)
  BY <1>1 DEF Paths
<1>3. r[i] = p /\ \A k \in L : r[k] = q[k]
  BY <1>1 DEF Paths
<1>4. C \in [Insts -> Dirs] /\ C[i] = Front(p) /\ \A k \in L : C[k] = S.cont[k]
  BY <1>1 DEF IxType
<1>5. T = RegisterPath(B, p, i)
  <2>1. B = [S EXCEPT !.live = @ \cup {i}, !.cont[i] = Front(p)]
    BY <1>1 DEF IxType
  <2> QED
    BY <2>1
<1>6. L \cup {i} \in SUBSET Insts
  BY <1>1
<1> HIDE DEF q, r, C
<1>7. /\ B \in IxType /\ B.live = L \cup {i} /\ B.cont = C /\ B.name = S.name /\ B.key = S.key
      /\ B.members = S.members /\ B.link = S.link /\ B.target = S.target
  BY <1>1, <1>4, <1>6 DEF IxType
<1> HIDE DEF B
<1>8. KeysOf(B, q, L)
  BY <1>7 DEF PathInv, Keyed, KeysOf, q
<1>9. \A k \in L : q[k] # p
  <2>1. \A k \in L : PathOf(S, k) # p
    BY InvFacts, PathIndexAssumption
  <2> QED
    BY <1>2, <2>1
<1>10. Entered(B, q, L, i, p, r, T)
  <2>1. i \in Insts \ L
    BY <1>1
  <2>2. ~IsShort(p)
    BY LetteredLong
  <2> QED
    BY <1>3, <1>5, <1>7, <1>8, <1>9, <2>1, <2>2, RegisterIs
<1>11. /\ T \in IxType /\ KeysOf(T, r, L \cup {i}) /\ T.live = B.live /\ T.link = B.link /\ T.target = B.target
       /\ T.name = [B.name EXCEPT ![i] = Last(p)]
       /\ (\E c \in L : q[c] = Front(p)) => T.cont = [B.cont EXCEPT ![i] = Front(p)]
       /\ \A c \in Insts : \A k \in T.members[c] :
             k \in B.members[c] \/ (k = i /\ c \in L /\ q[c] = Front(p))
  BY <1>10 DEF Entered
<1>12. T.cont = [C EXCEPT ![i] = Front(p)]
  BY <1>2, <1>7, <1>11
<1>13. T.name[i] = Last(p) /\ \A k \in L : T.name[k] = S.name[k]
  <2>1. S.name \in [Insts -> Label]
    BY <1>1 DEF IxType
  <2> QED
    BY <1>1, <1>7, <1>11, <2>1
<1>14. T.cont[i] = Front(p) /\ \A k \in L : T.cont[k] = S.cont[k]
  BY <1>1, <1>4, <1>12
<1>15. \A c \in Insts : \A k \in T.members[c] :
          k \in S.members[c] \/ (k = i /\ c \in L /\ PathOf(S, c) = Front(p))
  BY <1>2, <1>7, <1>11
<1> QED
  BY <1>7, <1>11, <1>13, <1>14, <1>15 DEF MadeAs, r

\* What a command may do to the index: leave it true, and change the container
\* of one instance at most.
Sound(S, T) ==
    /\ PathInv(T)
    /\ \E i : \A j \in S.live \cap T.live : j # i => ResolvePath(T, T.cont[j]) = ResolvePath(S, S.cont[j])

\* Clients that do nothing the code does not cope with, and names none of which
\* begins another.
Tidy == Rash = {} /\ Distinct

LEMMA GivenNames ==
    /\ \A n \in Names : n \in Label /\ n \in Names \cup {RootName}
    /\ RootName \in Label
<1>1. \A n \in Names : n \in Label
  BY PathIndexAssumption DEF Label
<1> QED
  BY <1>1 DEF Label, RootName

\* The path of something new in a container.
LEMMA InContainer ==
    ASSUME NEW S, PathInv(S), NEW c \in S.live, NEW n \in Label, n \in Names \cup {RootName},
           NEW p, p = Append(PathOf(S, c), n)
    PROVE  /\ p \in Dirs /\ p # <<>> /\ Front(p) = PathOf(S, c) /\ Last(p) = n
           /\ Lettered(p)
<1>1. PathOf(S, c) \in Dirs
  BY InvFacts
<1>2. Lettered(PathOf(S, c))
  BY DEF PathInv, Spelt
<1>3. p \in Dirs /\ p # <<>> /\ Front(p) = PathOf(S, c) /\ Last(p) = n
  BY <1>1, OfAppend
<1>4. Lettered(p)
  BY <1>1, <1>2, LetteredAppend
<1> QED
  BY <1>3, <1>4

LEMMA CreateSound ==
    ASSUME Tidy, PathInv(ix), NEW i \in Insts, NEW c \in Insts, NEW n \in Names, NEW short \in BOOLEAN,
           Create(i, c, n, short)
    PROVE  Sound(ix, ix')
<1> DEFINE p == Append(PathOf(ix, c), n)
<1>1. i \notin ix.live /\ c \in ix.live /\ ResolvePath(ix, p) = NULL /\ ~short
  BY DEF Create, Tidy, Taken
<1>2. p \in Dirs /\ p # <<>> /\ Front(p) = PathOf(ix, c) /\ Lettered(p)
  BY <1>1, GivenNames, InContainer
<1>3. ix' = RegisterPath([ix EXCEPT !.live = @ \cup {i}, !.cont[i] = Front(p)], p, i)
  BY <1>1, <1>2 DEF Create
<1> HIDE DEF p
<1> DEFINE T == ix'
<1>4. MadeAs(ix, i, p, T)
  <2>1. i \in Insts \ ix.live
    BY <1>1
  <2>2. T = RegisterPath([ix EXCEPT !.live = @ \cup {i}, !.cont[i] = Front(p)], p, i)
    BY <1>3
  <2> HIDE DEF T
  <2> QED
    BY <1>1, <1>2, <2>1, <2>2, MakeIs
<1>5. ix.link[i] = NULL
  BY <1>1 DEF PathInv, Aliased
<1> HIDE DEF T
<1>6. Grown(ix, i, p, T)
  BY <1>4, <1>5 DEF Grown, MadeAs
<1>7. PathInv(T) /\ \A j \in ix.live : ResolvePath(T, T.cont[j]) = ResolvePath(ix, ix.cont[j])
  BY <1>1, <1>2, <1>6, CreatedInv
<1> QED
  BY <1>7 DEF Sound, T

\* The alias as the bridge has it before it registers a name: under the minted
\* one, with its link, its Target and the Container it was given.
AliasMade(S, i, m, container, B) ==
    /\ B \in IxType /\ B.live = S.live \cup {i}
    /\ KeysOf(B, [Paths(S) EXCEPT ![i] = m], S.live \cup {i})
    /\ B.name[i] = Last(m) /\ B.cont[i] = container
    /\ \A k \in S.live : B.name[k] = S.name[k] /\ B.cont[k] = S.cont[k]
    /\ \A d \in Insts : \A k \in B.members[d] :
          k \in S.members[d] \/ (k = i /\ d \in S.live /\ PathOf(S, d) = Front(m))
    /\ \A k \in Insts \ {i} : B.link[k] = S.link[k] /\ B.target[k] = S.target[k]
    /\ B.link[i] # NULL => B.link[i] \in S.live /\ B.target[i] = PathOf(S, B.link[i])

LEMMA AliasIs ==
    ASSUME NEW S, PathInv(S), NEW i \in Insts \ S.live, NEW m \in Dirs, m # <<>>,
           NEW owner \in S.live, NEW container \in Dirs,
           NEW A, MadeAs(S, i, m, A),
           NEW B, B = [A EXCEPT !.link[i] = owner, !.cont[i] = container,
                                !.target[i] = IF HasPath(A, owner) THEN PathOf(A, owner) ELSE @]
    PROVE  AliasMade(S, i, m, container, B)
<1> DEFINE L == S.live
           r == [Paths(S) EXCEPT ![i] = m]
           K == [A.link EXCEPT ![i] = owner]
           G == [A.target EXCEPT ![i] = PathOf(S, owner)]
           C == [A.cont EXCEPT ![i] = container]
<1>1. S \in IxType /\ L \subseteq Insts /\ owner \in Insts /\ i \notin L /\ PathOf(S, owner) \in Dirs
  BY InvFacts
<1>2. /\ A \in IxType /\ A.live = L \cup {i} /\ A.link = S.link /\ A.target = S.target
      /\ KeysOf(A, r, L \cup {i}) /\ A.name[i] = Last(m)
      /\ \A k \in L : A.name[k] = S.name[k] /\ A.cont[k] = S.cont[k]
      /\ \A d \in Insts : \A k \in A.members[d] :
            k \in S.members[d] \/ (k = i /\ d \in L /\ PathOf(S, d) = Front(m))
  BY DEF MadeAs
<1>3. r[owner] = PathOf(S, owner) /\ PathOf(A, owner) = PathOf(S, owner)
  BY <1>1, <1>2 DEF Paths, PathOf
<1> HIDE DEF r
<1>4. HasPath(A, owner)
  <2>1. ResolvePath(A, r[owner]) = owner
    BY <1>2, PathLeads
  <2> QED
    BY <1>3, <2>1 DEF HasPath
<1>5. B = [A EXCEPT !.link = K, !.cont = C, !.target = G]
  BY <1>2, <1>3, <1>4 DEF IxType
<1>6. /\ K \in [Insts -> Insts \cup {NULL}] /\ K[i] = owner /\ \A k \in Insts \ {i} : K[k] = S.link[k]
      /\ G \in [Insts -> Dirs] /\ G[i] = PathOf(S, owner) /\ \A k \in Insts \ {i} : G[k] = S.target[k]
  BY <1>1, <1>2 DEF IxType
<1>7. C \in [Insts -> Dirs] /\ C[i] = container /\ \A k \in L : C[k] = S.cont[k]
  BY <1>1, <1>2 DEF IxType
<1> HIDE DEF K, G, C
<1>8. /\ B \in IxType /\ B.live = L \cup {i} /\ B.link = K /\ B.target = G /\ B.key = A.key
      /\ B.name = A.name /\ B.cont = C /\ B.members = A.members
  <2>1. A \in IxType /\ A.live = L \cup {i}
    BY <1>2
  <2>2. K \in [Insts -> Insts \cup {NULL}] /\ G \in [Insts -> Dirs] /\ C \in [Insts -> Dirs]
    BY <1>6, <1>7
  <2> QED
    BY ONLY <2>1, <2>2, <1>5 DEF IxType
<1>9. KeysOf(B, r, L \cup {i})
  BY <1>2, <1>8 DEF KeysOf
<1> QED
  BY <1>2, <1>6, <1>7, <1>8, <1>9 DEF AliasMade, r

\* It keeps the minted name.
LEMMA AliasKept ==
    ASSUME NEW S, PathInv(S), NEW i \in Insts \ S.live, NEW m \in Dirs, m # <<>>, Lettered(m),
           NEW c \in S.live, PathOf(S, c) = Front(m),
           NEW container, NEW B, AliasMade(S, i, m, container, B),
           NEW T, T = RegisterPath(B, m, i)
    PROVE  Grown(S, i, m, T)
<1> DEFINE L == S.live
           r == [Paths(S) EXCEPT ![i] = m]
<1>1. L \subseteq Insts /\ i \notin L /\ ~IsShort(m)
  BY InvFacts, LetteredLong
<1>2. r[i] = m /\ r[c] = Front(m)
  BY <1>1 DEF Paths
<1>3. /\ B \in IxType /\ B.live = L \cup {i} /\ KeysOf(B, r, L \cup {i}) /\ B.name[i] = Last(m)
      /\ \A k \in L : B.name[k] = S.name[k] /\ B.cont[k] = S.cont[k]
      /\ \A d \in Insts : \A k \in B.members[d] :
            k \in S.members[d] \/ (k = i /\ d \in L /\ PathOf(S, d) = Front(m))
      /\ \A k \in Insts \ {i} : B.link[k] = S.link[k] /\ B.target[k] = S.target[k]
      /\ B.link[i] # NULL => B.link[i] \in L /\ B.target[i] = PathOf(S, B.link[i])
  BY DEF AliasMade
<1> HIDE DEF r
<1>4. /\ T \in IxType /\ T.key = B.key /\ T.name = B.name /\ T.live = B.live
      /\ T.link = B.link /\ T.target = B.target
      /\ T.cont = [B.cont EXCEPT ![i] = Front(m)]
      /\ \A d \in Insts : \A k \in T.members[d] : k \in B.members[d] \/ (k = i /\ d = c)
  <2>1. i \in L \cup {i} /\ c \in L \cup {i}
    OBVIOUS
  <2> QED
    BY <1>1, <1>2, <1>3, <2>1, AgainIs
<1>5. T.cont[i] = Front(m) /\ \A k \in L : T.cont[k] = S.cont[k]
  <2>1. B.cont \in [Insts -> Dirs]
    BY <1>3 DEF IxType
  <2> QED
    BY <1>1, <1>3, <1>4, <2>1
<1>6. KeysOf(T, r, L \cup {i})
  BY <1>3, <1>4 DEF KeysOf
<1>7. \A d \in Insts : \A k \in T.members[d] :
         k \in S.members[d] \/ (k = i /\ d \in L /\ PathOf(S, d) = Front(m))
  BY <1>3, <1>4
<1> QED
  BY <1>3, <1>4, <1>5, <1>6, <1>7 DEF Grown, r

\* Or it gets the name that was asked for, and the minted one is retired, because
\* the Container it was given is the one it was made in.
LEMMA AliasNamed ==
    ASSUME NEW S, PathInv(S), NEW i \in Insts \ S.live, NEW m \in Dirs, m # <<>>,
           NEW c \in S.live, PathOf(S, c) = Front(m),
           NEW p \in Dirs, p # <<>>, Lettered(p), Front(p) = Front(m), p # m, ResolvePath(S, p) = NULL,
           NEW B, AliasMade(S, i, m, Front(m), B),
           NEW T, T = RegisterPath(B, p, i)
    PROVE  Grown(S, i, p, T)
<1> DEFINE L == S.live
           r0 == [Paths(S) EXCEPT ![i] = m]
           r == [Paths(S) EXCEPT ![i] = p]
           U == UnregisterPath(B, m)
<1>1. L \subseteq Insts /\ i \notin L /\ ~IsShort(p)
  BY InvFacts, LetteredLong
<1>2. /\ r0[i] = m /\ r[i] = p
      /\ \A k \in L : r0[k] = PathOf(S, k) /\ r[k] = PathOf(S, k)
  BY <1>1 DEF Paths
<1>3. /\ B \in IxType /\ B.live = L \cup {i} /\ KeysOf(B, r0, L \cup {i})
      /\ B.name[i] = Last(m) /\ B.cont[i] = Front(m)
      /\ \A k \in L : B.name[k] = S.name[k] /\ B.cont[k] = S.cont[k]
      /\ \A d \in Insts : \A k \in B.members[d] :
            k \in S.members[d] \/ (k = i /\ d \in L /\ PathOf(S, d) = Front(m))
      /\ \A k \in Insts \ {i} : B.link[k] = S.link[k] /\ B.target[k] = S.target[k]
      /\ B.link[i] # NULL => B.link[i] \in L /\ B.target[i] = PathOf(S, B.link[i])
  BY DEF AliasMade
<1> HIDE DEF r0, r
<1>4. PathOf(B, i) = m
  BY <1>3, FrontLast DEF PathOf
<1>5. HasPath(B, i)
  <2>1. ResolvePath(B, r0[i]) = i
    BY <1>3, PathLeads
  <2> QED
    BY <1>2, <1>4, <2>1 DEF HasPath
<1>6. Unnamed(B, r0, L \cup {i}, i, U)
  BY <1>2, <1>3, UnregisterIs
<1> HIDE DEF U
<1>7. /\ U \in IxType /\ KeysOf(U, r0, (L \cup {i}) \ {i}) /\ U.live = B.live /\ U.name = B.name /\ U.cont = B.cont
      /\ U.link = B.link /\ U.target = B.target
      /\ \A d \in Insts : \A k \in U.members[d] : k \in B.members[d]
  BY <1>6 DEF Unnamed
<1>8. KeysOf(U, r0, L)
  <2>1. (L \cup {i}) \ {i} = L
    BY <1>1
  <2> QED
    BY <2>1, <1>7
<1>9. T = RegisterPath(U, p, i)
  <2>1. RetireOlder(B, p, i) = U
    BY <1>4, <1>5 DEF RetireOlder, U
  <2>2. ~HasPath(U, i)
    BY <1>1, <1>8, PathLeads
  <2>3. RetireOlder(U, p, i) = U
    BY <2>2 DEF RetireOlder
  <2>4. TakeName(B, p, i) = TakeName(U, p, i)
    BY <1>1, <2>1, <2>3 DEF TakeName
  <2> QED
    BY <2>4 DEF RegisterPath
<1>10. Entered(U, r0, L, i, p, r, T)
  <2>1. \A k \in L : r0[k] # p
    BY <1>1, <1>2, InvFacts, PathIndexAssumption
  <2>2. \A k \in L : r[k] = r0[k]
    BY <1>2
  <2> QED
    BY <1>1, <1>2, <1>7, <1>8, <1>9, <2>1, <2>2, RegisterIs
<1>11. /\ T \in IxType /\ KeysOf(T, r, L \cup {i}) /\ T.live = L \cup {i} /\ T.link = B.link /\ T.target = B.target
       /\ T.name = [B.name EXCEPT ![i] = Last(p)]
       /\ (\E d \in L : r0[d] = Front(p)) => T.cont = [B.cont EXCEPT ![i] = Front(p)]
       /\ \A d \in Insts : \A k \in T.members[d] :
             k \in U.members[d] \/ (k = i /\ d \in L /\ r0[d] = Front(p))
  BY <1>3, <1>7, <1>10 DEF Entered
<1>12. T.cont = [B.cont EXCEPT ![i] = Front(p)]
  BY <1>2, <1>11
<1>13. /\ T.name[i] = Last(p) /\ T.cont[i] = Front(p)
       /\ \A k \in L : T.name[k] = S.name[k] /\ T.cont[k] = S.cont[k]
  <2>1. B.name \in [Insts -> Label] /\ B.cont \in [Insts -> Dirs]
    BY <1>3 DEF IxType
  <2> QED
    BY <1>1, <1>3, <1>11, <1>12, <2>1
<1>14. \A d \in Insts : \A k \in T.members[d] :
          k \in S.members[d] \/ (k = i /\ d \in L /\ PathOf(S, d) = Front(p))
  <2> SUFFICES ASSUME NEW d \in Insts, NEW k \in T.members[d]
               PROVE  k \in S.members[d] \/ (k = i /\ d \in L /\ PathOf(S, d) = Front(p))
    OBVIOUS
  <2>1. k \in U.members[d] \/ (k = i /\ d \in L /\ r0[d] = Front(p))
    BY <1>11
  <2>2. k \in U.members[d] => k \in S.members[d] \/ (k = i /\ d \in L /\ PathOf(S, d) = Front(m))
    BY <1>3, <1>7
  <2> QED
    BY <1>2, <2>1, <2>2
<1> QED
  BY <1>3, <1>11, <1>13, <1>14 DEF Grown, r

\* create-alias: under the minted name first, and then under the one it keeps.
LEMMA CreateAliasSound ==
    ASSUME Tidy, PathInv(ix), NEW i \in Insts, NEW container, NEW t \in Insts, NEW minted \in Names,
           NEW as \in Asked(Home(container)), CreateAlias(i, container, t, minted, as)
    PROVE  Sound(ix, ix')
<1> DEFINE L == ix.live
           c == ResolvePath(ix, Home(container))
           home == PathOf(ix, c)
           owner == IF ix.link[t] = NULL THEN t ELSE ix.link[t]
           m == Append(home, minted)
           A == RegisterPath([ix EXCEPT !.live = @ \cup {i}, !.cont[i] = home], m, i)
           B == [A EXCEPT !.link[i] = owner, !.cont[i] = container,
                          !.target[i] = IF HasPath(A, owner) THEN PathOf(A, owner) ELSE @]
           kept == as = <<>> \/ Taken(B, as)
           T == ix'
<1>1. /\ i \notin L /\ t \in L /\ c # NULL /\ ResolvePath(ix, m) = NULL
      /\ ~kept => container # Canvas /\ ~IsShort(as)
      /\ T = RegisterPath(B, IF kept THEN Append(Home(container), minted) ELSE as, i)
  BY DEF CreateAlias, Taken, Tidy
<1>2. c \in L /\ home = Home(container) /\ home \in Dirs /\ ix \in IxType /\ L \subseteq Insts
  BY <1>1, InvFacts
<1>3. owner \in L
  <2>1. \A j \in Insts : ix.link[j] # NULL => ix.link[j] \in L
    BY DEF PathInv, Aliased
  <2> QED
    BY <1>1, <2>1
<1> HIDE DEF owner, c
<1>4. m \in Dirs /\ m # <<>> /\ Front(m) = home /\ Lettered(m)
  BY <1>2, GivenNames, InContainer
<1>5. MadeAs(ix, i, m, A)
  <2>1. A = RegisterPath([ix EXCEPT !.live = @ \cup {i}, !.cont[i] = Front(m)], m, i)
    BY <1>4
  <2>2. PathOf(ix, c) = Front(m) /\ i \in Insts \ ix.live
    BY <1>1, <1>4
  <2> HIDE DEF A, m, home
  <2> QED
    BY <1>1, <1>2, <1>4, <2>1, <2>2, MakeIs
<1>6. container \in Dirs /\ (container # Canvas => container = home)
  <2>1. Canvas \in Dirs
    BY DEF Canvas, Dirs
  <2> QED
    BY <1>2, <2>1 DEF Home
<1> HIDE DEF A
<1>7. AliasMade(ix, i, m, container, B)
  <2> HIDE DEF m, home
  <2>1. i \in Insts \ ix.live
    BY <1>1
  <2>2. B = [A EXCEPT !.link[i] = owner, !.cont[i] = container,
                      !.target[i] = IF HasPath(A, owner) THEN PathOf(A, owner) ELSE @]
    OBVIOUS
  <2> HIDE DEF B
  <2> QED
    BY <1>3, <1>4, <1>5, <1>6, <2>1, <2>2, AliasIs
<1> HIDE DEF B
<1>8. \E p \in Dirs : p # <<>> /\ Lettered(p) /\ Front(p) = home /\ Grown(ix, i, p, T)
  <2>1. CASE kept
    <3>1. T = RegisterPath(B, m, i)
      BY <2>1, <1>1, <1>2
    <3> HIDE DEF m, T, home
    <3>2. Grown(ix, i, m, T)
      BY <1>1, <1>2, <1>4, <1>7, <3>1, AliasKept DEF home
    <3> QED
      BY <1>4, <3>2
  <2>2. CASE ~kept
    <3>1. as # <<>> /\ ResolvePath(B, as) = NULL /\ T = RegisterPath(B, as, i) /\ container = home /\ ~IsShort(as)
      BY <2>2, <1>1, <1>6 DEF Taken
    <3>2. PICK n \in Names : as = Append(home, n)
      <4>1. \A n \in Names : IsShort(ShortKey(n))
        BY DEF IsShort, ShortKey
      <4> QED
        BY <3>1, <4>1, <1>2 DEF Asked
    <3>3. as \in Dirs /\ as # <<>> /\ Front(as) = home /\ Lettered(as)
      BY <1>2, <3>2, GivenNames, InContainer
    <3> DEFINE r0 == [Paths(ix) EXCEPT ![i] = m]
    <3>4. \A j \in L \cup {i} : ResolvePath(B, r0[j]) = j /\ j # NULL
      <4>1. KeysOf(B, r0, L \cup {i})
        BY <1>7 DEF AliasMade
      <4> HIDE DEF r0
      <4> QED
        BY <4>1, <1>2, PathLeads, PathIndexAssumption
    <3>5. r0[i] = m /\ \A j \in L : r0[j] = PathOf(ix, j)
      BY <1>1, <1>2 DEF Paths
    <3> HIDE DEF r0, m, T, home
    <3>6. as # m /\ ResolvePath(ix, as) = NULL
      <4>1. as # m
        BY <3>1, <3>4, <3>5
      <4>2. \A j \in L : PathOf(ix, j) # as
        BY <3>1, <3>4, <3>5
      <4> QED
        BY <4>1, <4>2, InvFacts
    <3>7. Grown(ix, i, as, T)
      BY <1>1, <1>2, <1>4, <1>7, <3>1, <3>3, <3>6, AliasNamed DEF home
    <3> QED
      BY <3>3, <3>7
  <2> QED
    BY <2>1, <2>2
<1> HIDE DEF T, m
<1>9. PathInv(T) /\ \A j \in L : ResolvePath(T, T.cont[j]) = ResolvePath(ix, ix.cont[j])
  <2>1. PICK p \in Dirs : p # <<>> /\ Lettered(p) /\ Front(p) = home /\ Grown(ix, i, p, T)
    BY <1>8
  <2>2. i \in Insts \ ix.live /\ PathOf(ix, c) = Front(p)
    BY <1>1, <2>1
  <2> HIDE DEF home
  <2> QED
    BY <1>2, <2>1, <2>2, CreatedInv
<1> QED
  BY <1>9 DEF Sound, T

\* A rename or a move, to a place that is free.
LEMMA RenamedSound ==
    ASSUME Tidy, PathInv(ix), NEW i, NEW new, Place(ix, i, new),
           NEW B \in IxType, B.live = ix.live, B.link = ix.link, B.target = ix.target,
           B.key = ix.key, B.members = ix.members,
           \A j \in ix.live \ {i} : B.cont[j] = ix.cont[j], B.name = [ix.name EXCEPT ![i] = Last(new)],
           Renamed(B, i, PathOf(ix, i), new)
    PROVE  Sound(ix, ix')
<1> DEFINE A == Rekey(B, i, PathOf(ix, i), new)
           T == ix'
<1>1. Halfway(ix, i, new, {}, A)
  BY RekeyIs
<1>2. PICK order \in SetToSeqs(Inside(A, PathOf(ix, i))) : ix' = RepathSubtree(A, order, PathOf(ix, i), new)
  BY DEF Renamed
<1> HIDE DEF A
<1>3. PICK Z : /\ Halfway(ix, i, new, Waiting(ix, i, {}), Z)
               /\ RepathSubtree(A, order, PathOf(ix, i), new) = Retarget(Z, PathOf(ix, i), new)
  BY <1>1, RepathRuns DEF Tidy
<1>4. T = Retarget(Z, PathOf(ix, i), new)
  BY <1>2, <1>3
<1> HIDE DEF T
<1>5. PathInv(T) /\ \A j \in ix.live \ {i} : ResolvePath(T, T.cont[j]) = ResolvePath(ix, ix.cont[j])
  BY <1>3, <1>4, RetargetInv
<1>6. Sound(ix, T)
  BY <1>5 DEF Sound
<1> QED
  BY <1>6 DEF T

LEMMA SetNameSound ==
    ASSUME Tidy, PathInv(ix), NEW p, NEW n \in Names, SetName(p, n)
    PROVE  Sound(ix, ix')
<1> DEFINE i == ResolvePath(ix, p)
           old == PathOf(ix, i)
           new == Append(Front(old), n)
           B == [ix EXCEPT !.name[i] = n]
<1>1. i \in ix.live /\ i # Root /\ i \in Insts /\ HasPath(ix, i) /\ ix \in IxType
  BY InvFacts DEF SetName
<1>3. /\ old \in Dirs /\ old # <<>> /\ Front(old) = ix.cont[i] /\ Front(old) \in Dirs
  BY <1>1, PathOfIs
<1>4. PICK h \in ix.live : PathOf(ix, h) = ix.cont[i]
  BY <1>1 DEF PathInv, Homed
<1>2. ResolvePath(ix, new) = NULL /\ Renamed(B, i, old, new)
  <2>1. Home(Front(old)) = Front(old)
    BY <1>3, <1>4, InvFacts DEF Home, Canvas
  <2> QED
    BY <1>1, <2>1 DEF SetName, Taken
<1> HIDE DEF i
<1>5. new \in Dirs /\ new # <<>> /\ Front(new) = Front(old) /\ Last(new) = n /\ Lettered(new)
  <2>1. new = Append(PathOf(ix, h), n)
    BY <1>3, <1>4
  <2> QED
    <3> HIDE DEF new, old
    <3>1. n \in Label /\ n \in Names \cup {RootName}
      BY GivenNames
    <3>2. new \in Dirs /\ new # <<>> /\ Front(new) = PathOf(ix, h) /\ Last(new) = n /\ Lettered(new)
      BY <2>1, <3>1, InContainer
    <3> QED
      BY <1>3, <1>4, <3>2
<1>6. ~IsPrefix(old, Front(new))
  BY <1>3, <1>5, BeginsFront
<1> HIDE DEF new
<1>7. Place(ix, i, new)
  BY <1>1, <1>2, <1>3, <1>4, <1>5, <1>6 DEF Place
<1> DEFINE N == [ix.name EXCEPT ![i] = n]
<1>8. /\ ix.cont = [ix.cont EXCEPT ![i] = Front(new)] /\ N = [ix.name EXCEPT ![i] = Last(new)]
      /\ N \in [Insts -> Label]
  BY <1>1, <1>3, <1>5, GivenNames DEF IxType
<1>9. B = [ix EXCEPT !.name = N]
  BY <1>1 DEF IxType
<1> HIDE DEF N, B, old
<1>10. /\ B \in IxType /\ B.live = ix.live /\ B.link = ix.link /\ B.target = ix.target
       /\ B.key = ix.key /\ B.members = ix.members /\ B.cont = ix.cont /\ B.name = N
  BY <1>1, <1>8, <1>9 DEF IxType
<1> QED
  BY <1>2, <1>7, <1>8, <1>10, RenamedSound DEF old

LEMMA RenameSound ==
    ASSUME Tidy, PathInv(ix), NEW i \in ix.live, i # Root, NEW container,
           ~IsPrefix(PathOf(ix, i), container), Rename(i, PathOf(ix, i), container)
    PROVE  Sound(ix, ix')
<1> DEFINE old == PathOf(ix, i)
           home == Home(container)
           new == Append(home, Last(old))
           B == [ix EXCEPT !.cont[i] = container]
           C == [ix.cont EXCEPT ![i] = container]
<1>1. i \in Insts /\ ix \in IxType
  BY InvFacts
<1>2. /\ ResolvePath(ix, new) = NULL \/ new = old
      /\ ResolvePath(ix, home) # NULL
      /\ new = old => container = home
      /\ IF new = old THEN ix' = B ELSE Renamed(B, i, old, new)
  BY DEF Rename, Taken, Tidy, Home
<1>3. PICK h \in ix.live : PathOf(ix, h) = home
  BY <1>2, InvFacts
<1>4. /\ old \in Dirs /\ old # <<>> /\ Front(old) = ix.cont[i] /\ Last(old) = ix.name[i]
      /\ ix.name[i] \in Label
  BY <1>1, PathOfIs
<1>5. Last(old) \in Names \cup {RootName}
  <2>1. Lettered(old)
    BY DEF PathInv, Spelt
  <2> QED
    BY <1>4, <2>1, LetteredFront
<1>a. ~IsPrefix(old, home)
  <2>1. CASE container = Canvas
    <3>1. home \in Dirs /\ Len(home) = 1
      <4>1. RootName \in Label
        BY GivenNames
      <4> QED
        BY <2>1, <4>1 DEF Home, Dirs
    <3>2. Len(old) > 1 /\ Len(old) \in Nat
      BY Deep
    <3> QED
      BY <1>4, <3>1, <3>2, Begins
  <2>2. CASE container # Canvas
    BY <2>2 DEF Home
  <2> QED
    BY <2>1, <2>2
<1>b. container \in Dirs /\ home \in Dirs
  <2>1. home \in Dirs
    BY <1>3, InvFacts
  <2>2. Canvas \in Dirs
    BY DEF Canvas, Dirs
  <2> QED
    BY <2>1, <2>2 DEF Home
<1> HIDE DEF home
<1>6. new \in Dirs /\ new # <<>> /\ Front(new) = home /\ Last(new) = Last(old) /\ Lettered(new)
  <2>1. Last(old) \in Label /\ new = Append(PathOf(ix, h), Last(old))
    BY <1>3, <1>4
  <2> DEFINE x == Last(old)
  <2>a. x \in Label /\ x \in Names \cup {RootName} /\ new = Append(PathOf(ix, h), x)
    BY <1>5, <2>1
  <2> HIDE DEF old, new, x
  <2>b. new \in Dirs /\ new # <<>> /\ Front(new) = PathOf(ix, h) /\ Last(new) = x /\ Lettered(new)
    BY <2>a, InContainer, ZenonT(60)
  <2>2. new \in Dirs /\ new # <<>> /\ Front(new) = PathOf(ix, h) /\ Last(new) = Last(old) /\ Lettered(new)
    BY <2>b DEF x
  <2> QED
    BY <1>3, <2>2
<1> HIDE DEF old, new
<1>7. /\ C \in [Insts -> Dirs] /\ \A j \in ix.live \ {i} : C[j] = ix.cont[j]
      /\ ix.name = [ix.name EXCEPT ![i] = Last(new)]
  <2>1. \A j \in ix.live : j \in Insts
    BY InvFacts
  <2> QED
    BY <1>1, <1>4, <1>6, <1>b, <2>1 DEF IxType
<1>8. B = [ix EXCEPT !.cont = C]
  BY <1>1 DEF IxType
<1>9. CASE new = old
  <2>1. container = ix.cont[i]
    BY <1>2, <1>4, <1>6, <1>9
  <2>2. C = ix.cont
    BY <1>1, <2>1 DEF IxType
  <2>3. B = ix
    BY <1>1, <1>8, <2>2 DEF IxType
  <2>4. ix' = ix
    BY <1>2, <1>9, <2>3
  <2> QED
    BY <2>4 DEF Sound
<1>10. CASE new # old
  <2>1. Place(ix, i, new)
    BY <1>2, <1>3, <1>6, <1>a, <1>10 DEF Place, old
  <2> HIDE DEF C, B
  <2>2. /\ B \in IxType /\ B.live = ix.live /\ B.link = ix.link /\ B.target = ix.target
        /\ B.key = ix.key /\ B.members = ix.members /\ B.cont = C /\ B.name = ix.name
    BY <1>1, <1>7, <1>8 DEF IxType
  <2>3. Renamed(B, i, PathOf(ix, i), new)
    BY <1>2, <1>10 DEF old
  <2> QED
    BY <1>7, <2>1, <2>2, <2>3, RenamedSound
<1> QED
  BY <1>9, <1>10

LEMMA MoveSound ==
    ASSUME Tidy, PathInv(ix), NEW p, NEW d, Move(p, d) \/ SetContainer(p, d)
    PROVE  Sound(ix, ix')
<1> DEFINE i == ResolvePath(ix, p)
<1>1. i \in ix.live /\ i # Root /\ HasPath(ix, i)
  <2>1. i \notin {NULL, Root}
    BY DEF Move, SetContainer
  <2> QED
    BY <2>1, InvFacts
<1>2. ~IsPrefix(PathOf(ix, i), d) /\ Rename(i, PathOf(ix, i), d)
  <2>1. CASE Move(p, d)
    BY <2>1, <1>1 DEF Move, ContainmentCycle
  <2>2. CASE SetContainer(p, d)
    BY <2>2, <1>1 DEF SetContainer, Tidy
  <2> QED
    BY <2>1, <2>2
<1> HIDE DEF i
<1> QED
  BY <1>1, <1>2, RenameSound

LEMMA DeleteSound ==
    ASSUME Tidy, PathInv(ix), NEW p, Delete(p) \/ Destroy(p)
    PROVE  Sound(ix, ix')
<1> DEFINE i == ResolvePath(ix, p)
           D == {i} \cup Inside(ix, p)
           T == ix'
<1>1. i \notin {NULL, Root}
  BY DEF Delete, Destroy
<1>2. D \subseteq ix.live /\ Root \notin D /\ \A j \in ix.live \ D : \A c \in D : PathOf(ix, c) # ix.cont[j]
  BY <1>1, DoomedIs
<1>3. Partway(ix, D, T)
  <2>1. CASE Delete(p)
    <3>1. PICK order \in SetToSeqs(D) : ix' = DeleteEach(ix, order, p)
      BY <2>1 DEF Delete, Doomed
    <3> HIDE DEF D
    <3>2. D = {ResolvePath(ix, p)} \cup Inside(ix, p)
      BY DEF D
    <3> QED
      BY <1>1, <3>1, <3>2, DeleteRuns
  <2>2. CASE Destroy(p)
    <3>1. Inside(ix, p) = {} /\ ix' = DeleteInstance(UnregisterPath(ix, p), i)
      BY <2>2 DEF Destroy, Tidy
    <3>2. i \in ix.live \ {} /\ p = PathOf(ix, i)
      BY <1>1, InvFacts
    <3>3. D = {} \cup {i}
      BY <3>1
    <3>4. T = DeleteInstance(UnregisterPath(ix, PathOf(ix, i)), i)
      BY <3>1, <3>2
    <3> HIDE DEF i, D, T
    <3>5. Partway(ix, {} \cup {i}, T)
      BY <3>2, <3>4, PartwayNone, DeleteStep
    <3> QED
      BY <3>3, <3>5
  <2> QED
    BY <2>1, <2>2
<1> HIDE DEF D, T
<1>4. PathInv(T) /\ T.live = ix.live \ D /\ \A j \in T.live : ResolvePath(T, T.cont[j]) = ResolvePath(ix, ix.cont[j])
  BY <1>2, <1>3, PartwayInv
<1>5. Sound(ix, T)
  BY <1>4 DEF Sound
<1> QED
  BY <1>5 DEF T

\* Every command.
LEMMA PathNext ==
    ASSUME Tidy, PathInv(ix), Next
    PROVE  Sound(ix, ix')
<1>1. CASE \E i, c \in Insts, n \in Names, short \in BOOLEAN : Create(i, c, n, short)
  BY <1>1, CreateSound
<1>2. CASE \E i \in Controls, t \in Insts, d \in Containers, m \in Names :
              \E as \in Asked(Home(d)) : CreateAlias(i, d, t, m, as)
  BY <1>2, CreateAliasSound, PathIndexAssumption
<1>3. CASE \E p \in DOMAIN ix.key : \E n \in Names : SetName(p, n)
  BY <1>3, SetNameSound
<1>4. CASE \E p \in DOMAIN ix.key : \E d \in Containers : Move(p, d) \/ SetContainer(p, d)
  BY <1>4, MoveSound
<1>5. CASE \E p \in DOMAIN ix.key : Delete(p) \/ Destroy(p)
  BY <1>5, DeleteSound
<1> QED
  BY <1>1, <1>2, <1>3, <1>4, <1>5 DEF Next

LEMMA PathInit == Init => PathInv(ix)
<1> SUFFICES ASSUME Init  PROVE PathInv(ix)
  OBVIOUS
<1> DEFINE top == <<RootName>>
<1>1. /\ ix.live = {Root} /\ ix.key = [p \in {top} |-> Root]
      /\ ix.name = [i \in Insts |-> IF i = Root THEN RootName ELSE <<>>]
      /\ ix.cont = [i \in Insts |-> <<>>] /\ ix.members = [i \in Insts |-> {}]
      /\ ix.link = [i \in Insts |-> NULL] /\ ix.target = [i \in Insts |-> <<>>]
  BY DEF Init
<1>2. Root \in Insts /\ RootName \in Label /\ <<>> \in Label /\ <<>> \in Dirs
  BY GivenNames, PathIndexAssumption DEF Label, Dirs
<1>3. top = Append(<<>>, RootName) /\ top \in Dirs /\ top # <<>> /\ Len(top) = 1 /\ top[1] = RootName
  BY <1>2 DEF Dirs
<1>4. ix \in IxType
  <2> HIDE DEF top
  <2>1. {top} \subseteq Dirs /\ [p \in {top} |-> Root] \in [{top} -> Insts]
    BY <1>2, <1>3
  <2>2. ix.key \in Keys
    BY <1>1, <2>1, KeyTypes
  <2>3. /\ ix.live \in SUBSET Insts /\ ix.name \in [Insts -> Label] /\ ix.cont \in [Insts -> Dirs]
        /\ ix.members \in [Insts -> SUBSET Insts] /\ ix.link \in [Insts -> Insts \cup {NULL}]
        /\ ix.target \in [Insts -> Dirs]
    BY <1>1, <1>2
  <2>4. ix = [live |-> ix.live, name |-> ix.name, cont |-> ix.cont, key |-> ix.key,
              members |-> ix.members, link |-> ix.link, target |-> ix.target]
    BY DEF Init
  <2> QED
    BY <2>2, <2>3, <2>4 DEF IxType
<1>5. PathOf(ix, Root) = top /\ Paths(ix)[Root] = top
  BY <1>1, <1>2, <1>3 DEF PathOf, Paths
<1> HIDE DEF top
<1>6. Rooted(ix) /\ Homed(ix) /\ Listed(ix) /\ Aliased(ix)
  <2>1. /\ ix.cont[Root] = <<>> /\ ix.name[Root] = RootName
        /\ \A j \in Insts : ix.members[j] = {} /\ ix.link[j] = NULL
    BY <1>1, <1>2
  <2> QED
    BY <1>1, <2>1 DEF Rooted, Homed, Listed, Aliased
<1>7. Keyed(ix)
  <2>1. DOMAIN ix.key = {Paths(ix)[j] : j \in ix.live} /\ ix.key[Paths(ix)[Root]] = Root
    BY <1>1, <1>5
  <2>2. Paths(ix)[Root] \in Dirs /\ Paths(ix)[Root] # <<>> /\ ix.live = {Root}
    BY <1>1, <1>3, <1>5
  <2>3. ix.live \subseteq Insts /\ \A j \in ix.live : j = Root
    BY <1>2, <2>2
  <2>4. \A j \in ix.live : Paths(ix)[j] \in Dirs /\ Paths(ix)[j] # <<>> /\ ix.key[Paths(ix)[j]] = j
    BY <2>1, <2>2, <2>3, Zenon
  <2> QED
    BY <2>1, <2>3, <2>4 DEF Keyed, KeysOf
<1>8. Spelt(ix)
  <2>1. Lettered(top)
    <3>1. \A k \in 1 .. Len(top) : k = 1
      BY <1>3
    <3> QED
      BY <1>3, <3>1 DEF Lettered
  <2> QED
    BY <1>1, <1>5, <2>1 DEF Spelt
<1> QED
  BY <1>4, <1>6, <1>7, <1>8 DEF PathInv

LEMMA SoundMoves ==
    ASSUME PathInv(ix), Sound(ix, ix')
    PROVE  PathInv(ix)' /\ AtMostOneMoved
<1>1. PathInv(ix)'
  BY DEF Sound
<1>2. PICK i : \A j \in ix.live \cap ix'.live : j # i => ResolvePath(ix', ix'.cont[j]) = ResolvePath(ix, ix.cont[j])
  BY DEF Sound
<1> DEFINE M == {j \in ix.live \cap ix'.live : ParentOf(j) # ParentOf(j)'}
<1>3. M \subseteq {i}
  BY <1>2 DEF ParentOf
<1>4. IsFiniteSet({i}) /\ Cardinality({i}) = 1
  BY FS_Singleton
<1>5. Cardinality(M) <= Cardinality({i})
  <2> HIDE DEF M
  <2> QED
    BY <1>3, <1>4, FS_Subset
<1> QED
  BY <1>1, <1>4, <1>5 DEF AtMostOneMoved

-----------------------------------------------------------------------------
(* The theorems about paths *)

\* A step keeps the invariant.
LEMMA PathInvNext == Tidy /\ PathInv(ix) /\ [Next]_ix => PathInv(ix)'
<1>1. ASSUME Tidy, PathInv(ix), Next  PROVE PathInv(ix)'
  BY <1>1, PathNext, SoundMoves
<1>2. ASSUME PathInv(ix), UNCHANGED ix  PROVE PathInv(ix)'
  BY <1>2
<1> QED
  BY <1>1, <1>2

\* Nothing about the constants changes.
LEMMA TidyStays == Tidy => Tidy'
  BY DEF Tidy, Distinct, PrefixFree

\* However clients who do nothing of Rash create, rename, move and delete, with ""
\* for the root view wherever that works, and in whatever order the re-path loop
\* takes things: the index finds everything under its path and nothing else,
\* everything lies in something that is there, no Members list holds what lies
\* elsewhere, and aliases say where what they stand for is (object.c, RegisterPath, UnregisterPath;
\* bridge.c, Bridge_RepathSubtree, Bridge_Delete).
THEOREM PathsTrueThm == Tidy /\ Spec => [](IndexTrue /\ ContentsTrue /\ TargetTracks)
<1>1. PathInv(ix) => IndexTrue /\ ContentsTrue /\ TargetTracks
  BY InvGives
<1> QED
  BY <1>1, PathInvNext, TidyStays, PathInit, PTL DEF Spec

\* A step of the session is a step of the path index or leaves it alone.
LEMMA SessionPaths ==
    /\ MCInit /\ of = "paths" => Init
    /\ [MCNext]_<<of, ix, trieVars, tapVars>> => of' = of /\ (of = "paths" => [Next]_ix)
<1>1. MCInit /\ of = "paths" => Init
  BY DEF MCInit
<1>2. MCNext => of' = of /\ (of = "paths" => [Next]_ix)
  BY DEF MCNext, PathStep, TrieStep, TapStep
<1> QED
  BY <1>1, <1>2

\* The invariant, in the composition that the run looks at.
LEMMA SessionPathInv == Tidy /\ MCSpec => [](of = "paths" => PathInv(ix))
<1> DEFINE I == of = "paths" => PathInv(ix)
<1>1. MCInit => I
  BY SessionPaths, PathInit
<1>2. I /\ Tidy /\ [MCNext]_<<of, ix, trieVars, tapVars>> => I'
  BY SessionPaths, PathInvNext
<1> HIDE DEF I
<1>3. Tidy /\ MCSpec => []I
  BY <1>1, <1>2, TidyStays, PTL DEF MCSpec
<1> QED
  BY <1>3 DEF I

\* While clients do nothing of Rash, every instance answers to the path its Name
\* and Container spell, and the index holds no other name, whatever was renamed,
\* moved or deleted around it (object.c, RegisterPath; bridge.c, Bridge_RepathSubtree).
THEOREM NamesTrueThm == Tidy /\ MCSpec => []NamesTrue
<1>1. (of = "paths" => PathInv(ix)) => NamesTrue
  BY InvGives DEF NamesTrue
<1> QED
  BY <1>1, SessionPathInv, PTL

\* While clients do nothing of Rash, everything is inside a container that exists,
\* no Members list holds what has gone or lies elsewhere (that it holds all that
\* lies there is not said, and not so), and an alias says where the thing it
\* stands for is (bridge.c, Bridge_Move,
\* Bridge_Delete, Bridge_RepathSubtree; object.c, UnregisterPath).
THEOREM ContainersTrueThm == Tidy /\ MCSpec => []ContainersTrue
<1>1. (of = "paths" => PathInv(ix)) => ContainersTrue
  BY InvGives DEF ContainersTrue
<1> QED
  BY <1>1, SessionPathInv, PTL

\* While clients do nothing of Rash, a command takes at most one thing from one
\* container to another; what that thing holds, however deep, stays inside what
\* held it (bridge.c, Bridge_RepathSubtree).
THEOREM MovesOneThm == Tidy /\ MCSpec => MovesOne
<1>1. Tidy /\ (of = "paths" => PathInv(ix)) /\ [MCNext]_<<of, ix, trieVars, tapVars>>
        => [of = "paths" => AtMostOneMoved]_ix
  <2>1. ASSUME Tidy, PathInv(ix), Next  PROVE AtMostOneMoved
    BY <2>1, PathNext, SoundMoves
  <2> QED
    BY <2>1, SessionPaths
<1> QED
  BY <1>1, SessionPathInv, TidyStays, PTL DEF MCSpec, MovesOne

-----------------------------------------------------------------------------
(* The search tree *)

(* Strings and their beginnings *)

LEMMA PrefixAt ==
    ASSUME NEW s \in Label, NEW m \in 0 .. Len(s)
    PROVE  /\ SubSeq(s, 1, m) \in Label /\ Len(SubSeq(s, 1, m)) = m
           /\ \A k \in 1 .. m : SubSeq(s, 1, m)[k] = s[k]
<1>1. Len(s) \in Nat /\ m \in Nat /\ \A k \in 1 .. Len(s) : s[k] \in Nat
  BY DEF Label
<1>2. \A k \in 1 .. m : s[k] \in Nat /\ 1 + k - 1 = k
  BY <1>1
<1>3. m - 1 + 1 = m /\ m \in Int /\ (m # 0 => 1 <= m)
  BY <1>1
<1>4. /\ SubSeq(s, 1, m) \in Seq(Nat)
      /\ Len(SubSeq(s, 1, m)) = IF 1 <= m THEN m - 1 + 1 ELSE 0
      /\ \A k \in 1 .. m - 1 + 1 : SubSeq(s, 1, m)[k] = s[1 + k - 1]
  BY <1>2, <1>3, SubSeqProperties
<1> QED
  BY <1>1, <1>2, <1>3, <1>4 DEF Label

\* What it is to be a beginning of a string.
LEMMA PrefixesIs ==
    ASSUME NEW s \in Label, NEW p
    PROVE  p \in Prefixes(s) <=>
               p \in Label /\ Len(p) <= Len(s) /\ \A k \in 1 .. Len(p) : p[k] = s[k]
<1>1. Len(s) \in Nat
  BY DEF Label
<1>2. ASSUME p \in Prefixes(s)
      PROVE  p \in Label /\ Len(p) <= Len(s) /\ \A k \in 1 .. Len(p) : p[k] = s[k]
  <2>1. PICK m \in 0 .. Len(s) : p = SubSeq(s, 1, m)
    BY <1>2 DEF Prefixes
  <2>2. p \in Label /\ Len(p) = m /\ \A k \in 1 .. m : p[k] = s[k]
    BY <2>1, PrefixAt
  <2> QED
    BY <1>1, <2>2
<1>3. ASSUME p \in Label, Len(p) <= Len(s), \A k \in 1 .. Len(p) : p[k] = s[k]
      PROVE  p \in Prefixes(s)
  <2>1. Len(p) \in 0 .. Len(s)
    BY <1>1, <1>3 DEF Label
  <2> DEFINE q == SubSeq(s, 1, Len(p))
  <2>2. q \in Label /\ Len(q) = Len(p) /\ \A k \in 1 .. Len(p) : q[k] = s[k]
    BY <2>1, PrefixAt
  <2>3. q \in Prefixes(s)
    BY <2>1 DEF Prefixes
  <2> HIDE DEF q
  <2>4. p = q
    BY <1>3, <2>2, SeqEqual DEF Label
  <2> QED
    BY <2>3, <2>4
<1> QED
  BY <1>2, <1>3

LEMMA PrefixEnds ==
    ASSUME NEW s \in Label
    PROVE  s \in Prefixes(s) /\ <<>> \in Prefixes(s) /\ Prefixes(s) \subseteq Label
<1>1. Len(s) \in Nat /\ <<>> \in Label /\ Len(<<>>) = 0
  BY DEF Label
<1>2. s \in Prefixes(s)
  BY <1>1, PrefixesIs
<1>3. <<>> \in Prefixes(s)
  <2>1. Len(<<>>) <= Len(s) /\ \A k \in 1 .. Len(<<>>) : <<>>[k] = s[k]
    BY <1>1
  <2> QED
    BY <1>1, <2>1, PrefixesIs
<1>4. Prefixes(s) \subseteq Label
  BY PrefixesIs
<1> QED
  BY <1>2, <1>3, <1>4

\* Beginnings of one string: the shorter begins the longer, and they differ in
\* their lengths.
LEMMA PrefixPair ==
    ASSUME NEW s \in Label, NEW p \in Prefixes(s), NEW q \in Prefixes(s), Len(p) <= Len(q)
    PROVE  p \in Prefixes(q) /\ (Len(p) = Len(q) => p = q)
<1>1. /\ p \in Label /\ Len(p) <= Len(s) /\ \A k \in 1 .. Len(p) : p[k] = s[k]
      /\ q \in Label /\ Len(q) <= Len(s) /\ \A k \in 1 .. Len(q) : q[k] = s[k]
  BY PrefixesIs
<1>2. Len(p) \in Nat /\ Len(q) \in Nat
  BY <1>1 DEF Label
<1>3. \A k \in 1 .. Len(p) : p[k] = q[k]
  BY <1>1, <1>2
<1>4. p \in Prefixes(q)
  BY <1>1, <1>3, PrefixesIs
<1> QED
  BY <1>1, <1>3, <1>4, SeqEqual DEF Label

LEMMA PrefixOfPrefix ==
    ASSUME NEW s \in Label, NEW q \in Prefixes(s), NEW p \in Prefixes(q)
    PROVE  p \in Prefixes(s)
<1>1. q \in Label /\ Len(q) <= Len(s) /\ \A k \in 1 .. Len(q) : q[k] = s[k]
  BY PrefixesIs
<1>2. p \in Label /\ Len(p) <= Len(q) /\ \A k \in 1 .. Len(p) : p[k] = q[k]
  BY <1>1, PrefixesIs
<1>3. Len(p) \in Nat /\ Len(q) \in Nat /\ Len(s) \in Nat
  BY <1>1, <1>2 DEF Label
<1>4. Len(p) <= Len(s) /\ \A k \in 1 .. Len(p) : p[k] = s[k]
  BY <1>1, <1>2, <1>3
<1> QED
  BY <1>2, <1>4, PrefixesIs

\* One more character.
LEMMA PrefixMore ==
    ASSUME NEW s \in Label, NEW p \in Label, NEW c \in Nat
    PROVE  /\ Append(p, c) \in Label /\ Len(Append(p, c)) = Len(p) + 1 /\ Append(p, c) # <<>>
           /\ Append(p, c) \in Prefixes(s) <=>
                  p \in Prefixes(s) /\ Len(p) < Len(s) /\ s[Len(p) + 1] = c
<1> DEFINE a == Append(p, c)
<1>2. Len(p) \in Nat /\ Len(s) \in Nat
  BY DEF Label
<1>0. /\ a \in Label /\ Len(a) = Len(p) + 1 /\ a[Len(p) + 1] = c
      /\ \A k \in 1 .. Len(p) : a[k] = p[k]
  BY DEF Label
<1>1. /\ a \in Label /\ Len(a) = Len(p) + 1 /\ a # <<>> /\ a[Len(p) + 1] = c
      /\ \A k \in 1 .. Len(p) : a[k] = p[k]
  <2> HIDE DEF a
  <2> QED
    BY <1>0, <1>2
<1> HIDE DEF a
<1>3. ASSUME a \in Prefixes(s)
      PROVE  p \in Prefixes(s) /\ Len(p) < Len(s) /\ s[Len(p) + 1] = c
  <2>1. Len(p) + 1 <= Len(s) /\ \A k \in 1 .. Len(p) + 1 : a[k] = s[k]
    BY <1>1, <1>3, PrefixesIs
  <2>2. Len(p) <= Len(s) /\ \A k \in 1 .. Len(p) : p[k] = s[k]
    BY <1>1, <1>2, <2>1
  <2>3. p \in Prefixes(s)
    BY <2>2, PrefixesIs
  <2> QED
    BY <1>1, <1>2, <2>1, <2>3
<1>4. ASSUME p \in Prefixes(s), Len(p) < Len(s), s[Len(p) + 1] = c
      PROVE  a \in Prefixes(s)
  <2>1. \A k \in 1 .. Len(p) : p[k] = s[k]
    BY <1>4, PrefixesIs
  <2>2. ASSUME NEW k \in 1 .. Len(a)  PROVE a[k] = s[k]
    <3>1. k \in 1 .. Len(p) \/ k = Len(p) + 1
      BY <1>1, <1>2
    <3> QED
      BY <1>1, <1>4, <2>1, <3>1
  <2>3. Len(a) <= Len(s)
    BY <1>1, <1>2, <1>4
  <2> QED
    BY <1>1, <2>2, <2>3, PrefixesIs
<1> QED
  BY <1>1, <1>3, <1>4 DEF a

LEMMA StrictPrefixIs ==
    ASSUME NEW s \in Label, NEW p \in Label
    PROVE  IsStrictPrefix(p, s) <=> p \in Prefixes(s) /\ Len(p) < Len(s)
<1>1. Len(p) \in Nat /\ Len(s) \in Nat /\ SubSeq(p, 1, Len(p)) = p
  BY DEF Label
<1>2. ASSUME Len(p) <= Len(s)
      PROVE  SubSeq(s, 1, Len(p)) = p <=> p \in Prefixes(s)
  <2>1. Len(p) \in 0 .. Len(s)
    BY <1>1, <1>2
  <2>2. /\ SubSeq(s, 1, Len(p)) \in Label /\ Len(SubSeq(s, 1, Len(p))) = Len(p)
        /\ \A k \in 1 .. Len(p) : SubSeq(s, 1, Len(p))[k] = s[k]
    BY <2>1, PrefixAt
  <2>3. SubSeq(s, 1, Len(p)) \in Prefixes(s)
    BY <2>1 DEF Prefixes
  <2>4. p \in Prefixes(s) => \A k \in 1 .. Len(p) : p[k] = s[k]
    BY PrefixesIs
  <2> QED
    BY <2>2, <2>3, <2>4, SeqEqual DEF Label
<1>3. p \in Prefixes(s) => Len(p) <= Len(s)
  BY PrefixesIs
<1>4. p \in Prefixes(s) /\ p # s => Len(p) # Len(s)
  BY PrefixEnds, PrefixPair, <1>1
<1> QED
  BY <1>1, <1>2, <1>3, <1>4 DEF IsStrictPrefix, IsPrefix

LEMMA PrefixesFinite ==
    ASSUME NEW s \in Label
    PROVE  IsFiniteSet(Prefixes(s))
<1> DEFINE f == [m \in 0 .. Len(s) |-> SubSeq(s, 1, m)]
<1>1. Len(s) \in Nat
  BY DEF Label
<1>2. IsFiniteSet(0 .. Len(s))
  BY <1>1, FS_Interval
<1>3. f \in Surjection(0 .. Len(s), Prefixes(s))
  BY DEF Surjection, Prefixes
<1> QED
  BY <1>2, <1>3, FS_Surjection

-----------------------------------------------------------------------------
(* Child lists *)

Sorted(s) == s \in Label /\ \A i, j \in 1 .. Len(s) : i < j => s[i] < s[j]

Chars(s) == {s[j] : j \in 1 .. Len(s)}

\* The names that the tree's module has for the library's operators.
LEMMA TrieNames ==
    ASSUME NEW s, NEW t
    PROVE  /\ Trie!Prefixes(s) = Prefixes(s) /\ Trie!Min(s) = Min(s) /\ Trie!Last(s) = Last(s)
           /\ Trie!IsStrictPrefix(t, s) = IsStrictPrefix(t, s)
           /\ Trie!Cardinality(s) = Cardinality(s)
<1>1. /\ Trie!Prefixes(s) = Prefixes(s) /\ Trie!Min(s) = Min(s) /\ Trie!Last(s) = Last(s)
      /\ Trie!IsStrictPrefix(t, s) = IsStrictPrefix(t, s)
  BY DEF Trie!Prefixes, Prefixes, Trie!Min, Min, Trie!Last, Last, Trie!IsStrictPrefix,
         IsStrictPrefix, Trie!IsPrefix, IsPrefix
<1>2. Trie!Cardinality(s) = Cardinality(s)
  BY DEF Trie!Cardinality, Cardinality
<1> QED
  BY <1>1, <1>2

LEMMA Least ==
    ASSUME NEW S, S \subseteq Nat, S # {}
    PROVE  Min(S) \in S /\ \A y \in S : Min(S) <= y
<1>1. PICK x \in S : \A y \in S : ~(<<y, x>> \in OpToRel(<, Nat))
  BY NatLessThanWellFounded, WFMin
<1>2. \A y \in S : ~(y < x)
  BY <1>1 DEF OpToRel
<1>3. \A y \in S : x <= y
  BY <1>2
<1> QED
  BY <1>3 DEF Min

LEMMA Longest ==
    ASSUME NEW n \in Nat, NEW S, S \subseteq 0 .. n, S # {}
    PROVE  \E x \in S : \A y \in S : y <= x
<1> DEFINE R == {n - x : x \in S}
<1>1. R \subseteq Nat /\ R # {}
  <2>1. \A x \in S : n - x \in Nat
    OBVIOUS
  <2> QED
    BY <2>1, Zenon
<1>2. Min(R) \in R /\ \A y \in R : Min(R) <= y
  BY <1>1, Least
<1>3. PICK x \in S : Min(R) = n - x
  BY <1>2
<1>4. \A y \in S : n - x <= n - y
  BY <1>2, <1>3
<1> QED
  BY <1>4

LEMMA InsertIs ==
    ASSUME NEW s \in Label, NEW at \in 1 .. Len(s) + 1, NEW c \in Nat
    PROVE  /\ Trie!InsertAt(s, at, c) \in Label /\ Len(Trie!InsertAt(s, at, c)) = Len(s) + 1
           /\ \A k \in 1 .. Len(s) + 1 : Trie!InsertAt(s, at, c)[k] =
                  IF k < at THEN s[k] ELSE IF k = at THEN c ELSE s[k - 1]
<1> DEFINE a == SubSeq(s, 1, at - 1)
           b == SubSeq(s, at, Len(s))
<1>1. Len(s) \in Nat /\ \A k \in 1 .. Len(s) : s[k] \in Nat
  BY DEF Label
<1>2. a \in Label /\ Len(a) = at - 1 /\ \A k \in 1 .. at - 1 : a[k] = s[k]
  BY <1>1, PrefixAt
<1>3. /\ b \in Label /\ Len(b) = Len(s) - at + 1
      /\ \A k \in 1 .. Len(s) - at + 1 : b[k] = s[at + k - 1]
  BY <1>1, SubSeqProperties DEF Label
<1> HIDE DEF a, b
<1>4. /\ a \o <<c>> \in Label /\ Len(a \o <<c>>) = at
      /\ \A k \in 1 .. at : (a \o <<c>>)[k] = IF k < at THEN s[k] ELSE c
  BY <1>1, <1>2 DEF Label
<1>5. /\ (a \o <<c>>) \o b \in Label /\ Len((a \o <<c>>) \o b) = Len(s) + 1
      /\ \A k \in 1 .. Len(s) + 1 :
            ((a \o <<c>>) \o b)[k] = IF k <= at THEN (a \o <<c>>)[k] ELSE b[k - at]
  <2> DEFINE u == a \o <<c>>
  <2> HIDE DEF u
  <2>1. u \in Label /\ Len(u) = at
    BY <1>4 DEF u
  <2>2. /\ u \o b \in Label /\ Len(u \o b) = at + (Len(s) - at + 1)
        /\ \A k \in 1 .. at + (Len(s) - at + 1) : (u \o b)[k] = IF k <= at THEN u[k] ELSE b[k - at]
    <3>1. /\ u \o b \in Label /\ Len(u \o b) = Len(u) + Len(b)
          /\ \A k \in 1 .. Len(u) + Len(b) :
                (u \o b)[k] = IF k <= Len(u) THEN u[k] ELSE b[k - Len(u)]
      <4>1. u \in Seq(Nat) /\ b \in Seq(Nat)
        BY <2>1, <1>3 DEF Label
      <4> QED
        BY <4>1, ConcatProperties DEF Label
    <3> QED
      BY <3>1, <2>1, <1>3
  <2>3. at + (Len(s) - at + 1) = Len(s) + 1
    BY <1>1
  <2> QED
    BY <2>2, <2>3 DEF u
<1>6. \A k \in 1 .. Len(s) + 1 : k > at => b[k - at] = s[k - 1]
  <2>1. ASSUME NEW k \in 1 .. Len(s) + 1, k > at  PROVE b[k - at] = s[k - 1]
    <3>1. k - at \in 1 .. Len(s) - at + 1 /\ at + (k - at) - 1 = k - 1
      BY <1>1, <2>1
    <3> QED
      BY <1>3, <3>1
  <2> QED
    BY <2>1
<1>7. \A k \in 1 .. Len(s) + 1 : ((a \o <<c>>) \o b)[k] =
                  IF k < at THEN s[k] ELSE IF k = at THEN c ELSE s[k - 1]
  <2> DEFINE t == (a \o <<c>>) \o b
             u == a \o <<c>>
  <2> HIDE DEF t, u
  <2>1. \A k \in 1 .. Len(s) + 1 : t[k] = IF k <= at THEN u[k] ELSE b[k - at]
    BY <1>5 DEF t, u
  <2>2. \A k \in 1 .. at : u[k] = IF k < at THEN s[k] ELSE c
    BY <1>4 DEF u
  <2>3. \A k \in 1 .. Len(s) + 1 : t[k] = IF k < at THEN s[k] ELSE IF k = at THEN c ELSE s[k - 1]
    BY <2>1, <2>2, <1>1, <1>6
  <2> QED
    BY <2>3 DEF t
<1> QED
  BY <1>5, <1>7 DEF Trie!InsertAt, a, b

LEMMA RemoveIs ==
    ASSUME NEW s \in Label, NEW at \in 1 .. Len(s)
    PROVE  /\ Trie!RemoveAt(s, at) \in Label /\ Len(Trie!RemoveAt(s, at)) = Len(s) - 1
           /\ \A k \in 1 .. Len(s) - 1 : Trie!RemoveAt(s, at)[k] = IF k < at THEN s[k] ELSE s[k + 1]
<1> DEFINE a == SubSeq(s, 1, at - 1)
           b == SubSeq(s, at + 1, Len(s))
<1>1. Len(s) \in Nat /\ \A k \in 1 .. Len(s) : s[k] \in Nat
  BY DEF Label
<1>2. a \in Label /\ Len(a) = at - 1 /\ \A k \in 1 .. at - 1 : a[k] = s[k]
  BY <1>1, PrefixAt
<1>3. /\ b \in Label /\ Len(b) = Len(s) - at
      /\ \A k \in 1 .. Len(s) - at : b[k] = s[at + k]
  BY <1>1, SubSeqProperties DEF Label
<1> HIDE DEF a, b
<1>4. /\ a \o b \in Label /\ Len(a \o b) = Len(s) - 1
      /\ \A k \in 1 .. Len(s) - 1 : (a \o b)[k] = IF k < at THEN a[k] ELSE b[k - (at - 1)]
  <2>1. /\ a \o b \in Label /\ Len(a \o b) = (at - 1) + (Len(s) - at)
        /\ \A k \in 1 .. (at - 1) + (Len(s) - at) :
              (a \o b)[k] = IF k <= at - 1 THEN a[k] ELSE b[k - (at - 1)]
    <3>1. /\ a \o b \in Label /\ Len(a \o b) = Len(a) + Len(b)
          /\ \A k \in 1 .. Len(a) + Len(b) :
                (a \o b)[k] = IF k <= Len(a) THEN a[k] ELSE b[k - Len(a)]
      <4>1. a \in Seq(Nat) /\ b \in Seq(Nat)
        BY <1>2, <1>3 DEF Label
      <4> QED
        BY <4>1, ConcatProperties DEF Label
    <3> QED
      BY <3>1, <1>2, <1>3
  <2>2. (at - 1) + (Len(s) - at) = Len(s) - 1 /\ \A k \in 1 .. Len(s) - 1 : k <= at - 1 <=> k < at
    BY <1>1
  <2> QED
    BY <2>1, <2>2
<1>5. ASSUME NEW k \in 1 .. Len(s) - 1, ~(k < at)  PROVE b[k - (at - 1)] = s[k + 1]
  <2>1. k - (at - 1) \in 1 .. Len(s) - at /\ at + (k - (at - 1)) = k + 1
    BY <1>1, <1>5
  <2> QED
    BY <1>3, <2>1
<1>6. \A k \in 1 .. Len(s) - 1 : (a \o b)[k] = IF k < at THEN s[k] ELSE s[k + 1]
  <2> DEFINE t == a \o b
  <2> HIDE DEF t
  <2>1. \A k \in 1 .. Len(s) - 1 : t[k] = IF k < at THEN a[k] ELSE b[k - (at - 1)]
    BY <1>4 DEF t
  <2>2. \A k \in 1 .. Len(s) - 1 : t[k] = IF k < at THEN s[k] ELSE s[k + 1]
    BY <2>1, <1>1, <1>2, <1>5
  <2> QED
    BY <2>2 DEF t
<1> QED
  BY <1>4, <1>6 DEF Trie!RemoveAt, a, b

\* A character takes its place among its siblings.
LEMMA AddSiblingIs ==
    ASSUME NEW s, Sorted(s), NEW c \in Nat
    PROVE  Sorted(Trie!AddSibling(s, c)) /\ Chars(Trie!AddSibling(s, c)) = Chars(s) \cup {c}
<1> DEFINE n == Len(s)
           B == {j \in DOMAIN s : s[j] >= c} \cup {n + 1}
           at == Min(B)
           t == Trie!InsertAt(s, at, c)
<1>1. /\ s \in Label /\ n \in Nat /\ DOMAIN s = 1 .. n /\ \A k \in 1 .. n : s[k] \in Nat
      /\ \A i, j \in 1 .. n : i < j => s[i] < s[j]
  BY DEF Sorted, Label
<1>2. at \in B /\ \A y \in B : at <= y
  <2>1. B \subseteq Nat /\ B # {}
    BY <1>1
  <2> QED
    BY <2>1, Least
<1>3. Trie!AddSibling(s, c) = IF at <= n /\ s[at] = c THEN s ELSE t
  BY TrieNames DEF Trie!AddSibling
<1> HIDE DEF at
<1>4. /\ at \in 1 .. n + 1 /\ (at <= n => s[at] >= c)
      /\ \A j \in 1 .. n : j < at => s[j] < c
  BY <1>1, <1>2
<1> HIDE DEF B, n, t
<1>5. CASE at <= n /\ s[at] = c
  <2>1. c \in Chars(s)
    BY <1>4, <1>5 DEF Chars, n
  <2> QED
    BY <1>3, <1>5, <2>1
<1>6. CASE ~(at <= n /\ s[at] = c)
  <2>1. \A j \in 1 .. n : j >= at => s[j] > c
    <3>1. ASSUME NEW j \in 1 .. n, j >= at  PROVE s[j] > c
      <4>1. at \in 1 .. n /\ s[at] > c /\ s[at] \in Nat /\ s[j] \in Nat
        BY <1>1, <1>4, <1>6, <3>1
      <4>2. j = at \/ s[at] < s[j]
        BY <1>1, <3>1, <4>1
      <4> QED
        BY <4>1, <4>2
    <3> QED
      BY <3>1
  <2>2. /\ t \in Label /\ Len(t) = n + 1
        /\ \A k \in 1 .. n + 1 : t[k] = IF k < at THEN s[k] ELSE IF k = at THEN c ELSE s[k - 1]
    BY <1>1, <1>4, InsertIs DEF t, n
  <2>3. ASSUME NEW i \in 1 .. n + 1, NEW j \in 1 .. n + 1, i < j  PROVE t[i] < t[j]
    <3>1. /\ i < at => i \in 1 .. n /\ t[i] = s[i] /\ s[i] < c
          /\ i = at => t[i] = c
          /\ i > at => i - 1 \in 1 .. n /\ t[i] = s[i - 1]
      BY <1>1, <1>4, <2>2
    <3>2. /\ j < at => j \in 1 .. n /\ t[j] = s[j] /\ s[j] < c
          /\ j = at => t[j] = c
          /\ j > at => j - 1 \in 1 .. n /\ t[j] = s[j - 1] /\ s[j - 1] > c
      BY <1>1, <1>4, <2>1, <2>2
    <3>3. CASE j < at
      BY <1>1, <1>4, <2>3, <3>1, <3>2, <3>3
    <3>4. CASE j = at
      BY <1>1, <1>4, <2>3, <3>1, <3>2, <3>4
    <3>5. CASE j > at /\ i <= at
      <4>1. s[j - 1] \in Nat /\ t[j] > c
        BY <1>1, <3>2, <3>5
      <4>2. i = at \/ (i < at /\ t[i] < c /\ t[i] \in Nat)
        BY <1>1, <1>4, <3>1, <3>5
      <4> QED
        BY <3>1, <3>2, <3>5, <4>1, <4>2
    <3>6. CASE i > at
      <4>1. j > at /\ i - 1 < j - 1
        BY <1>4, <2>3, <3>6
      <4> QED
        BY <1>1, <3>1, <3>2, <3>6, <4>1
    <3> QED
      BY <1>4, <3>3, <3>4, <3>5, <3>6
  <2>4. ASSUME NEW x  PROVE x \in Chars(t) <=> x \in Chars(s) \/ x = c
    <3>1. ASSUME NEW k \in 1 .. n + 1, x = t[k]  PROVE x \in Chars(s) \/ x = c
      <4>1. x = c \/ (k \in 1 .. n /\ x = s[k]) \/ (k - 1 \in 1 .. n /\ x = s[k - 1])
        BY <1>1, <1>4, <2>2, <3>1
      <4> QED
        BY <4>1 DEF Chars, n
    <3>2. ASSUME NEW k \in 1 .. n, x = s[k]  PROVE \E m \in 1 .. n + 1 : x = t[m]
      <4>1. CASE k < at
        <5>1. k \in 1 .. n + 1 /\ t[k] = s[k]
          BY <1>1, <2>2, <4>1
        <5> QED
          BY <3>2, <5>1
      <4>2. CASE k >= at
        <5>1. k + 1 \in 1 .. n + 1 /\ ~(k + 1 < at) /\ k + 1 # at /\ (k + 1) - 1 = k
          BY <1>1, <1>4, <4>2
        <5>2. t[k + 1] = s[k]
          BY <2>2, <5>1
        <5> QED
          BY <3>2, <5>1, <5>2
      <4> QED
        BY <1>4, <4>1, <4>2
    <3>3. x = c => \E m \in 1 .. n + 1 : x = t[m]
      BY <1>4, <2>2
    <3>4. x \in Chars(t) <=> \E m \in 1 .. n + 1 : x = t[m]
      BY <2>2 DEF Chars
    <3>5. x \in Chars(s) <=> \E k \in 1 .. n : x = s[k]
      BY DEF Chars, n
    <3> QED
      BY <3>1, <3>2, <3>3, <3>4, <3>5
  <2>5. Sorted(t)
    BY <2>2, <2>3 DEF Sorted
  <2>6. Chars(t) = Chars(s) \cup {c}
    BY <2>4
  <2> QED
    BY <1>3, <1>6, <2>5, <2>6
<1> QED
  BY <1>5, <1>6

\* A character leaves its siblings as they are.
LEMMA DelSiblingIs ==
    ASSUME NEW s, Sorted(s), NEW c \in Chars(s)
    PROVE  Sorted(Trie!DelSibling(s, c)) /\ Chars(Trie!DelSibling(s, c)) = Chars(s) \ {c}
<1> DEFINE n == Len(s)
           at == CHOOSE j \in DOMAIN s : s[j] = c
           t == Trie!RemoveAt(s, at)
<1>1. /\ s \in Label /\ n \in Nat /\ DOMAIN s = 1 .. n /\ \A k \in 1 .. n : s[k] \in Nat
      /\ \A i, j \in 1 .. n : i < j => s[i] < s[j]
  BY DEF Sorted, Label
<1>2. at \in 1 .. n /\ s[at] = c
  BY <1>1 DEF Chars
<1>3. Trie!DelSibling(s, c) = t
  BY DEF Trie!DelSibling
<1> HIDE DEF at
<1>4. /\ t \in Label /\ Len(t) = n - 1
      /\ \A k \in 1 .. n - 1 : t[k] = IF k < at THEN s[k] ELSE s[k + 1]
  BY <1>1, <1>2, RemoveIs
<1> HIDE DEF n, t
<1>5. ASSUME NEW i \in 1 .. n - 1, NEW j \in 1 .. n - 1, i < j  PROVE t[i] < t[j]
  <2>1. i \in 1 .. n /\ i + 1 \in 1 .. n /\ j \in 1 .. n /\ j + 1 \in 1 .. n
    BY <1>1
  <2>2. CASE j < at
    BY <1>1, <1>2, <1>4, <1>5, <2>1, <2>2
  <2>3. CASE ~(j < at) /\ i < at
    <3>1. i < j + 1
      BY <1>5, <2>1
    <3> QED
      BY <1>1, <1>4, <2>1, <2>3, <3>1
  <2>4. CASE ~(j < at) /\ ~(i < at)
    <3>1. i + 1 < j + 1
      BY <1>5, <2>1
    <3> QED
      BY <1>1, <1>4, <2>1, <2>4, <3>1
  <2> QED
    BY <1>2, <1>5, <2>1, <2>2, <2>3, <2>4
<1>6. ASSUME NEW k \in 1 .. n - 1  PROVE t[k] \in Chars(s) /\ t[k] # c
  <2>1. CASE k < at
    <3>1. k \in 1 .. n /\ t[k] = s[k] /\ s[k] < s[at]
      BY <1>1, <1>2, <1>4, <2>1
    <3> QED
      BY <1>1, <1>2, <3>1 DEF Chars, n
  <2>2. CASE ~(k < at)
    <3>1. k + 1 \in 1 .. n /\ t[k] = s[k + 1] /\ at < k + 1
      BY <1>1, <1>2, <1>4, <2>2
    <3>2. s[at] < s[k + 1]
      BY <1>1, <1>2, <3>1
    <3> QED
      BY <1>1, <1>2, <3>1, <3>2 DEF Chars, n
  <2> QED
    BY <2>1, <2>2
<1>7. ASSUME NEW k \in 1 .. n, s[k] # c  PROVE \E m \in 1 .. n - 1 : t[m] = s[k]
  <2>1. CASE k < at
    <3>1. k \in 1 .. n - 1 /\ t[k] = s[k]
      BY <1>1, <1>2, <1>4, <2>1
    <3> QED
      BY <3>1
  <2>2. CASE k > at
    <3>1. k - 1 \in 1 .. n - 1 /\ ~(k - 1 < at) /\ (k - 1) + 1 = k
      BY <1>1, <1>2, <2>2
    <3>2. t[k - 1] = s[k]
      BY <1>4, <3>1
    <3> QED
      BY <3>1, <3>2
  <2> QED
    BY <1>2, <1>7, <2>1, <2>2
<1>8. Chars(t) = {t[k] : k \in 1 .. n - 1} /\ Chars(s) = {s[k] : k \in 1 .. n}
  BY <1>4 DEF Chars, n
<1>9. Chars(t) = Chars(s) \ {c}
  BY <1>6, <1>7, <1>8
<1>10. Sorted(t)
  BY <1>4, <1>5 DEF Sorted
<1> QED
  BY <1>3, <1>9, <1>10

\* The first sibling not below a character that is there is that character.
LEMMA FirstNotBelow ==
    ASSUME NEW s, Sorted(s), NEW c \in Chars(s)
    PROVE  LET ends == {j \in DOMAIN s : s[j] >= c}
           IN  s # <<>> /\ ends # {} /\ ~(s[1] > c) /\ s[Min(ends)] = c
<1> DEFINE n == Len(s)
           ends == {j \in DOMAIN s : s[j] >= c}
<1>1. /\ s \in Label /\ n \in Nat /\ DOMAIN s = 1 .. n /\ \A k \in 1 .. n : s[k] \in Nat
      /\ \A i, j \in 1 .. n : i < j => s[i] < s[j]
  BY DEF Sorted, Label
<1>2. PICK k \in 1 .. n : s[k] = c
  BY DEF Chars
<1>3. k \in ends /\ ends \subseteq Nat /\ ends \subseteq 1 .. n
  BY <1>1, <1>2
<1>4. Min(ends) \in ends /\ Min(ends) <= k
  BY <1>3, Least
<1>5. Min(ends) \in 1 .. n /\ s[Min(ends)] >= c
  BY <1>3, <1>4
<1> DEFINE m == Min(ends)
<1> HIDE DEF m
<1>6. m = k
  <2>1. m \in 1 .. n /\ s[m] >= c /\ m <= k
    BY <1>4, <1>5 DEF m
  <2>2. m < k => s[m] < s[k]
    BY <1>1, <2>1
  <2> QED
    BY <1>1, <1>2, <2>1, <2>2
<1>7. ~(s[1] > c)
  <2>1. 1 \in 1 .. n /\ (1 = k \/ 1 < k)
    BY <1>1, <1>2
  <2>2. 1 < k => s[1] < s[k]
    BY <1>1, <2>1
  <2> QED
    BY <1>1, <1>2, <2>1, <2>2
<1>8. s # <<>>
  BY <1>1, <1>2
<1>9. s[Min(ends)] = c
  BY <1>2, <1>6 DEF m
<1> QED
  BY <1>3, <1>7, <1>8, <1>9

-----------------------------------------------------------------------------
(* The invariant of the tree *)

\* What is registered.
Registered(m) == {k \in TrieKeys : m[k] # 0}

\* The strings that lead to it, which are the nodes there should be.
Spelling(m) == {<<>>} \cup UNION {Prefixes(k) : k \in Registered(m)}

\* Each node says what is registered there, and its Child list which strings go
\* on from it, in order.
NodesTrue(T, m) ==
    \A p \in DOMAIN T :
        /\ T[p].value = IF p \in TrieKeys THEN m[p] ELSE 0
        /\ Sorted(T[p].kids) /\ Chars(T[p].kids) = {c \in Nat : Append(p, c) \in DOMAIN T}

TrieInv(T, a, m) ==
    /\ m \in [TrieKeys -> Values \cup {0}]
    /\ DOMAIN T = Spelling(m) /\ NodesTrue(T, m)
    /\ IsFiniteSet(DOMAIN T) /\ a = Cardinality(DOMAIN T)

LEMMA TrieConstants ==
    TrieKeys \subseteq Label /\ <<>> \notin TrieKeys /\ Values \subseteq Nat \ {0}
  BY SessionAssumption DEF Trie!ConstantsOK, Label

LEMMA SpellingIs ==
    ASSUME NEW m
    PROVE  /\ Spelling(m) \subseteq Label /\ <<>> \in Spelling(m)
           /\ \A p : p \in Spelling(m) <=> p = <<>> \/ \E k \in Registered(m) : p \in Prefixes(k)
           /\ \A q \in Spelling(m) : \A p \in Prefixes(q) : p \in Spelling(m)
           /\ \A k \in Registered(m) : k \in Label /\ Prefixes(k) \subseteq Spelling(m) /\ k \in Spelling(m)
<1>1. \A p : p \in Spelling(m) <=> p = <<>> \/ \E k \in Registered(m) : p \in Prefixes(k)
  BY DEF Spelling
<1>2. \A k \in Registered(m) : k \in Label
  BY TrieConstants DEF Registered
<1>3. <<>> \in Label /\ Prefixes(<<>>) = {<<>>}
  <2>1. <<>> \in Label /\ Len(<<>>) = 0
    BY DEF Label
  <2>2. ASSUME NEW p \in Prefixes(<<>>)  PROVE p = <<>>
    <3>1. p \in Label /\ Len(p) <= 0
      BY <2>1, PrefixesIs
    <3> QED
      BY <3>1 DEF Label
  <2> QED
    BY <2>1, <2>2, PrefixEnds
<1>4. Spelling(m) \subseteq Label
  BY <1>1, <1>2, <1>3, PrefixEnds
<1>5. ASSUME NEW q \in Spelling(m), NEW p \in Prefixes(q)  PROVE p \in Spelling(m)
  <2>1. CASE q = <<>>
    BY <1>1, <1>3, <2>1
  <2>2. CASE \E k \in Registered(m) : q \in Prefixes(k)
    BY <1>1, <1>2, <2>2, PrefixOfPrefix
  <2> QED
    BY <1>1, <2>1, <2>2
<1>6. \A k \in Registered(m) : Prefixes(k) \subseteq Spelling(m) /\ k \in Spelling(m)
  BY <1>1, <1>2, PrefixEnds
<1> QED
  BY <1>1, <1>2, <1>4, <1>5, <1>6

\* What the tree says of any string, whether there is a node for it or not.
LEMMA NodeIs ==
    ASSUME TrieInv(trie, alive, named), NEW p \in Label
    PROVE  /\ Trie!Value(p) = IF p \in TrieKeys THEN named[p] ELSE 0
           /\ Sorted(Trie!Kids(p))
           /\ \A c \in Nat : c \in Chars(Trie!Kids(p)) <=> Append(p, c) \in DOMAIN trie
           /\ Chars(Trie!Kids(p)) \subseteq Nat
<1>1. CASE p \in DOMAIN trie
  BY <1>1 DEF TrieInv, NodesTrue, Trie!Value, Trie!Kids
<1>2. CASE p \notin DOMAIN trie
  <2>1. Trie!Value(p) = 0 /\ Trie!Kids(p) = <<>>
    BY <1>2 DEF Trie!Value, Trie!Kids
  <2>2. Sorted(<<>>) /\ Chars(<<>>) = {}
    BY DEF Sorted, Chars, Label
  <2>3. p \in TrieKeys => named[p] = 0
    BY <1>2, SpellingIs DEF TrieInv, Registered
  <2>4. ASSUME NEW c \in Nat, Append(p, c) \in DOMAIN trie  PROVE FALSE
    <3>1. Append(p, c) \in Label /\ Append(p, c) \in Prefixes(Append(p, c))
      BY PrefixMore, PrefixEnds
    <3>2. p \in Prefixes(Append(p, c))
      BY <3>1, PrefixMore
    <3>3. p \in Spelling(named)
      BY <2>4, <3>2, SpellingIs DEF TrieInv
    <3> QED
      BY <1>2, <3>3 DEF TrieInv
  <2> QED
    BY <2>1, <2>2, <2>3, <2>4
<1> QED
  BY <1>1, <1>2

LEMMA TrieStarts ==
    ASSUME Trie!Init
    PROVE  TrieInv(trie, alive, named)
<1>1. trie = [p \in {<<>>} |-> [value |-> 0, kids |-> <<>>]] /\ alive = 1 /\ named = [k \in TrieKeys |-> 0]
  BY DEF Trie!Init
<1>2. Registered(named) = {}
  BY <1>1 DEF Registered
<1>3. DOMAIN trie = {<<>>} /\ Spelling(named) = {<<>>}
  BY <1>1, <1>2 DEF Spelling
<1>4. Sorted(<<>>) /\ Chars(<<>>) = {}
  BY DEF Sorted, Chars, Label
<1>5. \A c \in Nat : Append(<<>>, c) # <<>>
  <2>1. <<>> \in Label
    BY DEF Label
  <2> QED
    BY <2>1, PrefixMore
<1>6. NodesTrue(trie, named)
  <2>1. trie[<<>>].value = 0 /\ trie[<<>>].kids = <<>>
    BY <1>1
  <2>2. {c \in Nat : Append(<<>>, c) \in DOMAIN trie} = {}
    BY <1>3, <1>5
  <2> QED
    BY <1>3, <1>4, <2>1, <2>2, TrieConstants DEF NodesTrue
<1>7. IsFiniteSet(DOMAIN trie) /\ Cardinality(DOMAIN trie) = 1
  BY <1>3, FS_Singleton
<1>8. named \in [TrieKeys -> Values \cup {0}]
  BY <1>1
<1> QED
  BY <1>1, <1>3, <1>6, <1>7, <1>8 DEF TrieInv

LEMMA RegisterKeeps ==
    ASSUME TrieInv(trie, alive, named), NEW k \in TrieKeys, NEW v \in Values, Trie!Register(k, v)
    PROVE  TrieInv(trie', alive', named')
<1> DEFINE D == DOMAIN trie
           T == trie'
           m == named'
<1>1. k \in Label /\ v # 0 /\ <<>> \notin TrieKeys
  BY TrieConstants
<1>2. /\ m = [named EXCEPT ![k] = v]
      /\ alive' = alive + Cardinality(Prefixes(k) \ D)
      /\ T = Trie!NSInsert(k, v)
  <2>1. /\ named' = [named EXCEPT ![k] = v] /\ trie' = Trie!NSInsert(k, v)
        /\ alive' = alive + Trie!Cardinality(Trie!Prefixes(k) \ D)
    BY DEF Trie!Register
  <2>2. /\ Trie!Prefixes(k) = Prefixes(k)
        /\ Trie!Cardinality(Prefixes(k) \ D) = Cardinality(Prefixes(k) \ D)
    BY TrieNames
  <2> QED
    BY <2>1, <2>2
<1>3. /\ DOMAIN T = D \cup Prefixes(k)
      /\ \A p \in DOMAIN T :
           /\ T[p].value = IF p = k THEN v ELSE Trie!Value(p)
           /\ T[p].kids = IF IsStrictPrefix(p, k) THEN Trie!AddSibling(Trie!Kids(p), k[Len(p) + 1])
                                                  ELSE Trie!Kids(p)
  BY <1>2, TrieNames DEF Trie!NSInsert
<1>4. m \in [TrieKeys -> Values \cup {0}] /\ \A j \in TrieKeys : m[j] = IF j = k THEN v ELSE named[j]
  BY <1>2 DEF TrieInv
<1> HIDE DEF T, m
<1>5. Registered(m) = Registered(named) \cup {k}
  BY <1>1, <1>4 DEF Registered
<1>6. Spelling(m) = Spelling(named) \cup Prefixes(k)
  BY <1>5 DEF Spelling
<1>7. DOMAIN T = Spelling(m) /\ DOMAIN T \subseteq Label /\ D \subseteq Label
  <2>1. D = Spelling(named)
    BY DEF TrieInv
  <2> QED
    BY <1>3, <1>6, <2>1, SpellingIs
<1>8. ASSUME NEW p \in DOMAIN T
      PROVE  /\ T[p].value = IF p \in TrieKeys THEN m[p] ELSE 0
             /\ Sorted(T[p].kids)
             /\ Chars(T[p].kids) = {c \in Nat : Append(p, c) \in DOMAIN T}
  <2>1. p \in Label
    BY <1>7
  <2>2. /\ Trie!Value(p) = IF p \in TrieKeys THEN named[p] ELSE 0
        /\ Sorted(Trie!Kids(p))
        /\ \A c \in Nat : c \in Chars(Trie!Kids(p)) <=> Append(p, c) \in D
        /\ Chars(Trie!Kids(p)) \subseteq Nat
    BY <2>1, NodeIs
  <2>3. T[p].value = IF p \in TrieKeys THEN m[p] ELSE 0
    BY <1>3, <1>4, <2>2
  <2>4. \A c \in Nat : Append(p, c) \in Prefixes(k) <=>
            p \in Prefixes(k) /\ Len(p) < Len(k) /\ k[Len(p) + 1] = c
    BY <1>1, <2>1, PrefixMore
  <2>5. CASE IsStrictPrefix(p, k)
    <3>1. p \in Prefixes(k) /\ Len(p) < Len(k)
      BY <1>1, <2>1, <2>5, StrictPrefixIs
    <3> DEFINE e == k[Len(p) + 1]
    <3>2. e \in Nat
      <4>1. Len(p) + 1 \in 1 .. Len(k)
        BY <1>1, <2>1, <3>1 DEF Label
      <4> QED
        BY <1>1, <4>1 DEF Label
    <3>3. T[p].kids = Trie!AddSibling(Trie!Kids(p), e)
      BY <1>3, <2>5
    <3> HIDE DEF e
    <3>4. Sorted(T[p].kids) /\ Chars(T[p].kids) = Chars(Trie!Kids(p)) \cup {e}
      BY <2>2, <3>2, <3>3, AddSiblingIs
    <3>5. \A c \in Nat : Append(p, c) \in Prefixes(k) <=> c = e
      BY <2>4, <3>1 DEF e
    <3>6. Chars(T[p].kids) = {c \in Nat : Append(p, c) \in DOMAIN T}
      BY <1>3, <2>2, <3>2, <3>4, <3>5
    <3> QED
      BY <2>3, <3>4, <3>6
  <2>6. CASE ~IsStrictPrefix(p, k)
    <3>1. \A c \in Nat : Append(p, c) \notin Prefixes(k)
      BY <1>1, <2>1, <2>4, <2>6, StrictPrefixIs
    <3>2. T[p].kids = Trie!Kids(p)
      BY <1>3, <2>6
    <3>3. Chars(T[p].kids) = {c \in Nat : Append(p, c) \in DOMAIN T}
      BY <1>3, <2>2, <3>1, <3>2
    <3> QED
      BY <2>2, <2>3, <3>2, <3>3
  <2> QED
    BY <2>5, <2>6
<1>9. IsFiniteSet(DOMAIN T) /\ alive' = Cardinality(DOMAIN T)
  <2> DEFINE P == Prefixes(k) \ D
  <2>1. IsFiniteSet(D) /\ IsFiniteSet(P) /\ alive = Cardinality(D)
    <3>1. IsFiniteSet(Prefixes(k))
      BY <1>1, PrefixesFinite
    <3> QED
      BY <3>1, FS_Difference DEF TrieInv
  <2>2. DOMAIN T = D \cup P /\ D \cap P = {}
    BY <1>3
  <2>3. IsFiniteSet(D \cup P) /\ Cardinality(D \cup P) = Cardinality(D) + Cardinality(P) - Cardinality(D \cap P)
    BY <2>1, FS_Union
  <2>4. Cardinality(D \cap P) = 0 /\ Cardinality(D) \in Nat /\ Cardinality(P) \in Nat
    BY <2>1, <2>2, FS_EmptySet, FS_CardinalityType
  <2>5. alive' = Cardinality(D) + Cardinality(P)
    BY <1>2, <2>1
  <2> HIDE DEF P, D
  <2> QED
    BY <2>2, <2>3, <2>4, <2>5
<1>10. NodesTrue(T, m)
  BY <1>8 DEF NodesTrue
<1> QED
  BY <1>4, <1>7, <1>9, <1>10 DEF TrieInv, T, m

-----------------------------------------------------------------------------
(* Deleting from the tree *)

\* What is left when k is deleted.
LEMMA WithoutKey ==
    ASSUME TrieInv(trie, alive, named), NEW k \in Registered(named),
           NEW m, m = [named EXCEPT ![k] = 0]
    PROVE  /\ m \in [TrieKeys -> Values \cup {0}] /\ k \in Label
           /\ \A j \in TrieKeys : m[j] = IF j = k THEN 0 ELSE named[j]
           /\ Registered(m) = Registered(named) \ {k}
           /\ DOMAIN trie = Spelling(m) \cup Prefixes(k)
<1>1. k \in TrieKeys /\ k \in Label
  BY TrieConstants DEF Registered
<1>2. m \in [TrieKeys -> Values \cup {0}] /\ \A j \in TrieKeys : m[j] = IF j = k THEN 0 ELSE named[j]
  BY <1>1 DEF TrieInv
<1>3. Registered(m) = Registered(named) \ {k}
  BY <1>2 DEF Registered
<1>4. DOMAIN trie = Spelling(m) \cup Prefixes(k)
  BY <1>3 DEF TrieInv, Spelling
<1> QED
  BY <1>1, <1>2, <1>3, <1>4

\* A node that goes on elsewhere than along k leads to another key.
LEMMA OtherwiseLeads ==
    ASSUME TrieInv(trie, alive, named), NEW k \in Registered(named),
           NEW m, m = [named EXCEPT ![k] = 0], NEW q \in Prefixes(k),
           NEW c \in Chars(Trie!Kids(q)), Append(q, c) \notin Prefixes(k)
    PROVE  q \in Spelling(m)
<1>1. k \in Label /\ q \in Label
  BY WithoutKey, PrefixEnds
<1>2. c \in Nat /\ Append(q, c) \in DOMAIN trie
  BY <1>1, NodeIs
<1>3. Append(q, c) \in Spelling(m)
  <2>1. DOMAIN trie = Spelling(m) \cup Prefixes(k)
    BY WithoutKey
  <2> QED
    BY <1>2, <2>1
<1>4. Append(q, c) \in Label /\ Append(q, c) \in Prefixes(Append(q, c))
  BY <1>1, <1>2, PrefixMore, PrefixEnds
<1>5. q \in Prefixes(Append(q, c))
  BY <1>1, <1>2, <1>4, PrefixMore
<1> QED
  BY <1>3, <1>5, SpellingIs

\* NSDelete stops at a node that carries another key, and rightly.
LEMMA CarriesLeads ==
    ASSUME TrieInv(trie, alive, named), NEW k \in Registered(named),
           NEW m, m = [named EXCEPT ![k] = 0], NEW q \in Prefixes(k), Trie!Carries(q, k)
    PROVE  q \in Spelling(m)
<1> DEFINE K == Trie!Kids(q)
<1>1. k \in Label /\ q \in Label
  BY WithoutKey, PrefixEnds
<1>2. q = <<>> \/ (q # k /\ Trie!Value(q) # 0) \/ Len(K) > (IF q = k THEN 0 ELSE 1)
  BY DEF Trie!Carries
<1>3. Sorted(K) /\ Len(K) \in Nat /\ \A j \in 1 .. Len(K) : K[j] \in Chars(K) /\ K[j] \in Nat
  <2>1. Sorted(K) /\ K \in Label
    BY <1>1, NodeIs DEF Sorted
  <2> QED
    BY <2>1 DEF Chars, Label
<1> HIDE DEF K
<1>4. CASE q = <<>>
  BY <1>4, SpellingIs
<1>5. CASE q # k /\ Trie!Value(q) # 0
  <2>1. q \in TrieKeys /\ named[q] # 0
    BY <1>1, <1>5, NodeIs
  <2>2. q \in Registered(m)
    BY <1>5, <2>1, WithoutKey DEF Registered
  <2> QED
    BY <2>2, SpellingIs
<1>6. CASE q = k /\ Len(K) > 0
  <2>1. 1 \in 1 .. Len(K) /\ K[1] \in Chars(K) /\ K[1] \in Nat
    BY <1>3, <1>6
  <2>2. Append(q, K[1]) \notin Prefixes(k)
    <3>1. Len(q) \in Nat /\ ~(Len(q) < Len(k))
      BY <1>1, <1>6 DEF Label
    <3> QED
      BY <1>1, <2>1, <3>1, PrefixMore
  <2> QED
    BY <2>1, <2>2, OtherwiseLeads DEF K
<1>7. CASE q # k /\ Len(K) > 1
  <2>1. 1 \in 1 .. Len(K) /\ 2 \in 1 .. Len(K) /\ 1 < 2
    BY <1>3, <1>7
  <2>2. K[1] \in Chars(K) /\ K[2] \in Chars(K) /\ K[1] \in Nat /\ K[2] \in Nat /\ K[1] < K[2]
    BY <1>3, <2>1 DEF Sorted
  <2>3. PICK c \in {K[1], K[2]} : c # k[Len(q) + 1]
    BY <2>2
  <2>4. c \in Chars(K) /\ c \in Nat
    BY <2>2
  <2>5. Append(q, c) \notin Prefixes(k)
    BY <1>1, <2>3, <2>4, PrefixMore
  <2> QED
    BY <2>4, <2>5, OtherwiseLeads DEF K
<1> QED
  BY <1>2, <1>3, <1>4, <1>5, <1>6, <1>7

\* And it comes upon one before it frees what leads to another key.
LEMMA LeadsCarried ==
    ASSUME TrieInv(trie, alive, named), NEW k \in Registered(named),
           NEW m, m = [named EXCEPT ![k] = 0], NEW p \in Prefixes(k), p \in Spelling(m)
    PROVE  \E q \in Prefixes(k) : Trie!Carries(q, k) /\ Len(p) <= Len(q)
<1>1. k \in Label /\ p \in Label /\ Len(k) \in Nat /\ Len(p) \in Nat /\ Len(p) <= Len(k)
  <2>1. k \in Label /\ p \in Label
    BY WithoutKey, PrefixEnds
  <2>2. Len(p) <= Len(k)
    BY <2>1, PrefixesIs
  <2> QED
    BY <2>1, <2>2 DEF Label
<1>2. CASE p = <<>>
  <2>1. Trie!Carries(p, k) /\ Len(p) <= Len(p)
    BY <1>1, <1>2 DEF Trie!Carries
  <2> QED
    BY <2>1
<1>3. CASE p # <<>>
  <2>1. PICK o \in Registered(m) : p \in Prefixes(o)
    BY <1>3, SpellingIs
  <2>2. o \in Registered(named) /\ o # k /\ o \in Label /\ Len(o) \in Nat
    <3>1. o \in Registered(named) /\ o # k
      <4>1. Registered(m) = Registered(named) \ {k}
        BY WithoutKey
      <4> QED
        BY <2>1, <4>1
    <3> QED
      BY <3>1, SpellingIs DEF Label
  <2> DEFINE S == {n \in 0 .. Len(k) : SubSeq(k, 1, n) \in Prefixes(o)}
  <2>3. \A n \in 0 .. Len(k) : /\ SubSeq(k, 1, n) \in Prefixes(k) /\ SubSeq(k, 1, n) \in Label
                               /\ Len(SubSeq(k, 1, n)) = n
    BY <1>1, PrefixAt DEF Prefixes
  <2>4. Len(p) \in S
    <3>1. Len(p) \in 0 .. Len(k)
      BY <1>1
    <3>2. SubSeq(k, 1, Len(p)) = p
      <4>1. /\ SubSeq(k, 1, Len(p)) \in Prefixes(k)
            /\ Len(SubSeq(k, 1, Len(p))) = Len(p) /\ Len(p) <= Len(p)
        BY <1>1, <2>3, <3>1
      <4> QED
        BY <1>1, <4>1, PrefixPair, ZenonT(60)
    <3> QED
      BY <2>1, <3>1, <3>2
  <2>5. PICK n \in S : \A j \in S : j <= n
    <3>1. S \subseteq 0 .. Len(k) /\ S # {}
      BY <2>4
    <3> QED
      BY <1>1, <3>1, Longest
  <2> DEFINE q == SubSeq(k, 1, n)
  <2>6. /\ n \in 0 .. Len(k) /\ q \in Prefixes(k) /\ q \in Prefixes(o) /\ q \in Label
        /\ Len(q) = n /\ Len(p) <= n
    BY <2>3, <2>4, <2>5
  <2> HIDE DEF q
  <2>7. Len(q) <= Len(o)
    BY <2>2, <2>6, PrefixesIs
  <2> DEFINE K == Trie!Kids(q)
  <2>8. /\ Sorted(K) /\ K \in Label /\ Len(K) \in Nat
        /\ \A c \in Nat : c \in Chars(K) <=> Append(q, c) \in DOMAIN trie
    <3>1. Sorted(K) /\ \A c \in Nat : c \in Chars(K) <=> Append(q, c) \in DOMAIN trie
      BY <2>6, NodeIs
    <3> QED
      BY <3>1 DEF Sorted, Label
  <2> HIDE DEF K
  <2>9. Trie!Carries(q, k)
    <3>1. CASE Len(q) = Len(o)
      <4>1. q = o
        BY <2>2, <2>6, <3>1, PrefixPair, PrefixEnds
      <4>2. Trie!Value(q) # 0
        BY <2>2, <2>6, <4>1, NodeIs DEF Registered
      <4> QED
        BY <2>2, <4>1, <4>2 DEF Trie!Carries
    <3>2. CASE Len(q) < Len(o)
      <4> DEFINE d == o[n + 1]
      <4>1. d \in Nat
        <5>1. n + 1 \in 1 .. Len(o)
          BY <2>2, <2>6, <3>2
        <5> QED
          BY <2>2, <5>1 DEF Label
      <4>2. Append(q, d) \in Prefixes(o)
        BY <2>2, <2>6, <3>2, <4>1, PrefixMore
      <4>3. d \in Chars(K)
        <5>1. Prefixes(o) \subseteq DOMAIN trie
          BY <2>2, SpellingIs DEF TrieInv
        <5> QED
          BY <2>8, <4>1, <4>2, <5>1
      <4> HIDE DEF d
      <4>4. PICK j \in 1 .. Len(K) : K[j] = d
        BY <4>3 DEF Chars
      <4>5. CASE q = k
        <5>1. Len(K) > 0
          BY <2>8, <4>4
        <5> QED
          BY <4>5, <5>1 DEF Trie!Carries, K
      <4>6. CASE q # k
        <5>1. n < Len(k)
          <6>1. q \in Prefixes(k) /\ k \in Prefixes(k) /\ (Len(q) <= Len(k) /\ Len(q) = Len(k) => q = k)
            BY <1>1, <2>6, PrefixPair, PrefixEnds
          <6> QED
            BY <1>1, <2>6, <4>6, <6>1
        <5> DEFINE e == k[n + 1]
        <5>2. n + 1 \in 1 .. Len(k) /\ n + 1 \in 0 .. Len(k) /\ n \in Nat /\ e \in Nat
          <6>1. n + 1 \in 1 .. Len(k) /\ n + 1 \in 0 .. Len(k) /\ n \in Nat
            BY <1>1, <2>6, <5>1
          <6> QED
            BY <1>1, <6>1 DEF Label
        <5>3. Append(q, e) \in Prefixes(k) /\ Len(Append(q, e)) = n + 1
          BY <1>1, <2>6, <5>1, <5>2, PrefixMore
        <5> HIDE DEF e
        <5>4. e \in Chars(K)
          <6>1. Prefixes(k) \subseteq DOMAIN trie
            BY SpellingIs DEF TrieInv
          <6> QED
            BY <2>8, <5>2, <5>3, <6>1
        <5>5. d # e
          <6>1. SUFFICES ASSUME d = e  PROVE FALSE
            OBVIOUS
          <6>2. SubSeq(k, 1, n + 1) = Append(q, e)
            <7>1. /\ SubSeq(k, 1, n + 1) \in Prefixes(k) /\ Len(SubSeq(k, 1, n + 1)) = n + 1
              BY <2>3, <5>2
            <7>2. Len(SubSeq(k, 1, n + 1)) <= Len(Append(q, e))
              BY <5>2, <5>3, <7>1
            <7> QED
              BY <1>1, <5>3, <7>1, <7>2, PrefixPair, ZenonT(60)
          <6>3. n + 1 \in S
            BY <4>2, <5>2, <6>1, <6>2
          <6>4. n + 1 <= n
            BY <2>5, <6>3
          <6> QED
            BY <5>2, <6>4
        <5>6. PICK i \in 1 .. Len(K) : K[i] = e
          BY <5>4 DEF Chars
        <5>7. Len(K) > 1
          BY <2>8, <4>4, <5>5, <5>6
        <5> QED
          BY <4>6, <5>7 DEF Trie!Carries, K
      <4> QED
        BY <4>5, <4>6
    <3> QED
      BY <2>2, <2>6, <2>7, <3>1, <3>2
  <2> QED
    BY <2>6, <2>9
<1> QED
  BY <1>2, <1>3

\* Where NSDelete stops.
Keep(k) ==
    CHOOSE p \in Prefixes(k) :
        Trie!Carries(p, k) /\ \A q \in Prefixes(k) : Trie!Carries(q, k) => Len(q) <= Len(p)

LEMMA KeepIs ==
    ASSUME TrieInv(trie, alive, named), NEW k \in Registered(named),
           NEW m, m = [named EXCEPT ![k] = 0]
    PROVE  /\ Keep(k) \in Prefixes(k)
           /\ \A p \in Prefixes(k) : p \in Spelling(m) <=> Len(p) <= Len(Keep(k))
<1>1. k \in Label /\ Len(k) \in Nat
  <2>1. k \in Label
    BY WithoutKey
  <2> QED
    BY <2>1 DEF Label
<1>2. \A p \in Prefixes(k) : p \in Label /\ Len(p) \in 0 .. Len(k)
  <2>1. \A p \in Prefixes(k) : p \in Label /\ Len(p) <= Len(k)
    BY <1>1, PrefixesIs
  <2> QED
    BY <1>1, <2>1 DEF Label
<1> DEFINE S == {Len(p) : p \in {q \in Prefixes(k) : Trie!Carries(q, k)}}
<1>3. S \subseteq 0 .. Len(k) /\ S # {}
  <2>1. <<>> \in Prefixes(k) /\ Trie!Carries(<<>>, k)
    BY <1>1, PrefixEnds DEF Trie!Carries
  <2> QED
    BY <1>2, <2>1
<1>4. PICK x \in S : \A y \in S : y <= x
  BY <1>1, <1>3, Longest
<1>5. PICK p \in Prefixes(k) : Trie!Carries(p, k) /\ Len(p) = x
  BY <1>4
<1>6. \A q \in Prefixes(k) : Trie!Carries(q, k) => Len(q) <= Len(p)
  BY <1>4, <1>5
<1>7. /\ Keep(k) \in Prefixes(k) /\ Trie!Carries(Keep(k), k)
      /\ \A q \in Prefixes(k) : Trie!Carries(q, k) => Len(q) <= Len(Keep(k))
  BY <1>5, <1>6 DEF Keep
<1>8. Keep(k) \in Spelling(m)
  BY <1>7, CarriesLeads
<1>9. ASSUME NEW q \in Prefixes(k), Len(q) <= Len(Keep(k))  PROVE q \in Spelling(m)
  <2>1. q \in Prefixes(Keep(k))
    BY <1>1, <1>7, <1>9, PrefixPair
  <2> QED
    BY <1>8, <2>1, SpellingIs
<1>10. ASSUME NEW q \in Prefixes(k), q \in Spelling(m)  PROVE Len(q) <= Len(Keep(k))
  <2>1. PICK r \in Prefixes(k) : Trie!Carries(r, k) /\ Len(q) <= Len(r)
    BY <1>10, LeadsCarried
  <2>2. Len(r) <= Len(Keep(k))
    BY <1>7, <2>1
  <2>3. Len(q) \in Nat /\ Len(r) \in Nat /\ Len(Keep(k)) \in Nat
    BY <1>1, <1>2, <1>7
  <2> QED
    BY <2>1, <2>2, <2>3
<1> QED
  BY <1>7, <1>9, <1>10

LEMMA UnregisterKeeps ==
    ASSUME TrieInv(trie, alive, named), NEW k \in TrieKeys, Trie!Unregister(k)
    PROVE  TrieInv(trie', alive', named')
<1> DEFINE D == DOMAIN trie
           T == trie'
           m == named'
           keep == Keep(k)
           gone == {p \in Prefixes(k) : Len(p) > Len(keep)}
<1>1. /\ k \in D /\ Trie!Value(k) # 0 /\ m = [named EXCEPT ![k] = 0] /\ T = Trie!NSDelete(k)
      /\ alive' = alive - Cardinality(D \ DOMAIN T)
  <2>1. /\ k \in D /\ Trie!Value(k) # 0 /\ named' = [named EXCEPT ![k] = 0]
        /\ trie' = Trie!NSDelete(k) /\ alive' = alive - Trie!Cardinality(D \ DOMAIN trie')
    BY DEF Trie!Unregister
  <2>2. Trie!Cardinality(D \ DOMAIN trie') = Cardinality(D \ DOMAIN trie')
    BY TrieNames
  <2> QED
    BY <2>1, <2>2
<1>2. k \in Registered(named)
  <2>1. k \in Label
    BY TrieConstants
  <2> QED
    BY <1>1, <2>1, NodeIs DEF Registered
<1>3. /\ DOMAIN T = D \ gone
      /\ \A p \in DOMAIN T :
           /\ T[p].value = IF p = k THEN 0 ELSE Trie!Value(p)
           /\ T[p].kids = IF p = keep /\ keep # k THEN Trie!DelSibling(Trie!Kids(p), k[Len(p) + 1])
                                                  ELSE Trie!Kids(p)
  <2>1. Trie!Prefixes(k) = Prefixes(k)
    BY TrieNames
  <2> QED
    BY <1>1, <2>1 DEF Trie!NSDelete, Keep
<1> HIDE DEF T, m, keep, D
<1>4. /\ m \in [TrieKeys -> Values \cup {0}] /\ k \in Label
      /\ \A j \in TrieKeys : m[j] = IF j = k THEN 0 ELSE named[j]
      /\ D = Spelling(m) \cup Prefixes(k)
  BY <1>1, <1>2, WithoutKey DEF D
<1>5. keep \in Prefixes(k) /\ \A p \in Prefixes(k) : p \in Spelling(m) <=> Len(p) <= Len(keep)
  BY <1>1, <1>2, KeepIs DEF keep
<1>6. Len(keep) \in Nat /\ keep \in Label /\ Len(k) \in Nat /\ \A p \in Prefixes(k) : p \in Label /\ Len(p) \in Nat
  BY <1>4, <1>5, PrefixEnds DEF Label
<1>7. \A p : p \in gone <=> p \in Prefixes(k) /\ p \notin Spelling(m)
  BY <1>5, <1>6
<1> HIDE DEF gone
<1>8. DOMAIN T = Spelling(m) /\ DOMAIN T \subseteq Label
  BY <1>3, <1>4, <1>7, SpellingIs
<1>9. ASSUME NEW p \in DOMAIN T
      PROVE  /\ T[p].value = IF p \in TrieKeys THEN m[p] ELSE 0
             /\ Sorted(T[p].kids)
             /\ Chars(T[p].kids) = {c \in Nat : Append(p, c) \in DOMAIN T}
  <2>1. p \in Label /\ Len(p) \in Nat /\ p \in Spelling(m)
    BY <1>8 DEF Label
  <2> DEFINE K == Trie!Kids(p)
  <2>2. /\ Trie!Value(p) = IF p \in TrieKeys THEN named[p] ELSE 0
        /\ Sorted(K) /\ Chars(K) \subseteq Nat
        /\ \A c \in Nat : c \in Chars(K) <=> Append(p, c) \in D
    BY <2>1, NodeIs DEF D
  <2>3. T[p].value = IF p \in TrieKeys THEN m[p] ELSE 0
    BY <1>3, <1>4, <2>2
  <2>4. \A c \in Nat : /\ Len(Append(p, c)) = Len(p) + 1
                       /\ Append(p, c) \in Prefixes(k) <=>
                            p \in Prefixes(k) /\ Len(p) < Len(k) /\ k[Len(p) + 1] = c
    BY <1>4, <2>1, PrefixMore
  <2> HIDE DEF K
  <2>5. CASE p = keep /\ keep # k
    <3> DEFINE e == k[Len(p) + 1]
    <3>1. p \in Prefixes(k) /\ Len(p) < Len(k)
      <4>1. Len(p) <= Len(k)
        BY <1>4, <1>5, <2>5, PrefixesIs
      <4>2. Len(p) # Len(k)
        BY <1>4, <1>5, <2>5, <4>1, PrefixPair, PrefixEnds
      <4> QED
        BY <1>5, <1>6, <2>1, <2>5, <4>1, <4>2
    <3>2. e \in Nat
      <4>1. Len(p) + 1 \in 1 .. Len(k)
        BY <1>6, <2>1, <3>1
      <4> QED
        BY <1>4, <4>1 DEF Label
    <3>3. Append(p, e) \in Prefixes(k) /\ Len(Append(p, e)) = Len(p) + 1
      BY <2>4, <3>1, <3>2
    <3>4. T[p].kids = Trie!DelSibling(K, e)
      BY <1>3, <2>5 DEF K
    <3>5. \A c \in Nat : Append(p, c) \in Prefixes(k) <=> c = e
      BY <2>4, <3>1
    <3> HIDE DEF e
    <3>6. Append(p, e) \notin Spelling(m)
      <4>1. ~(Len(Append(p, e)) <= Len(keep))
        BY <1>6, <2>5, <3>3
      <4> QED
        BY <1>5, <3>3, <4>1
    <3>7. e \in Chars(K)
      BY <1>4, <2>2, <3>2, <3>3
    <3>8. Sorted(T[p].kids) /\ Chars(T[p].kids) = Chars(K) \ {e}
      BY <2>2, <3>4, <3>7, DelSiblingIs
    <3>9. \A c \in Nat : c \in Chars(K) /\ c # e <=> Append(p, c) \in DOMAIN T
      BY <1>4, <1>8, <2>2, <3>5, <3>6
    <3>10. Chars(T[p].kids) = {c \in Nat : Append(p, c) \in DOMAIN T}
      BY <2>2, <3>8, <3>9
    <3> QED
      BY <2>3, <3>8, <3>10
  <2>6. CASE ~(p = keep /\ keep # k)
    <3>1. T[p].kids = K
      BY <1>3, <2>6 DEF K
    <3>2. ASSUME NEW c \in Nat, Append(p, c) \in Prefixes(k)  PROVE Append(p, c) \in Spelling(m)
      <4>1. p \in Prefixes(k) /\ Len(p) < Len(k) /\ Len(p) <= Len(keep) /\ Len(Append(p, c)) = Len(p) + 1
        BY <1>5, <2>1, <2>4, <3>2
      <4>2. Len(p) # Len(keep)
        <5>1. SUFFICES ASSUME Len(p) = Len(keep)  PROVE FALSE
          OBVIOUS
        <5>2. p = keep
          BY <1>4, <1>5, <4>1, <5>1, PrefixPair
        <5> QED
          BY <1>6, <2>6, <4>1, <5>2
      <4>3. Len(Append(p, c)) <= Len(keep)
        BY <1>6, <2>1, <4>1, <4>2
      <4> QED
        BY <1>5, <3>2, <4>3
    <3>3. \A c \in Nat : c \in Chars(K) <=> Append(p, c) \in DOMAIN T
      BY <1>4, <1>8, <2>2, <3>2
    <3>4. Chars(K) = {c \in Nat : Append(p, c) \in DOMAIN T}
      BY <2>2, <3>3
    <3> QED
      BY <2>2, <2>3, <3>1, <3>4
  <2> QED
    BY <2>5, <2>6
<1>10. IsFiniteSet(DOMAIN T) /\ alive' = Cardinality(DOMAIN T)
  <2>1. IsFiniteSet(D) /\ alive = Cardinality(D)
    BY DEF TrieInv, D
  <2>2. DOMAIN T \subseteq D
    BY <1>3
  <2>3. IsFiniteSet(DOMAIN T) /\ Cardinality(D) \in Nat /\ Cardinality(DOMAIN T) \in Nat
    BY <2>1, <2>2, FS_Subset, FS_CardinalityType
  <2>4. Cardinality(D \ DOMAIN T) = Cardinality(D) - Cardinality(D \cap DOMAIN T)
    BY <2>1, FS_Difference
  <2>5. D \cap DOMAIN T = DOMAIN T
    BY <2>2
  <2>6. Cardinality(D \ DOMAIN T) = Cardinality(D) - Cardinality(DOMAIN T)
    BY <2>4, <2>5
  <2> QED
    BY <1>1, <2>1, <2>3, <2>6
<1>11. NodesTrue(T, m)
  BY <1>9 DEF NodesTrue
<1> QED
  BY <1>4, <1>8, <1>10, <1>11 DEF TrieInv, T, m

-----------------------------------------------------------------------------
(* Searching *)

\* No string is the mark of a walk that has stopped.
LEMMA NotStop ==
    ASSUME NEW p \in Label
    PROVE  p # Trie!Stop
<1>1. SUFFICES ASSUME p = <<-1>>  PROVE FALSE
  BY DEF Trie!Stop
<1>2. Len(p) = 1 /\ p[1] = -1
  BY <1>1
<1>3. p[1] \in Nat
  <2>1. \A j \in 1 .. Len(p) : p[j] \in Nat
    BY DEF Label
  <2>2. 1 \in 1 .. Len(p)
    BY <1>2
  <2> QED
    BY <2>1, <2>2
<1> QED
  BY <1>2, <1>3

\* One round goes on to the next character of a key.
LEMMA SearchStepIs ==
    ASSUME TrieInv(trie, alive, named), NEW k \in Registered(named), NEW i \in 1 .. Len(k)
    PROVE  Trie!SearchStep(SubSeq(k, 1, i - 1), k[i]) = SubSeq(k, 1, i)
<1> DEFINE p == SubSeq(k, 1, i - 1)
           c == k[i]
           K == Trie!Kids(p)
<1>1. k \in Label /\ Len(k) \in Nat /\ c \in Nat
  <2>1. k \in Label
    BY SpellingIs
  <2> QED
    BY <2>1 DEF Label
<1>2. i - 1 \in 0 .. Len(k) /\ i \in 0 .. Len(k) /\ i - 1 < Len(k) /\ (i - 1) + 1 = i
  BY <1>1
<1>3. p \in Label /\ Len(p) = i - 1 /\ p \in Prefixes(k)
  <2>1. p \in Label /\ Len(p) = i - 1
    BY <1>1, <1>2, PrefixAt
  <2>2. p \in Prefixes(k)
    BY <1>2 DEF Prefixes
  <2> QED
    BY <2>1, <2>2
<1>4. SubSeq(k, 1, i) \in Prefixes(k) /\ Len(SubSeq(k, 1, i)) = i
  BY <1>1, <1>2, PrefixAt DEF Prefixes
<1> HIDE DEF p, c
<1>5. Append(p, c) \in Prefixes(k) /\ Len(Append(p, c)) = i
  <2>1. Len(p) < Len(k) /\ k[Len(p) + 1] = c /\ Len(p) + 1 = i
    BY <1>2, <1>3 DEF c
  <2> QED
    BY <1>1, <1>3, <2>1, PrefixMore
<1>6. Append(p, c) = SubSeq(k, 1, i)
  <2>1. Len(Append(p, c)) <= Len(SubSeq(k, 1, i)) /\ Len(Append(p, c)) = Len(SubSeq(k, 1, i))
    BY <1>4, <1>5
  <2> QED
    BY <1>1, <1>4, <1>5, <2>1, PrefixPair
<1>7. Sorted(K) /\ c \in Chars(K)
  <2>1. Append(p, c) \in DOMAIN trie
    BY <1>5, SpellingIs DEF TrieInv
  <2> QED
    BY <1>1, <1>3, <2>1, NodeIs
<1>8. p # Trie!Stop
  BY <1>3, NotStop
<1> HIDE DEF K
<1> DEFINE ends == {j \in DOMAIN K : K[j] >= c}
<1>9. K # <<>> /\ ends # {} /\ ~(K[1] > c) /\ K[Min(ends)] = c
  BY <1>7, FirstNotBelow
<1>10. Trie!Min(ends) = Min(ends)
  BY TrieNames
<1>11. Trie!SearchStep(p, c) = Append(p, K[Trie!Min(ends)])
  BY <1>8, <1>9 DEF Trie!SearchStep, K
<1> HIDE DEF ends
<1>12. Trie!SearchStep(p, c) = SubSeq(k, 1, i)
  BY <1>6, <1>9, <1>10, <1>11
<1> QED
  BY <1>12 DEF p, c

\* The nodes NSSearch is at, one after the other.
IsWalk(s, f) ==
    f = [i \in 0 .. Len(s) |-> IF i = 0 THEN <<>> ELSE Trie!SearchStep(f[i - 1], s[i])]

\* A registered key is found.
LEMMA SearchFinds ==
    ASSUME TrieInv(trie, alive, named), NEW k \in Registered(named)
    PROVE  Trie!NSSearch(k) = named[k]
<1> DEFINE n == Len(k)
           walk == CHOOSE f : IsWalk(k, f)
           g == [i \in 0 .. n |-> SubSeq(k, 1, i)]
<1>1. k \in Label /\ k \in TrieKeys /\ n \in Nat
  <2>1. k \in Label /\ k \in TrieKeys
    BY SpellingIs DEF Registered
  <2> QED
    BY <2>1 DEF Label
<1>2. SubSeq(k, 1, 0) = <<>> /\ SubSeq(k, 1, n) = k
  BY <1>1 DEF Label
<1>3. IsWalk(k, g)
  <2>1. ASSUME NEW i \in 0 .. n
        PROVE  g[i] = IF i = 0 THEN <<>> ELSE Trie!SearchStep(g[i - 1], k[i])
    <3>1. CASE i = 0
      BY <1>2, <3>1
    <3>2. CASE i # 0
      <4>1. i \in 1 .. n /\ i - 1 \in 0 .. n
        BY <1>1, <3>2
      <4>2. Trie!SearchStep(SubSeq(k, 1, i - 1), k[i]) = SubSeq(k, 1, i)
        BY <4>1, SearchStepIs
      <4> QED
        BY <3>2, <4>1, <4>2
    <3> QED
      BY <3>1, <3>2
  <2>2. g = [i \in 0 .. n |-> g[i]]
    OBVIOUS
  <2> HIDE DEF g
  <2> QED
    BY <2>1, <2>2 DEF IsWalk
<1>4. IsWalk(k, walk)
  BY <1>3
<1>5. Trie!NSSearch(k) =
          IF walk[n] # Trie!Stop /\ Trie!Last(walk[n]) = Trie!Last(k) THEN Trie!Value(walk[n]) ELSE 0
  BY DEF Trie!NSSearch, IsWalk
<1> HIDE DEF walk, g
<1>6. walk[0] = <<>> /\ \A i \in 1 .. n : walk[i] = Trie!SearchStep(walk[i - 1], k[i])
  BY <1>1, <1>4 DEF IsWalk
<1> DEFINE G == {i \in 0 .. n : walk[i] = SubSeq(k, 1, i)}
<1>7. 0 \in G
  <2>1. 0 \in 0 .. n
    BY <1>1
  <2>2. walk[0] = SubSeq(k, 1, 0)
    BY <1>2, <1>6, Zenon
  <2> QED
    BY <2>1, <2>2, Zenon
<1>8. ASSUME NEW i \in Nat, i < n, i \in G  PROVE i + 1 \in G
  <2>1. i + 1 \in 1 .. n /\ i + 1 \in 0 .. n /\ (i + 1) - 1 = i
    BY <1>1, <1>8
  <2>2. walk[i + 1] = Trie!SearchStep(walk[i], k[i + 1])
    BY <1>6, <2>1
  <2>3. Trie!SearchStep(SubSeq(k, 1, (i + 1) - 1), k[i + 1]) = SubSeq(k, 1, i + 1)
    BY <2>1, SearchStepIs
  <2> QED
    BY <1>8, <2>1, <2>2, <2>3
<1>9. n \in G
  <2> HIDE DEF G
  <2>1. \A i \in 0 .. n : i \in G
    BY <1>1, <1>7, <1>8, UpTo
  <2> QED
    BY <1>1, <2>1
<1>10. walk[n] = k
  BY <1>2, <1>9
<1>11. k # Trie!Stop
  BY <1>1, NotStop
<1>12. Trie!Value(k) = named[k]
  BY <1>1, NodeIs
<1> QED
  BY <1>5, <1>10, <1>11, <1>12

LEMMA TrieInvExact ==
    ASSUME TrieInv(trie, alive, named)
    PROVE  Trie!TreeExact
<1>1. Trie!KeysFound
  BY SearchFinds DEF Trie!KeysFound, Registered
<1>2. UNION {Trie!Prefixes(k) : k \in Registered(named)} = UNION {Prefixes(k) : k \in Registered(named)}
  BY TrieNames
<1>3. DOMAIN trie = {<<>>} \cup UNION {Trie!Prefixes(k) : k \in {n \in TrieKeys : named[n] # 0}}
  BY <1>2 DEF TrieInv, Spelling, Registered
<1>4. alive = Trie!Cardinality(DOMAIN trie)
  BY TrieNames DEF TrieInv
<1> QED
  BY <1>1, <1>3, <1>4 DEF Trie!TreeExact, Trie!NoLeftovers

-----------------------------------------------------------------------------
\* Whatever is registered and deleted, in whatever order, the search tree finds
\* every key under what it was registered as last and holds the characters of
\* those keys and no other, for any keys of any length (namespace.c, NSInsert,
\* NSSearch, NSDelete).
THEOREM TrieExactThm == MCSpec => []TrieExact
<1> DEFINE I == of = "trie" => TrieInv(trie, alive, named)
<1>1. MCInit => I
  BY TrieStarts DEF MCInit
<1>2. I /\ [MCNext]_<<of, ix, trieVars, tapVars>> => I'
  <2> SUFFICES ASSUME I, [MCNext]_<<of, ix, trieVars, tapVars>>, (of = "trie")'
               PROVE  TrieInv(trie', alive', named')
    BY DEF TrieInv
  <2>1. CASE TrieStep
    <3>1. of = "trie" /\ Trie!Next /\ TrieInv(trie, alive, named)
      BY <2>1 DEF TrieStep
    <3>2. PICK k \in TrieKeys : Trie!Unregister(k) \/ \E v \in Values : Trie!Register(k, v)
      BY <3>1 DEF Trie!Next
    <3>3. CASE Trie!Unregister(k)
      BY <3>1, <3>3, UnregisterKeeps
    <3>4. CASE \E v \in Values : Trie!Register(k, v)
      BY <3>1, <3>4, RegisterKeeps
    <3> QED
      BY <3>2, <3>3, <3>4
  <2>2. CASE PathStep \/ TapStep \/ UNCHANGED <<of, ix, trieVars, tapVars>>
    <3>1. of' = of /\ (of = "trie" => UNCHANGED <<trie, alive, named>>)
      BY <2>2 DEF PathStep, TapStep, trieVars
    <3> QED
      BY <3>1
  <2> QED
    BY <2>1, <2>2 DEF MCNext
<1>3. I => TrieExact
  BY TrieInvExact DEF TrieExact
<1> HIDE DEF I
<1> QED
  BY <1>1, <1>2, <1>3, PTL DEF MCSpec
==============================================================================
