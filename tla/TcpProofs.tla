------------------------------ MODULE TcpProofs ------------------------------
(***************************************************************************)
(* The TCP object under any owner, for any limit, block and number of      *)
(* peers: what each of its calls leaves of the socket, and what it tells   *)
(* the owner on the way.                                                   *)
(***************************************************************************)
EXTENDS Tcp, SequenceTheorems, TLAPS

-----------------------------------------------------------------------------
(* The invariant of a socket *)

\* What a buffer holds.
Unit == Nat

Conn ==
    [id : Nat, peer : Nat, peerClosed : BOOLEAN, tls : BOOLEAN, shaking : BOOLEAN,
     buf : Seq(Unit), asked : Seq(Unit), got : Seq(Unit)]

Socket ==
    [on : BOOLEAN, mode : {"server", "client"}, secure : BOOLEAN, ctx : BOOLEAN,
     listen : BOOLEAN, dial : BOOLEAN, conns : Seq(Conn), lastId : Nat, made : Nat,
     current : Nat, count : Nat, armed : Nat, scheduled : BOOLEAN,
     stage : {"rest", "accept", "serve"}, pos : Nat \ {0}]

\* In the middle of a poll the socket is on and its task is not armed.
TurnOK(s) ==
    /\ s.stage = "rest" => Pending(s)
    /\ s.stage # "rest" => s.on /\ s.armed = 0 /\ ~s.scheduled

\* A server listens and a client dials; with security on there is a context.
PlugsOK(s) ==
    /\ s.listen => s.on /\ s.mode = "server"
    /\ s.dial => s.on /\ s.mode = "client"
    /\ s.stage = "accept" => s.listen
    /\ s.on /\ s.secure => s.ctx

\* Counted, at every moment; a client has one connection, when it has dialled.
CountOK(s) ==
    /\ Counted(s)
    /\ s.mode = "client" => Len(s.conns) <= 1 /\ (s.dial => s.conns = <<>>)

\* A connection is known by the number of its peer, is sent what was queued for
\* it, and with security on speaks TLS.
ConnOK(s, c) ==
    /\ c.id = c.peer /\ c.id \in 1 .. s.lastId
    /\ s.secure => c.tls /\ (c.shaking => c.got = <<>>)
    /\ c.got \o c.buf = c.asked /\ ToSet(c.asked) \subseteq {Anyone, c.peer}

ConnsOK(s) == s.lastId = s.made /\ \A i \in DOMAIN s.conns : ConnOK(s, s.conns[i])

SockOK(s) == s \in Socket /\ TurnOK(s) /\ PlugsOK(s) /\ CountOK(s) /\ ConnsOK(s)

\* The peers a socket has, by number.
Ids(s) == {s.conns[i].id : i \in DOMAIN s.conns}

-----------------------------------------------------------------------------
(* Sequences *)

\* Unlinking the i-th entry leaves the others.
LEMMA RemoveAtIs ==
    ASSUME NEW S, NEW q \in Seq(S), NEW i \in 1 .. Len(q)
    PROVE  /\ RemoveAt(q, i) \in Seq(S) /\ Len(RemoveAt(q, i)) = Len(q) - 1
           /\ \A j \in DOMAIN RemoveAt(q, i) : \E k \in DOMAIN q : RemoveAt(q, i)[j] = q[k]
           /\ \A k \in DOMAIN q : k # i =>
                 \E j \in DOMAIN RemoveAt(q, i) : RemoveAt(q, i)[j] = q[k]
<1> DEFINE a == SubSeq(q, 1, i - 1)
           b == SubSeq(q, i + 1, Len(q))
<1>1. a \in Seq(S) /\ Len(a) = i - 1 /\ \A j \in 1 .. i - 1 : a[j] = q[j]
  OBVIOUS
<1>2. b \in Seq(S) /\ Len(b) = Len(q) - i /\ \A j \in 1 .. Len(q) - i : b[j] = q[i + j]
  OBVIOUS
<1>3. RemoveAt(q, i) = a \o b
  BY DEF RemoveAt
<1> HIDE DEF a, b
<1>4. /\ a \o b \in Seq(S) /\ Len(a \o b) = Len(q) - 1
      /\ \A j \in 1 .. Len(q) - 1 : (a \o b)[j] = IF j < i THEN q[j] ELSE q[j + 1]
  <2>1. /\ a \o b \in Seq(S) /\ Len(a \o b) = Len(a) + Len(b)
        /\ \A j \in 1 .. Len(a) + Len(b) : (a \o b)[j] = IF j <= Len(a) THEN a[j] ELSE b[j - Len(a)]
    BY <1>1, <1>2, ConcatProperties
  <2>2. Len(a) + Len(b) = Len(q) - 1
    BY <1>1, <1>2
  <2>3. ASSUME NEW j \in 1 .. Len(q) - 1 PROVE (a \o b)[j] = IF j < i THEN q[j] ELSE q[j + 1]
    <3>1. (a \o b)[j] = IF j <= i - 1 THEN a[j] ELSE b[j - (i - 1)]
      BY <1>1, <2>1, <2>2
    <3>2. j >= i => b[j - (i - 1)] = q[i + (j - (i - 1))]
      BY <1>2
    <3> QED
      BY <1>1, <3>1, <3>2
  <2> QED
    BY <2>1, <2>2, <2>3
<1>5. DOMAIN (a \o b) = 1 .. Len(q) - 1 /\ DOMAIN q = 1 .. Len(q)
  BY <1>4
<1>6. ASSUME NEW j \in 1 .. Len(q) - 1 PROVE \E k \in 1 .. Len(q) : (a \o b)[j] = q[k]
  <2>1. j \in 1 .. Len(q) /\ j + 1 \in 1 .. Len(q)
    OBVIOUS
  <2> QED
    BY <1>4, <2>1
<1>7. ASSUME NEW k \in 1 .. Len(q), k # i
      PROVE  \E j \in 1 .. Len(q) - 1 : (a \o b)[j] = q[k]
  <2>1. CASE k < i
    <3>1. k \in 1 .. Len(q) - 1
      BY <2>1
    <3> QED
      BY <1>4, <2>1, <3>1
  <2>2. CASE k > i
    <3>1. k - 1 \in 1 .. Len(q) - 1 /\ ~(k - 1 < i) /\ (k - 1) + 1 = k
      BY <2>2
    <3> QED
      BY <1>4, <3>1
  <2>3. Len(q) \in Nat /\ (k < i \/ k > i)
    BY <1>7
  <2> QED
    BY <2>1, <2>2, <2>3
<1> QED
  BY <1>3, <1>4, <1>5, <1>6, <1>7

\* What send took and what goes back to the buffer are what there was to send.
LEMMA SplitIs ==
    ASSUME NEW g \in Seq(Unit), NEW q \in Seq(Unit), NEW n \in 0 .. Len(q)
    PROVE  /\ SubSeq(q, 1, n) \in Seq(Unit) /\ SubSeq(q, n + 1, Len(q)) \in Seq(Unit)
           /\ g \o SubSeq(q, 1, n) \in Seq(Unit)
           /\ (g \o SubSeq(q, 1, n)) \o SubSeq(q, n + 1, Len(q)) = g \o q
           /\ n = 0 => g \o SubSeq(q, 1, n) = g
<1> DEFINE a == SubSeq(q, 1, n)
           b == SubSeq(q, n + 1, Len(q))
<1>1. a \in Seq(Unit) /\ b \in Seq(Unit)
  OBVIOUS
<1>2. a \o b = q
  <2>1. a \o b = SubSeq(q, 1, Len(q))
    <3>1. 1 \in 1 .. Len(q) + 1 /\ n \in 1 - 1 .. Len(q) /\ Len(q) \in n .. Len(q)
      OBVIOUS
    <3> QED
      BY <3>1, ConcatAdjacentSubSeq
  <2> QED
    BY <2>1, SubSeqFull
<1>3. n = 0 => a = <<>>
  BY SubSeqEmpty
<1> HIDE DEF a, b
<1>4. g \o a \in Seq(Unit)
  BY <1>1, ConcatProperties
<1>5. (g \o a) \o b = g \o (a \o b)
  BY <1>1, ConcatAssociative
<1>6. n = 0 => g \o a = g
  BY <1>3, ConcatEmptySeq
<1> QED
  BY <1>1, <1>2, <1>4, <1>5, <1>6 DEF a, b
-----------------------------------------------------------------------------
(* The socket through the calls of its owner *)

\* A step that leaves the connections alone leaves them in order.
LEMMA SameConns ==
    ASSUME NEW s, SockOK(s), NEW t \in Socket, t.conns = s.conns, t.lastId = s.lastId,
           t.made = s.made, t.secure = s.secure
    PROVE  ConnsOK(t) /\ Ids(t) = Ids(s)
BY DEF SockOK, ConnsOK, ConnOK, Ids

\* A stopped socket has no connections.
LEMMA OffIsEmpty ==
    ASSUME NEW s, SockOK(s), ~s.on
    PROVE  /\ s.conns = <<>> /\ s.count = 0 /\ Len(s.conns) = 0 /\ DOMAIN s.conns = {}
           /\ s.listen = FALSE /\ s.dial = FALSE /\ s.stage = "rest"
<1>1. s.conns = <<>> /\ s.stage = "rest"
  BY DEF SockOK, CountOK, Counted, TurnOK
<1>2. s.listen = FALSE /\ s.dial = FALSE
  BY DEF SockOK, PlugsOK, Socket
<1>3. Len(s.conns) = 0 /\ DOMAIN s.conns = {}
  BY <1>1
<1>4. s.count = 0
  BY <1>3 DEF SockOK, CountOK, Counted
<1> QED
  BY <1>1, <1>2, <1>3, <1>4

\* Which connection is the current one does not matter.
LEMMA CurrentFree ==
    ASSUME NEW s, SockOK(s), NEW n \in Nat, NEW t, t = [s EXCEPT !.current = n]
    PROVE  /\ SockOK(t) /\ t.current = n /\ Ids(t) = Ids(s) /\ t.conns = s.conns
           /\ t.on = s.on /\ t.secure = s.secure /\ t.mode = s.mode
           /\ t.lastId = s.lastId /\ t.count = s.count /\ t.stage = s.stage /\ t.pos = s.pos
<1>1. s \in Socket
  BY DEF SockOK
<1>2. /\ t \in Socket /\ t.current = n /\ t.conns = s.conns /\ t.on = s.on
      /\ t.secure = s.secure /\ t.mode = s.mode /\ t.lastId = s.lastId /\ t.count = s.count
      /\ t.stage = s.stage /\ t.pos = s.pos
  BY <1>1 DEF Socket
<1>3. /\ t.made = s.made /\ t.ctx = s.ctx /\ t.listen = s.listen /\ t.dial = s.dial
      /\ t.armed = s.armed /\ t.scheduled = s.scheduled
  BY <1>1 DEF Socket
<1>4. ConnsOK(t) /\ Ids(t) = Ids(s)
  BY <1>2, <1>3, SameConns
<1>5. TurnOK(t) /\ PlugsOK(t)
  BY <1>2, <1>3 DEF SockOK, TurnOK, Pending, PlugsOK
<1>6. CountOK(t)
  BY <1>2, <1>3 DEF SockOK, CountOK, Counted
<1> QED
  BY <1>2, <1>4, <1>5, <1>6 DEF SockOK

\* A new object is a stopped server.
LEMMA FreshOK ==
    ASSUME MaxConns \in Nat
    PROVE  /\ SockOK(Fresh) /\ Ids(Fresh) = {} /\ Fresh.conns = <<>> /\ Fresh.on = FALSE
           /\ Fresh.stage = "rest"
<1>1. /\ Fresh.conns = <<>> /\ Fresh.on = FALSE /\ Fresh.stage = "rest"
      /\ Fresh.count = 0 /\ Fresh.armed = 0 /\ Fresh.scheduled = FALSE /\ Fresh.listen = FALSE
      /\ Fresh.dial = FALSE /\ Fresh.mode = "server" /\ Fresh.lastId = Fresh.made
  BY DEF Fresh
<1>2. Fresh \in Socket
  <2>1. <<>> \in Seq(Conn)
    OBVIOUS
  <2> QED
    BY <2>1 DEF Fresh, Socket
<1>3. Len(Fresh.conns) = 0 /\ DOMAIN Fresh.conns = {}
  BY <1>1
<1>4. TurnOK(Fresh) /\ PlugsOK(Fresh)
  <2>1. Fresh.armed <= 1 /\ ~(Fresh.armed = 1)
    BY <1>1
  <2>2. Fresh.scheduled = (Fresh.armed = 1)
    BY <1>1, <2>1, Zenon
  <2>3. Pending(Fresh)
    BY <1>1, <2>1, <2>2 DEF Pending
  <2> QED
    BY <1>1, <2>3 DEF TurnOK, PlugsOK
<1>5. CountOK(Fresh)
  BY <1>1, <1>3 DEF CountOK, Counted
<1>6. ConnsOK(Fresh) /\ Ids(Fresh) = {}
  BY <1>1, <1>3 DEF ConnsOK, Ids
<1> QED
  BY <1>1, <1>2, <1>4, <1>5, <1>6 DEF SockOK

\* Variables are set on a stopped socket only.
LEMMA SetVarsOK ==
    ASSUME NEW s, SockOK(s), NEW mode \in {"server", "client"}, NEW secure \in BOOLEAN
    PROVE  LET t == SetVars(s, mode, secure)
           IN  /\ SockOK(t) /\ t.on = s.on /\ t.conns = s.conns /\ t.stage = s.stage
               /\ t.lastId = s.lastId /\ t.current = s.current
               /\ ~s.on => t.secure = secure
               /\ s.on => t = s
<1> DEFINE t == SetVars(s, mode, secure)
<1>1. CASE s.on
  BY <1>1 DEF SetVars
<1>2. CASE ~s.on
  <2>1. s \in Socket /\ t = [s EXCEPT !.mode = mode, !.secure = secure]
    BY <1>2 DEF SockOK, SetVars
  <2>2. /\ t \in Socket /\ t.on = s.on /\ t.conns = s.conns /\ t.stage = s.stage
        /\ t.lastId = s.lastId /\ t.current = s.current /\ t.secure = secure /\ t.mode = mode
    BY <2>1 DEF Socket
  <2>3. /\ t.made = s.made /\ t.ctx = s.ctx /\ t.listen = s.listen /\ t.dial = s.dial
        /\ t.armed = s.armed /\ t.scheduled = s.scheduled /\ t.count = s.count
    BY <2>1 DEF Socket
  <2> HIDE DEF t
  <2>4. /\ s.conns = <<>> /\ s.count = 0 /\ Len(s.conns) = 0 /\ DOMAIN s.conns = {}
        /\ s.listen = FALSE /\ s.dial = FALSE /\ s.stage = "rest"
    BY <1>2, OffIsEmpty
  <2>5. TurnOK(t) /\ PlugsOK(t)
    BY <1>2, <2>2, <2>3, <2>4 DEF SockOK, TurnOK, Pending, PlugsOK
  <2>6. CountOK(t)
    BY <2>2, <2>3, <2>4 DEF SockOK, CountOK, Counted
  <2>7. ConnsOK(t)
    BY <2>2, <2>3, <2>4 DEF SockOK, ConnsOK
  <2> QED
    BY <1>2, <2>2, <2>5, <2>6, <2>7 DEF SockOK, t
<1> QED
  BY <1>1, <1>2

\* A stop closes everything at once, and a pending poll stays pending.
LEMMA StopOK ==
    ASSUME MaxConns \in Nat, NEW s, SockOK(s), s.stage = "rest"
    PROVE  LET t == Stop(s)
           IN  /\ SockOK(t) /\ t.on = FALSE /\ t.conns = <<>> /\ t.stage = "rest"
               /\ t.secure = s.secure /\ t.lastId = s.lastId /\ Ids(t) = {}
<1> DEFINE t == Stop(s)
<1>1. s \in Socket
  BY DEF SockOK
<1>2. CASE ~s.on
  <2>1. t = s /\ s.on = FALSE
    BY <1>1, <1>2 DEF Stop, Socket
  <2> QED
    BY <1>2, <2>1, OffIsEmpty DEF Ids
<1>3. CASE s.on
  <2>0. <<>> \in Seq(Conn)
    OBVIOUS
  <2>1. t = [s EXCEPT !.on = FALSE, !.listen = FALSE, !.dial = FALSE, !.ctx = FALSE,
                      !.conns = <<>>, !.count = 0]
    BY <1>3 DEF Stop
  <2>2. /\ t \in Socket /\ t.on = FALSE /\ t.listen = FALSE /\ t.dial = FALSE
        /\ t.conns = <<>> /\ t.count = 0
    <3>1. ASSUME NEW q \in Seq(Conn)
          PROVE  [s EXCEPT !.on = FALSE, !.listen = FALSE, !.dial = FALSE, !.ctx = FALSE,
                           !.conns = q, !.count = 0] \in Socket
      BY <1>1 DEF Socket
    <3>2. t \in Socket
      BY <2>0, <2>1, <3>1
    <3>3. t.conns = <<>> /\ t.count = 0
      BY <1>1, <2>1 DEF Socket
    <3>4. t.on = FALSE /\ t.listen = FALSE /\ t.dial = FALSE
      BY <1>1, <2>1 DEF Socket
    <3> QED
      BY <3>2, <3>3, <3>4
  <2>3. /\ t.made = s.made /\ t.lastId = s.lastId /\ t.secure = s.secure
        /\ t.armed = s.armed /\ t.scheduled = s.scheduled /\ t.stage = s.stage
    BY <1>1, <2>1 DEF Socket
  <2> HIDE DEF t
  <2>4. Len(t.conns) = 0 /\ DOMAIN t.conns = {}
    BY <2>2
  <2>5. TurnOK(t) /\ PlugsOK(t)
    BY <1>3, <2>2, <2>3 DEF SockOK, TurnOK, Pending, PlugsOK
  <2>6. CountOK(t)
    BY <2>2, <2>4 DEF CountOK, Counted
  <2>7. ConnsOK(t) /\ Ids(t) = {}
    BY <2>3, <2>4 DEF SockOK, ConnsOK, Ids
  <2> QED
    BY <2>2, <2>3, <2>5, <2>6, <2>7 DEF SockOK, t
<1> QED
  BY <1>2, <1>3
\* What a callback can say.
Msg == [kind : {"new", "data", "closed", "error"}, id : Nat, peer : Nat, count : Nat]

\* A callback reaches the owner and changes only which connection is current.
LEMMA CallbackIs ==
    ASSUME NEW r, SockOK(r.sock), NEW kind \in {"new", "data", "closed", "error"},
           NEW c, c.id \in Nat, c.peer \in Nat
    PROVE  LET m == [kind |-> kind, id |-> c.id, peer |-> c.peer, count |-> r.sock.count]
           IN  /\ m \in Msg
               /\ Callback(r, kind, c).sock = [r.sock EXCEPT !.current = c.id]
               /\ Callback(r, kind, c).own = Tell(r.own, m)
<1>1. r.sock.count \in Nat
  BY DEF SockOK, Socket
<1>2. [kind |-> kind, id |-> c.id, peer |-> c.peer, count |-> r.sock.count] \in Msg
  BY <1>1 DEF Msg
<1> QED
  BY <1>2 DEF Callback

\* An error concerns no connection: the socket stays as it is.
LEMMA ErrorIs ==
    ASSUME NEW r, SockOK(r.sock)
    PROVE  /\ Error(r).sock = r.sock
           /\ \E m \in Msg : m.kind = "error" /\ Error(r).own = Tell(r.own, m)
<1> DEFINE u == r.sock
           e == [id |-> u.current, peer |-> Anyone]
           m == [kind |-> "error", id |-> e.id, peer |-> e.peer, count |-> u.count]
<1>1. u \in Socket /\ u.current \in Nat
  BY DEF SockOK, Socket
<1>2. e.id = u.current /\ e.id \in Nat /\ e.peer \in Nat
  BY <1>1 DEF Anyone
<1>3. Error(r) = Callback(r, "error", e)
  BY DEF Error
<1>4. [u EXCEPT !.current = u.current] = u
  BY <1>1 DEF Socket
<1> HIDE DEF e
<1>5. /\ m \in Msg /\ Callback(r, "error", e).sock = [u EXCEPT !.current = e.id]
      /\ Callback(r, "error", e).own = Tell(r.own, m)
  BY <1>2, CallbackIs
<1> QED
  BY <1>2, <1>3, <1>4, <1>5

\* The context comes and goes on a stopped socket without any effect.
LEMMA ContextFree ==
    ASSUME NEW s, SockOK(s), ~s.on, NEW b \in BOOLEAN
    PROVE  LET t == [s EXCEPT !.ctx = b]
           IN  /\ SockOK(t) /\ t.on = FALSE /\ t.ctx = b /\ t.conns = s.conns /\ t.stage = s.stage
               /\ t.lastId = s.lastId /\ t.current = s.current /\ t.secure = s.secure
               /\ t.mode = s.mode
<1> DEFINE t == [s EXCEPT !.ctx = b]
<1>1. s \in Socket /\ s.on = FALSE
  BY DEF SockOK, Socket
<1>2. /\ t \in Socket /\ t.on = s.on /\ t.ctx = b /\ t.conns = s.conns /\ t.stage = s.stage
      /\ t.lastId = s.lastId /\ t.current = s.current /\ t.secure = s.secure /\ t.mode = s.mode
  BY <1>1 DEF Socket
<1>3. /\ t.made = s.made /\ t.listen = s.listen /\ t.dial = s.dial
      /\ t.armed = s.armed /\ t.scheduled = s.scheduled /\ t.count = s.count
  BY <1>1 DEF Socket
<1> HIDE DEF t
<1>4. ConnsOK(t)
  BY <1>2, <1>3, SameConns
<1>5. TurnOK(t) /\ PlugsOK(t)
  BY <1>1, <1>2, <1>3 DEF SockOK, TurnOK, Pending, PlugsOK
<1>6. CountOK(t)
  BY <1>2, <1>3 DEF SockOK, CountOK, Counted
<1> QED
  BY <1>1, <1>2, <1>4, <1>5, <1>6 DEF SockOK, t

\* The sockets are opened: the poll is pending afterwards, once, also when one
\* from before a stop still was.
LEMMA UpOK ==
    ASSUME NEW s, SockOK(s), ~s.on, s.secure => s.ctx
    PROVE  LET t == Up(s)
           IN  /\ SockOK(t) /\ t.on = TRUE /\ t.conns = s.conns /\ t.stage = s.stage
               /\ t.lastId = s.lastId /\ t.current = s.current /\ t.secure = s.secure
<1> DEFINE t == Up(s)
<1>1. s \in Socket /\ Pending(s) /\ s.armed \in Nat /\ s.scheduled \in BOOLEAN
  BY OffIsEmpty DEF SockOK, Socket, TurnOK
<1>2. s.armed = (IF s.scheduled THEN 1 ELSE 0)
  <2>1. s.armed <= 1 /\ s.scheduled = (s.armed = 1)
    BY <1>1 DEF Pending
  <2>2. s.armed \in {0, 1}
    BY <1>1, <2>1
  <2> QED
    BY <2>1, <2>2
<1>3. /\ s.conns = <<>> /\ s.count = 0 /\ Len(s.conns) = 0 /\ DOMAIN s.conns = {}
      /\ s.stage = "rest"
  BY OffIsEmpty
<1>4. /\ t \in Socket /\ t.on = TRUE /\ t.scheduled = TRUE /\ t.armed = 1
      /\ t.listen = (s.mode = "server") /\ t.dial = (s.mode = "client")
  <2>1. t \in Socket
    <3> DEFINE ls == (s.mode = "server")
               di == (s.mode = "client")
               n == IF s.scheduled THEN s.armed ELSE s.armed + 1
    <3>1. ls \in BOOLEAN /\ di \in BOOLEAN /\ n \in Nat
      BY <1>1
    <3>2. t = [s EXCEPT !.on = TRUE, !.listen = ls, !.dial = di, !.armed = n, !.scheduled = TRUE]
      BY <1>1 DEF Up, Socket
    <3> HIDE DEF ls, di, n
    <3> QED
      BY <1>1, <3>1, <3>2 DEF Socket
  <2>2. t.armed = IF s.scheduled THEN s.armed ELSE s.armed + 1
    BY <1>1 DEF Up, Socket
  <2>3. t.on = TRUE /\ t.scheduled = TRUE
    BY <1>1 DEF Up, Socket
  <2>4. t.listen = (s.mode = "server") /\ t.dial = (s.mode = "client")
    BY <1>1 DEF Up, Socket
  <2>5. t.armed = 1
    BY <1>1, <1>2, <2>2
  <2> QED
    BY <2>1, <2>3, <2>4, <2>5
<1>5. /\ t.conns = s.conns /\ t.stage = s.stage /\ t.lastId = s.lastId /\ t.made = s.made
      /\ t.current = s.current /\ t.secure = s.secure /\ t.mode = s.mode /\ t.count = s.count
      /\ t.ctx = s.ctx
  BY <1>1 DEF Up, Socket
<1> HIDE DEF t
<1>6. TurnOK(t)
  <2>1. t.armed <= 1
    BY <1>4
  <2>2. t.scheduled = (t.armed = 1)
    BY <1>4, Zenon
  <2> QED
    BY <1>3, <1>4, <1>5, <2>1, <2>2 DEF TurnOK, Pending
<1>7. PlugsOK(t)
  <2>1. (t.listen => s.mode = "server") /\ (t.dial => s.mode = "client")
    BY <1>4
  <2> QED
    BY <1>3, <1>4, <1>5, <2>1 DEF PlugsOK
<1>8. CountOK(t)
  BY <1>3, <1>4, <1>5 DEF SockOK, CountOK, Counted
<1>9. ConnsOK(t)
  BY <1>3, <1>5 DEF SockOK, ConnsOK
<1> QED
  BY <1>4, <1>5, <1>6, <1>7, <1>8, <1>9 DEF SockOK, t

\* A start, whatever comes of it.
LEMMA StartOK ==
    ASSUME NEW s, SockOK(s), NEW own, NEW r \in Start(s, own)
    PROVE  /\ SockOK(r.sock) /\ r.sock.conns = s.conns /\ r.sock.stage = s.stage
           /\ r.sock.lastId = s.lastId /\ r.sock.current = s.current
           /\ r.sock.secure = s.secure
           /\ s.on => r.sock = s /\ r.own = own
           /\ r.own = own \/ \E m \in Msg : m.kind = "error" /\ r.own = Tell(own, m)
<1>1. CASE s.on
  BY <1>1 DEF Start, Quiet
<1>2. CASE ~s.on
  <2> DEFINE Lit(b) == [s EXCEPT !.ctx = b]
  <2>1. s \in Socket /\ s.ctx \in BOOLEAN /\ s.secure \in BOOLEAN /\ s = Lit(s.ctx)
    BY DEF SockOK, Socket
  <2>2. \/ r = Quiet(Up(Lit(s.ctx \/ s.secure)), own)
        \/ \E b \in BOOLEAN : r = Error(Quiet(Lit(b), own))
    BY <1>2, <2>1 DEF Start
  <2>3. ASSUME NEW b \in BOOLEAN
        PROVE  /\ SockOK(Lit(b)) /\ Lit(b).on = FALSE /\ Lit(b).ctx = b
               /\ Lit(b).conns = s.conns /\ Lit(b).stage = s.stage /\ Lit(b).lastId = s.lastId
               /\ Lit(b).current = s.current /\ Lit(b).secure = s.secure
    BY <1>2, ContextFree
  <2> HIDE DEF Lit
  <2>4. CASE r = Quiet(Up(Lit(s.ctx \/ s.secure)), own)
    <3> DEFINE b == s.ctx \/ s.secure
               t == Lit(b)
    <3>1. b \in BOOLEAN /\ (s.secure => b)
      BY <2>1
    <3>2. /\ SockOK(t) /\ ~t.on /\ (t.secure => t.ctx) /\ t.conns = s.conns
          /\ t.stage = s.stage /\ t.lastId = s.lastId /\ t.current = s.current
          /\ t.secure = s.secure
      BY <2>3, <3>1
    <3> HIDE DEF t, b
    <3>3. /\ SockOK(Up(t)) /\ Up(t).conns = t.conns /\ Up(t).stage = t.stage
          /\ Up(t).lastId = t.lastId /\ Up(t).current = t.current /\ Up(t).secure = t.secure
      BY <3>2, UpOK
    <3>4. r.sock = Up(t) /\ r.own = own
      BY <2>4 DEF Quiet, t, b
    <3> QED
      BY <1>2, <3>2, <3>3, <3>4
  <2>5. ASSUME NEW b \in BOOLEAN, r = Error(Quiet(Lit(b), own))
        PROVE  /\ r.sock = Lit(b)
               /\ \E m \in Msg : m.kind = "error" /\ r.own = Tell(own, m)
    <3> DEFINE q == Quiet(Lit(b), own)
    <3>1. q.sock = Lit(b) /\ q.own = own
      BY DEF Quiet
    <3>2. SockOK(q.sock)
      BY <2>3, <3>1
    <3> HIDE DEF q
    <3>3. /\ Error(q).sock = q.sock
          /\ \E m \in Msg : m.kind = "error" /\ Error(q).own = Tell(q.own, m)
      BY <3>2, ErrorIs
    <3>4. r = Error(q)
      BY <2>5 DEF q
    <3> QED
      BY <3>1, <3>3, <3>4
  <2>6. ASSUME NEW b \in BOOLEAN, r = Error(Quiet(Lit(b), own))
        PROVE  /\ SockOK(r.sock) /\ r.sock.conns = s.conns /\ r.sock.stage = s.stage
               /\ r.sock.lastId = s.lastId /\ r.sock.current = s.current
               /\ r.sock.secure = s.secure
    <3>1. r.sock = Lit(b)
      BY <2>5, <2>6
    <3> QED
      BY <2>3, <3>1
  <2> QED
    BY <1>2, <2>2, <2>4, <2>5, <2>6
<1> QED
  BY <1>1, <1>2
\* Something added at the end of the second part is added at the end.
LEMMA AppendConcat ==
    ASSUME NEW S, NEW g \in Seq(S), NEW b \in Seq(S), NEW u \in S
    PROVE  g \o Append(b, u) = Append(g \o b, u)
<1> DEFINE v == <<u>>
<1>1. v \in Seq(S) /\ g \o b \in Seq(S)
  OBVIOUS
<1>2. Append(b, u) = b \o v /\ Append(g \o b, u) = (g \o b) \o v
  BY <1>1, AppendIsConcat
<1> HIDE DEF v
<1>3. (g \o b) \o v = g \o (b \o v)
  BY <1>1, ConcatAssociative
<1> QED
  BY <1>2, <1>3

\* A unit joins a connection's buffer, behind what is there.
LEMMA QueuedOK ==
    ASSUME NEW s, NEW c \in Conn, ConnOK(s, c), NEW unit \in Unit, unit \in {Anyone, c.peer}
    PROVE  LET d == [c EXCEPT !.buf = Append(@, unit), !.asked = Append(@, unit)]
           IN  d \in Conn /\ ConnOK(s, d) /\ d.id = c.id
<1> DEFINE d == [c EXCEPT !.buf = Append(@, unit), !.asked = Append(@, unit)]
<1>1. c.buf \in Seq(Unit) /\ c.asked \in Seq(Unit) /\ c.got \in Seq(Unit)
  BY DEF Conn
<1>2. Append(c.buf, unit) \in Seq(Unit) /\ Append(c.asked, unit) \in Seq(Unit)
  BY <1>1
<1>3. /\ d \in Conn /\ d.id = c.id /\ d.peer = c.peer /\ d.tls = c.tls
      /\ d.shaking = c.shaking /\ d.got = c.got
      /\ d.buf = Append(c.buf, unit) /\ d.asked = Append(c.asked, unit)
  BY <1>2 DEF Conn
<1> HIDE DEF d
<1>4. d.got \o d.buf = d.asked
  <2>1. c.got \o c.buf = c.asked
    BY DEF ConnOK
  <2>2. ASSUME NEW g \in Seq(Unit), NEW b \in Seq(Unit)
        PROVE  g \o Append(b, unit) = Append(g \o b, unit)
    BY AppendConcat
  <2> QED
    BY <1>1, <1>3, <2>1, <2>2
<1>5. ToSet(d.asked) \subseteq {Anyone, c.peer}
  <2>1. \A k \in DOMAIN c.asked : c.asked[k] \in {Anyone, c.peer}
    BY DEF ConnOK, ToSet
  <2>2. ASSUME NEW k \in DOMAIN Append(c.asked, unit)
        PROVE  Append(c.asked, unit)[k] \in {Anyone, c.peer}
    BY <1>1, <2>1
  <2> QED
    BY <1>3, <2>2 DEF ToSet
<1> QED
  BY <1>3, <1>4, <1>5 DEF ConnOK, d

\* Something is queued for the current connection, or for all of them: it must be
\* meant for each of those it is queued for.
LEMMA SendOK ==
    ASSUME NEW s, SockOK(s), NEW unit \in Unit,
           \A i \in DOMAIN s.conns :
               s.current \in {0, s.conns[i].id} => unit \in {Anyone, s.conns[i].peer}
    PROVE  LET t == SendData(s, unit)
           IN  /\ SockOK(t) /\ Ids(t) = Ids(s) /\ t.on = s.on /\ t.stage = s.stage
               /\ t.secure = s.secure /\ t.lastId = s.lastId /\ t.current = s.current
               /\ t.conns = <<>> <=> s.conns = <<>>
<1> DEFINE Queued(c) == [c EXCEPT !.buf = Append(@, unit), !.asked = Append(@, unit)]
           q == [i \in DOMAIN s.conns |->
                    IF s.current \in {0, s.conns[i].id} THEN Queued(s.conns[i]) ELSE s.conns[i]]
           t == SendData(s, unit)
<1>1. /\ s \in Socket /\ s.conns \in Seq(Conn) /\ DOMAIN s.conns = 1 .. Len(s.conns)
      /\ Len(s.conns) \in Nat
  BY DEF SockOK, Socket
<1>2. ASSUME NEW i \in DOMAIN s.conns PROVE s.conns[i] \in Conn /\ ConnOK(s, s.conns[i])
  BY <1>1 DEF SockOK, ConnsOK
<1>3. ASSUME NEW i \in DOMAIN s.conns
      PROVE  q[i] \in Conn /\ ConnOK(s, q[i]) /\ q[i].id = s.conns[i].id
  <2>1. CASE s.current \in {0, s.conns[i].id}
    <3>1. q[i] = Queued(s.conns[i])
      BY <2>1
    <3>2. unit \in {Anyone, s.conns[i].peer}
      BY <2>1
    <3> QED
      BY <1>2, <3>1, <3>2, QueuedOK
  <2>2. CASE s.current \notin {0, s.conns[i].id}
    BY <1>2, <2>2
  <2> QED
    BY <2>1, <2>2
<1>4. q \in Seq(Conn) /\ Len(q) = Len(s.conns) /\ DOMAIN q = DOMAIN s.conns
  <2>1. DOMAIN q = DOMAIN s.conns /\ q = [i \in 1 .. Len(s.conns) |-> q[i]]
    BY <1>1
  <2>2. \A i \in 1 .. Len(s.conns) : q[i] \in Conn
    BY <1>1, <1>3
  <2> HIDE DEF q
  <2>3. q \in [1 .. Len(s.conns) -> Conn]
    BY <2>1, <2>2
  <2> QED
    BY <1>1, <2>1, <2>3
<1>5. t = [s EXCEPT !.conns = q]
  BY DEF SendData
<1> HIDE DEF q, t
<1>6. /\ t \in Socket /\ t.conns = q /\ t.on = s.on /\ t.stage = s.stage
      /\ t.secure = s.secure /\ t.lastId = s.lastId /\ t.current = s.current
  BY <1>1, <1>4, <1>5 DEF Socket
<1>7. /\ t.made = s.made /\ t.ctx = s.ctx /\ t.listen = s.listen /\ t.dial = s.dial
      /\ t.armed = s.armed /\ t.scheduled = s.scheduled /\ t.count = s.count /\ t.mode = s.mode
  BY <1>1, <1>5 DEF Socket
<1>8. t.conns = <<>> <=> s.conns = <<>>
  BY <1>1, <1>4, <1>6
<1>9. TurnOK(t) /\ PlugsOK(t)
  BY <1>6, <1>7 DEF SockOK, TurnOK, Pending, PlugsOK
<1>10. CountOK(t)
  BY <1>4, <1>6, <1>7, <1>8 DEF SockOK, CountOK, Counted
<1>11. ConnsOK(t)
  <2>1. \A i \in DOMAIN q : ConnOK(t, q[i])
    BY <1>3, <1>4, <1>6 DEF ConnOK
  <2> QED
    BY <1>6, <1>7, <2>1 DEF SockOK, ConnsOK
<1>12. Ids(t) = Ids(s)
  BY <1>3, <1>4, <1>6 DEF Ids
<1> QED
  BY <1>6, <1>8, <1>9, <1>10, <1>11, <1>12 DEF SockOK, t
-----------------------------------------------------------------------------
(* The socket through its poll, and what the owner hears *)

\* What is said of a connection before it goes: what arrived, and an error.
Says(s) ==
    {m \in Msg : m.kind = "error" \/ (m.kind = "data" /\ m.id = m.peer /\ m.id \in Ids(s))}

Before(s, own) ==
    {own} \cup {Tell(own, m) : m \in Says(s)}
          \cup {Tell(Tell(own, m), n) : m \in Says(s), n \in Says(s)}

\* What a part of a poll tells the owner agrees with what it does to the peers.
Told(s, own, r) ==
    \/ r.own = own /\ Ids(r.sock) = Ids(s) /\ r.sock.current = s.current
    \/ \E m \in Msg : /\ r.own = Tell(own, m) /\ m.kind = "new"
                      /\ Ids(r.sock) = Ids(s) \cup {m.id} /\ r.sock.current = m.id
    \/ \E m \in Says(s) : /\ r.own = Tell(own, m) /\ Ids(r.sock) = Ids(s)
                          /\ r.sock.current = IF m.kind = "data" THEN m.id ELSE s.current
    \/ \E o \in Before(s, own) : \E m \in Msg :
          /\ r.own = Tell(o, m) /\ m.kind = "closed"
          /\ Ids(r.sock) \subseteq Ids(s) /\ Ids(s) \ {m.id} \subseteq Ids(r.sock)
          /\ Ids(r.sock) # {} => m.count # 0

\* What a part of a poll leaves of the socket's settings.
Settled(s, t) == t.on = s.on /\ t.secure = s.secure /\ t.lastId >= s.lastId

PollGood(s, own, r) ==
    SockOK(r.sock) /\ Settled(s, r.sock) /\ Told(s, own, r) /\ (~s.on => r.own = own)

\* Peers there are just when there are connections.
LEMMA IdsEmpty ==
    ASSUME NEW s, SockOK(s)
    PROVE  Ids(s) = {} <=> s.conns = <<>>
<1>1. s.conns \in Seq(Conn)
  BY DEF SockOK, Socket
<1>2. s.conns # <<>> => 1 \in DOMAIN s.conns
  BY <1>1
<1>3. s.conns = <<>> => DOMAIN s.conns = {}
  OBVIOUS
<1> QED
  BY <1>2, <1>3 DEF Ids

\* A new connection goes to the front, with the next number.
LEMMA JoinOK ==
    ASSUME NEW s, SockOK(s), s.on, NEW c \in Conn, c.id = s.lastId + 1, c.peer = s.made + 1,
           c.buf = <<>>, c.asked = <<>>, c.got = <<>>, s.secure => c.tls,
           NEW n \in Nat, n <= MaxConns, n = IF s.mode = "server" THEN s.count + 1 ELSE 0,
           s.mode = "client" => s.conns = <<>> /\ ~s.dial
    PROVE  LET t == [s EXCEPT !.count = n, !.conns = <<c>> \o @, !.lastId = c.id, !.made = c.peer]
           IN  /\ SockOK(t) /\ Ids(t) = Ids(s) \cup {c.id} /\ Settled(s, t)
               /\ t.current = s.current
<1> DEFINE q == <<c>> \o s.conns
           t == [s EXCEPT !.count = n, !.conns = q, !.lastId = c.id, !.made = c.peer]
<1>1. /\ s \in Socket /\ s.conns \in Seq(Conn) /\ Len(s.conns) \in Nat /\ s.lastId \in Nat
      /\ s.made \in Nat /\ s.count \in Nat /\ s.lastId = s.made
  BY DEF SockOK, Socket, ConnsOK
<1>2. c.id \in Nat /\ c.peer \in Nat /\ c.id = c.peer
  BY <1>1 DEF Conn
<1>3. /\ q \in Seq(Conn) /\ Len(q) = Len(s.conns) + 1 /\ q # <<>>
      /\ q[1] = c /\ \A i \in 1 .. Len(s.conns) : q[i + 1] = s.conns[i]
  BY <1>1
<1> HIDE DEF q
<1>4. /\ t \in Socket /\ t.count = n /\ t.conns = q /\ t.lastId = c.id /\ t.made = c.peer
  BY <1>1, <1>2, <1>3 DEF Socket
<1>5. /\ t.on = s.on /\ t.mode = s.mode /\ t.secure = s.secure /\ t.ctx = s.ctx
      /\ t.listen = s.listen /\ t.dial = s.dial /\ t.current = s.current
      /\ t.armed = s.armed /\ t.scheduled = s.scheduled /\ t.stage = s.stage
  BY <1>1 DEF Socket
<1> HIDE DEF t
<1>6. TurnOK(t) /\ PlugsOK(t)
  BY <1>5 DEF SockOK, TurnOK, Pending, PlugsOK
<1>7. CountOK(t)
  <2>1. s.mode = "server" => s.count = Len(s.conns)
    BY DEF SockOK, CountOK, Counted
  <2>2. s.mode = "client" => Len(q) = 1
    BY <1>3
  <2>3. s.mode \in {"server", "client"}
    BY <1>1 DEF Socket
  <2>4. t.count = IF t.mode = "server" THEN Len(t.conns) ELSE 0
    BY <1>3, <1>4, <1>5, <2>1
  <2> QED
    BY <1>3, <1>4, <1>5, <2>2, <2>4 DEF CountOK, Counted
<1>8. ASSUME NEW i \in 1 .. Len(q)
      PROVE  ConnOK(t, q[i]) /\ (q[i] = c \/ \E k \in DOMAIN s.conns : q[i] = s.conns[k])
  <2>1. CASE i = 1
    <3>1. c.got \o c.buf = c.asked /\ ToSet(c.asked) \subseteq {Anyone, c.peer}
      <4>1. <<>> \o <<>> = <<>> /\ DOMAIN <<>> = {}
        OBVIOUS
      <4> QED
        BY <4>1 DEF ToSet
    <3>2. c.id \in 1 .. t.lastId
      BY <1>1, <1>2, <1>4
    <3>3. ConnOK(t, c)
      BY <1>2, <1>5, <3>1, <3>2 DEF ConnOK
    <3> QED
      BY <1>3, <2>1, <3>3
  <2>2. CASE i # 1
    <3> DEFINE k == i - 1
    <3>1. k \in 1 .. Len(s.conns) /\ k + 1 = i
      BY <1>1, <1>3, <2>2
    <3>2. k \in DOMAIN s.conns /\ q[i] = s.conns[k]
      BY <1>1, <1>3, <3>1
    <3>3. ConnOK(s, s.conns[k])
      BY <3>2 DEF SockOK, ConnsOK
    <3>4. \A j \in 1 .. s.lastId : j \in 1 .. t.lastId
      BY <1>1, <1>2, <1>4
    <3>5. ConnOK(t, q[i])
      BY <1>5, <3>2, <3>3, <3>4 DEF ConnOK
    <3> QED
      BY <3>2, <3>5
  <2> QED
    BY <2>1, <2>2
<1>9. ConnsOK(t)
  BY <1>2, <1>3, <1>4, <1>8 DEF ConnsOK
<1>10. Ids(t) = Ids(s) \cup {c.id}
  <2>1. \A k \in DOMAIN s.conns : \E j \in DOMAIN q : q[j] = s.conns[k]
    <3>1. DOMAIN s.conns = 1 .. Len(s.conns) /\ DOMAIN q = 1 .. Len(s.conns) + 1
      BY <1>1, <1>3
    <3>2. \A k \in 1 .. Len(s.conns) : k + 1 \in 1 .. Len(s.conns) + 1
      BY <1>1
    <3> QED
      BY <1>3, <3>1, <3>2
  <2>2. 1 \in DOMAIN q /\ q[1] = c /\ DOMAIN q = 1 .. Len(q)
    BY <1>3
  <2>3. \A j \in DOMAIN q : q[j] = c \/ \E k \in DOMAIN s.conns : q[j] = s.conns[k]
    BY <1>8, <2>2
  <2> QED
    BY <1>4, <2>1, <2>2, <2>3 DEF Ids
<1>11. t.lastId >= s.lastId
  BY <1>1, <1>4
<1> QED
  BY <1>4, <1>5, <1>6, <1>7, <1>9, <1>10, <1>11 DEF SockOK, Settled, t, q
\* The owner hears of a new connection, and it is the current one.
LEMMA JoinsGood ==
    ASSUME NEW s, SockOK(s), s.on, NEW c \in Conn, c.id = s.lastId + 1, c.peer = s.made + 1,
           c.buf = <<>>, c.asked = <<>>, c.got = <<>>, s.secure => c.tls,
           NEW n \in Nat, n <= MaxConns, n = IF s.mode = "server" THEN s.count + 1 ELSE 0,
           s.mode = "client" => s.conns = <<>> /\ ~s.dial,
           NEW own, NEW r, r = Joins([s EXCEPT !.count = n], own, c)
    PROVE  /\ SockOK(r.sock) /\ Settled(s, r.sock)
           /\ \E m \in Msg : /\ m.kind = "new" /\ r.own = Tell(own, m)
                             /\ Ids(r.sock) = Ids(s) \cup {m.id} /\ r.sock.current = m.id
<1> DEFINE t == [s EXCEPT !.count = n, !.conns = <<c>> \o @, !.lastId = c.id, !.made = c.peer]
           q == Quiet(t, own)
           m == [kind |-> "new", id |-> c.id, peer |-> c.peer, count |-> q.sock.count]
<1>1. s \in Socket /\ c.id \in Nat /\ c.peer \in Nat
  BY DEF SockOK, Conn
<1>2. r = Callback(q, "new", c)
  BY <1>1 DEF Joins, Socket
<1>3. SockOK(t) /\ Ids(t) = Ids(s) \cup {c.id} /\ Settled(s, t)
  BY JoinOK
<1> HIDE DEF t
<1>4. q.sock = t /\ q.own = own
  BY DEF Quiet
<1> HIDE DEF q
<1>5. /\ m \in Msg /\ r.sock = [t EXCEPT !.current = c.id] /\ r.own = Tell(own, m)
  <2>1. SockOK(q.sock)
    BY <1>3, <1>4
  <2>2. /\ m \in Msg /\ Callback(q, "new", c).sock = [q.sock EXCEPT !.current = c.id]
        /\ Callback(q, "new", c).own = Tell(q.own, m)
    BY <1>1, <2>1, CallbackIs
  <2> QED
    BY <1>2, <1>4, <2>2
<1>6. m.kind = "new" /\ m.id = c.id
  OBVIOUS
<1> HIDE DEF m
<1>7. /\ SockOK(r.sock) /\ r.sock.current = c.id /\ Ids(r.sock) = Ids(t)
      /\ r.sock.on = t.on /\ r.sock.secure = t.secure /\ r.sock.lastId = t.lastId
  BY <1>1, <1>3, <1>5, CurrentFree
<1>8. Settled(s, r.sock)
  BY <1>3, <1>7 DEF Settled
<1> QED
  BY <1>3, <1>5, <1>6, <1>7, <1>8

\* A connection begins with nothing to send.
LEMMA NewConnIs ==
    ASSUME NEW s, SockOK(s)
    PROVE  LET c == NewConn(s)
           IN  /\ c \in Conn /\ c.id = s.lastId + 1 /\ c.peer = s.made + 1 /\ c.tls = s.ctx
               /\ c.buf = <<>> /\ c.asked = <<>> /\ c.got = <<>>
<1>1. s.lastId \in Nat /\ s.made \in Nat /\ s.ctx \in BOOLEAN
  BY DEF SockOK, Socket
<1>2. <<>> \in Seq(Unit)
  OBVIOUS
<1> QED
  BY <1>1, <1>2 DEF NewConn, Conn

\* The head of a poll: its task has fired and is armed no more.
LEMMA PollStartGood ==
    ASSUME NEW s, SockOK(s), s.stage = "rest", s.armed > 0, NEW own, NEW r \in PollStart(s, own)
    PROVE  PollGood(s, own, r)
<1> DEFINE t  == [s EXCEPT !.armed = @ - 1, !.scheduled = FALSE]
           go == [t EXCEPT !.stage = IF s.listen THEN "accept" ELSE "serve"]
           no == [go EXCEPT !.dial = FALSE]
<1>1. s \in Socket /\ s.armed = 1 /\ s.on \in BOOLEAN /\ s.listen \in BOOLEAN /\ s.lastId \in Nat
  BY DEF SockOK, Socket, TurnOK, Pending
<1>2. /\ t \in Socket /\ t.armed = 0 /\ t.scheduled = FALSE /\ t.stage = s.stage
      /\ t.conns = s.conns /\ t.lastId = s.lastId /\ t.made = s.made /\ t.secure = s.secure
      /\ t.on = s.on /\ t.listen = s.listen /\ t.dial = s.dial /\ t.mode = s.mode
      /\ t.ctx = s.ctx /\ t.count = s.count /\ t.current = s.current
  <2>1. t = [s EXCEPT !.armed = 0, !.scheduled = FALSE]
    <3>1. s.armed - 1 = 0
      BY <1>1
    <3> QED
      BY <3>1, Zenon
  <2> HIDE DEF t
  <2>2. t \in Socket
    BY <1>1, <2>1 DEF Socket
  <2>3. /\ t.stage = s.stage /\ t.conns = s.conns /\ t.lastId = s.lastId /\ t.made = s.made
        /\ t.secure = s.secure /\ t.on = s.on /\ t.listen = s.listen
    BY <1>1, <2>1 DEF Socket
  <2>4. /\ t.dial = s.dial /\ t.mode = s.mode /\ t.ctx = s.ctx /\ t.count = s.count
        /\ t.current = s.current
    BY <1>1, <2>1 DEF Socket
  <2>5. t.armed = 0 /\ t.scheduled = FALSE
    BY <1>1, <2>1 DEF Socket
  <2> QED
    BY <2>2, <2>3, <2>4, <2>5
<1> HIDE DEF t
<1>3. /\ go \in Socket /\ go.stage = (IF s.listen THEN "accept" ELSE "serve")
      /\ go.armed = 0 /\ go.scheduled = FALSE
      /\ go.conns = s.conns /\ go.lastId = s.lastId /\ go.made = s.made /\ go.secure = s.secure
      /\ go.on = s.on /\ go.listen = s.listen /\ go.dial = s.dial /\ go.mode = s.mode
      /\ go.ctx = s.ctx /\ go.count = s.count /\ go.current = s.current
  BY <1>1, <1>2 DEF Socket
<1> HIDE DEF go
<1>4. /\ no \in Socket /\ no.dial = FALSE /\ no.stage = go.stage
      /\ no.armed = 0 /\ no.scheduled = FALSE
      /\ no.conns = s.conns /\ no.lastId = s.lastId /\ no.made = s.made /\ no.secure = s.secure
      /\ no.on = s.on /\ no.listen = s.listen /\ no.mode = s.mode
      /\ no.ctx = s.ctx /\ no.count = s.count /\ no.current = s.current
  BY <1>3 DEF Socket
<1> HIDE DEF no
<1>5. CASE ~s.on
  <2>1. r.sock = t /\ r.own = own
    BY <1>5 DEF PollStart, Quiet, t
  <2>2. ConnsOK(t) /\ Ids(t) = Ids(s)
    BY <1>2, SameConns
  <2>3. ~(t.armed = 1) /\ t.armed <= 1
    BY <1>2
  <2>4. t.scheduled = (t.armed = 1)
    BY <1>2, <2>3, Zenon
  <2>5. TurnOK(t) /\ PlugsOK(t)
    BY <1>2, <1>5, <2>3, <2>4 DEF SockOK, TurnOK, Pending, PlugsOK
  <2>6. CountOK(t)
    BY <1>2 DEF SockOK, CountOK, Counted
  <2>7. Settled(s, t)
    BY <1>1, <1>2 DEF Settled
  <2>8. Told(s, own, r)
    BY <1>2, <2>1, <2>2 DEF Told
  <2> QED
    BY <1>2, <2>1, <2>2, <2>5, <2>6, <2>7, <2>8 DEF PollGood, SockOK
<1>6. CASE s.on
  <2>1. SockOK(go) /\ Ids(go) = Ids(s) /\ Settled(s, go)
    <3>1. ConnsOK(go) /\ Ids(go) = Ids(s)
      BY <1>3, SameConns
    <3>2. TurnOK(go) /\ PlugsOK(go)
      BY <1>3, <1>6 DEF SockOK, TurnOK, PlugsOK
    <3>3. CountOK(go)
      BY <1>3 DEF SockOK, CountOK, Counted
    <3> QED
      BY <1>1, <1>3, <3>1, <3>2, <3>3 DEF SockOK, Settled
  <2>2. SockOK(no) /\ Ids(no) = Ids(s) /\ Settled(s, no)
    <3>1. ConnsOK(no) /\ Ids(no) = Ids(s)
      BY <1>4, SameConns
    <3>2. TurnOK(no) /\ PlugsOK(no)
      BY <1>3, <1>4, <1>6 DEF SockOK, TurnOK, PlugsOK
    <3>3. CountOK(no)
      BY <1>4 DEF SockOK, CountOK, Counted
    <3> QED
      BY <1>1, <1>4, <3>1, <3>2, <3>3 DEF SockOK, Settled
  <2>3. \/ r = Quiet(go, own)
        \/ s.dial /\ r = Error(Quiet(no, own))
        \/ s.dial /\ r = Joins(no, own, NewConn(s))
    BY <1>6 DEF PollStart, t, go, no
  <2>4. CASE r = Quiet(go, own)
    <3>1. r.sock = go /\ r.own = own
      BY <2>4 DEF Quiet
    <3> QED
      BY <1>3, <1>6, <2>1, <3>1 DEF PollGood, Told
  <2>5. CASE r = Error(Quiet(no, own))
    <3> DEFINE q == Quiet(no, own)
    <3>1. q.sock = no /\ q.own = own /\ r = Error(q)
      BY <2>5 DEF Quiet
    <3> HIDE DEF q
    <3>2. r.sock = no /\ \E m \in Msg : m.kind = "error" /\ r.own = Tell(own, m)
      BY <2>2, <3>1, ErrorIs
    <3>3. \E m \in Says(s) : r.own = Tell(own, m) /\ m.kind = "error"
      BY <3>2 DEF Says
    <3>4. Told(s, own, r)
      BY <1>4, <2>2, <3>2, <3>3 DEF Told
    <3> QED
      BY <1>6, <2>2, <3>2, <3>4 DEF PollGood
  <2>6. CASE s.dial /\ r = Joins(no, own, NewConn(s))
    <3> DEFINE c == NewConn(s)
    <3>1. /\ c \in Conn /\ c.id = s.lastId + 1 /\ c.peer = s.made + 1 /\ c.tls = s.ctx
          /\ c.buf = <<>> /\ c.asked = <<>> /\ c.got = <<>>
      BY NewConnIs
    <3> HIDE DEF c
    <3>2. /\ s.mode = "client" /\ s.conns = <<>> /\ s.count = 0 /\ s.count <= MaxConns
          /\ (s.secure => s.ctx)
      BY <1>6, <2>6 DEF SockOK, PlugsOK, CountOK, Counted
    <3>3. no = [no EXCEPT !.count = 0]
      BY <1>4, <3>2 DEF Socket
    <3>4. r = Joins([no EXCEPT !.count = 0], own, c)
      BY <2>6, <3>3 DEF c
    <3>5. /\ SockOK(r.sock) /\ Settled(no, r.sock)
          /\ \E m \in Msg : /\ m.kind = "new" /\ r.own = Tell(own, m)
                            /\ Ids(r.sock) = Ids(no) \cup {m.id} /\ r.sock.current = m.id
      <4>1. /\ no.on /\ c.id = no.lastId + 1 /\ c.peer = no.made + 1 /\ (no.secure => c.tls)
            /\ no.mode = "client" /\ no.conns = <<>> /\ ~no.dial
        BY <1>4, <1>6, <3>1, <3>2
      <4>2. 0 \in Nat /\ 0 <= MaxConns /\ 0 = IF no.mode = "server" THEN no.count + 1 ELSE 0
        BY <3>2, <4>1
      <4> QED
        BY <2>2, <3>1, <3>4, <4>1, <4>2, JoinsGood
    <3>6. Settled(s, r.sock)
      BY <1>4, <3>5 DEF Settled
    <3>7. Told(s, own, r)
      BY <2>2, <3>5 DEF Told
    <3> QED
      BY <1>6, <3>5, <3>6, <3>7 DEF PollGood
  <2> QED
    BY <2>3, <2>4, <2>5, <2>6
<1> QED
  BY <1>5, <1>6
\* One turn of the accept loop: at the limit nobody is let in.
LEMMA AcceptGood ==
    ASSUME MaxConns \in Nat, NEW s, SockOK(s), s.stage = "accept", NEW own,
           NEW r \in AcceptOne(s, own)
    PROVE  PollGood(s, own, r)
<1> DEFINE c == NewConn(s)
           t == [s EXCEPT !.stage = "serve"]
<1>1. /\ s \in Socket /\ s.on /\ s.count \in Nat /\ s.count <= MaxConns /\ s.lastId \in Nat
      /\ s.armed = 0 /\ ~s.scheduled /\ s.listen /\ s.mode = "server" /\ (s.secure => s.ctx)
  BY DEF SockOK, Socket, TurnOK, PlugsOK, CountOK, Counted
<1>2. /\ c \in Conn /\ c.id = s.lastId + 1 /\ c.peer = s.made + 1 /\ c.tls = s.ctx
      /\ c.buf = <<>> /\ c.asked = <<>> /\ c.got = <<>>
  BY NewConnIs
<1>3. \/ r = Quiet(t, own)
      \/ r = Error(Quiet(s, own))
      \/ /\ s.count < MaxConns
         /\ \E d \in {c, [c EXCEPT !.shaking = FALSE], [c EXCEPT !.peerClosed = TRUE]} :
                r = Joins([s EXCEPT !.count = s.count + 1], own, d)
  <2>1. s.count >= MaxConns \/ s.count < MaxConns
    BY <1>1
  <2>2. CASE s.count >= MaxConns
    BY <2>2 DEF AcceptOne
  <2>3. CASE s.count < MaxConns
    <3>1. ~(s.count >= MaxConns)
      BY <1>1, <2>3
    <3>2. r \in {Quiet(t, own)} \cup
               (IF s.made = MaxIds THEN {}
                ELSE {Joins([s EXCEPT !.count = s.count + 1], own, d) :
                        d \in IF ~c.tls THEN {c}
                              ELSE {c, [c EXCEPT !.shaking = FALSE], [c EXCEPT !.peerClosed = TRUE]}})
      BY <3>1, Zenon DEF AcceptOne
    <3> HIDE DEF c, t
    <3> QED
      BY <2>3, <3>2
  <2> QED
    BY <2>1, <2>2, <2>3
<1>4. CASE r = Quiet(t, own)
  <2>1. r.sock = t /\ r.own = own
    BY <1>4 DEF Quiet
  <2>2. /\ t \in Socket /\ t.stage = "serve" /\ t.conns = s.conns /\ t.lastId = s.lastId
        /\ t.made = s.made /\ t.secure = s.secure /\ t.on = s.on
    BY <1>1 DEF Socket
  <2>3. /\ t.mode = s.mode /\ t.ctx = s.ctx /\ t.listen = s.listen /\ t.dial = s.dial
        /\ t.armed = s.armed /\ t.scheduled = s.scheduled /\ t.count = s.count
        /\ t.current = s.current
    BY <1>1 DEF Socket
  <2> HIDE DEF t
  <2>4. ConnsOK(t) /\ Ids(t) = Ids(s)
    BY <2>2, SameConns
  <2>5. TurnOK(t) /\ PlugsOK(t)
    BY <1>1, <2>2, <2>3 DEF SockOK, TurnOK, PlugsOK
  <2>6. CountOK(t)
    BY <2>2, <2>3 DEF SockOK, CountOK, Counted
  <2>7. Told(s, own, r) /\ Settled(s, t)
    BY <1>1, <2>1, <2>2, <2>3, <2>4 DEF Told, Settled
  <2> QED
    BY <1>1, <2>1, <2>2, <2>4, <2>5, <2>6, <2>7 DEF PollGood, SockOK
<1>5. CASE r = Error(Quiet(s, own))
  <2> DEFINE q == Quiet(s, own)
  <2>1. q.sock = s /\ q.own = own /\ r = Error(q)
    BY <1>5 DEF Quiet
  <2> HIDE DEF q
  <2>2. r.sock = s /\ \E m \in Msg : m.kind = "error" /\ r.own = Tell(own, m)
    BY <2>1, ErrorIs
  <2>3. \E m \in Says(s) : r.own = Tell(own, m) /\ m.kind = "error"
    BY <2>2 DEF Says
  <2>4. r.sock.current = s.current /\ Ids(r.sock) = Ids(s)
    BY <2>2
  <2>5. Told(s, own, r)
    BY <2>3, <2>4 DEF Told
  <2>6. Settled(s, r.sock)
    <3>1. s.lastId >= s.lastId
      BY <1>1
    <3> QED
      BY <2>2, <3>1, Zenon DEF Settled
  <2> QED
    BY <1>1, <2>2, <2>5, <2>6 DEF PollGood
<1>6. ASSUME s.count < MaxConns,
             NEW d \in {c, [c EXCEPT !.shaking = FALSE], [c EXCEPT !.peerClosed = TRUE]},
             r = Joins([s EXCEPT !.count = s.count + 1], own, d)
      PROVE  PollGood(s, own, r)
  <2> HIDE DEF c
  <2>1. /\ d \in Conn /\ d.id = s.lastId + 1 /\ d.peer = s.made + 1 /\ (s.secure => d.tls)
        /\ d.buf = <<>> /\ d.asked = <<>> /\ d.got = <<>>
    BY <1>1, <1>2 DEF Conn
  <2> DEFINE n == s.count + 1
  <2>2. n \in Nat /\ n <= MaxConns /\ n = IF s.mode = "server" THEN s.count + 1 ELSE 0
    BY <1>1, <1>6
  <2>3. r = Joins([s EXCEPT !.count = n], own, d)
    BY <1>6
  <2> HIDE DEF n
  <2>4. /\ SockOK(r.sock) /\ Settled(s, r.sock)
        /\ \E m \in Msg : /\ m.kind = "new" /\ r.own = Tell(own, m)
                          /\ Ids(r.sock) = Ids(s) \cup {m.id} /\ r.sock.current = m.id
    BY <1>1, <2>1, <2>2, <2>3, JoinsGood
  <2>5. Told(s, own, r)
    BY <2>4 DEF Told
  <2> QED
    BY <1>1, <2>4, <2>5 DEF PollGood
<1> QED
  BY <1>3, <1>4, <1>5, <1>6

\* At the end the poll is pending again, once.
LEMMA PollEndGood ==
    ASSUME NEW s, SockOK(s), s.stage = "serve", NEW own, NEW r \in PollEnd(s, own)
    PROVE  PollGood(s, own, r)
<1> DEFINE t == [s EXCEPT !.stage = "rest", !.pos = 1, !.armed = @ + 1, !.scheduled = TRUE]
<1>1. /\ s \in Socket /\ s.on /\ s.armed = 0 /\ s.lastId \in Nat
  BY DEF SockOK, Socket, TurnOK
<1>2. r.sock = t /\ r.own = own
  BY DEF PollEnd, Quiet
<1>3. t = [s EXCEPT !.stage = "rest", !.pos = 1, !.armed = 1, !.scheduled = TRUE]
  <2>1. s.armed + 1 = 1
    BY <1>1
  <2> QED
    BY <2>1, Zenon
<1> HIDE DEF t
<1>4. t \in Socket
  <2>1. ASSUME NEW p \in Nat \ {0}, NEW k \in Nat
        PROVE  [s EXCEPT !.stage = "rest", !.pos = p, !.armed = k, !.scheduled = TRUE] \in Socket
    BY <1>1 DEF Socket
  <2>2. 1 \in Nat \ {0} /\ 1 \in Nat
    OBVIOUS
  <2> QED
    BY <1>3, <2>1, <2>2
<1>5. t.stage = "rest" /\ t.armed = 1 /\ t.scheduled = TRUE
  BY <1>1, <1>3 DEF Socket
<1>6. /\ t.conns = s.conns /\ t.lastId = s.lastId /\ t.made = s.made /\ t.secure = s.secure
      /\ t.on = s.on /\ t.mode = s.mode /\ t.ctx = s.ctx
  BY <1>1, <1>3 DEF Socket
<1>7. /\ t.listen = s.listen /\ t.dial = s.dial /\ t.count = s.count /\ t.current = s.current
  BY <1>1, <1>3 DEF Socket
<1>8. ConnsOK(t) /\ Ids(t) = Ids(s)
  BY <1>4, <1>6, SameConns
<1>9. TurnOK(t)
  <2>1. t.armed <= 1
    BY <1>5
  <2>2. t.scheduled = (t.armed = 1)
    BY <1>5, Zenon
  <2> QED
    BY <1>5, <2>1, <2>2 DEF TurnOK, Pending
<1>10. PlugsOK(t) /\ CountOK(t)
  BY <1>5, <1>6, <1>7 DEF SockOK, PlugsOK, CountOK, Counted
<1>11. Told(s, own, r) /\ Settled(s, t)
  BY <1>1, <1>2, <1>6, <1>7, <1>8 DEF Told, Settled
<1> QED
  BY <1>1, <1>2, <1>4, <1>8, <1>9, <1>10, <1>11 DEF PollGood, SockOK

\* What send takes of a connection's buffer was queued next; a connection in its
\* handshake is sent nothing.
LEMMA SentOK ==
    ASSUME Block \in Nat, NEW s, NEW c \in Conn, ConnOK(s, c), NEW n \in Takes(c)
    PROVE  Sent(c, n) \in Conn /\ ConnOK(s, Sent(c, n)) /\ Sent(c, n).id = c.id
<1> DEFINE e == Sent(c, n)
           g == c.got \o SubSeq(c.buf, 1, n)
           b == SubSeq(c.buf, n + 1, Len(c.buf))
<1>1. c.buf \in Seq(Unit) /\ c.got \in Seq(Unit) /\ Len(c.buf) \in Nat /\ c.shaking \in BOOLEAN
  BY DEF Conn
<1>2. n \in 0 .. Len(c.buf) /\ (c.shaking => n = 0)
  BY <1>1 DEF Takes
<1>3. g \in Seq(Unit) /\ b \in Seq(Unit) /\ g \o b = c.got \o c.buf /\ (n = 0 => g = c.got)
  <2> DEFINE h == c.got
             q == c.buf
  <2>1. h \in Seq(Unit) /\ q \in Seq(Unit) /\ n \in 0 .. Len(q)
    BY <1>1, <1>2
  <2> HIDE DEF h, q
  <2>2. /\ SubSeq(q, n + 1, Len(q)) \in Seq(Unit) /\ h \o SubSeq(q, 1, n) \in Seq(Unit)
        /\ (h \o SubSeq(q, 1, n)) \o SubSeq(q, n + 1, Len(q)) = h \o q
        /\ n = 0 => h \o SubSeq(q, 1, n) = h
    BY <2>1, SplitIs
  <2> QED
    BY <2>2 DEF h, q
<1>4. e = [c EXCEPT !.got = g, !.buf = b]
  BY DEF Sent
<1> HIDE DEF g, b, e
<1>5. /\ e \in Conn /\ e.got = g /\ e.buf = b /\ e.id = c.id /\ e.peer = c.peer
      /\ e.tls = c.tls /\ e.shaking = c.shaking /\ e.asked = c.asked
  BY <1>3, <1>4 DEF Conn
<1> QED
  BY <1>2, <1>3, <1>5 DEF ConnOK, e
\* A connection that stays takes its old place.
LEMMA KeepOK ==
    ASSUME NEW s, SockOK(s), s.stage = "serve", s.pos <= Len(s.conns),
           NEW e \in Conn, ConnOK(s, e), e.id = s.conns[s.pos].id
    PROVE  LET t == Keeps(s, e)
           IN  SockOK(t) /\ Settled(s, t) /\ Ids(t) = Ids(s) /\ t.current = s.current
<1> DEFINE t == Keeps(s, e)
           q == [s.conns EXCEPT ![s.pos] = e]
           p == s.pos + 1
<1>1. /\ s \in Socket /\ s.conns \in Seq(Conn) /\ Len(s.conns) \in Nat /\ s.pos \in Nat \ {0}
      /\ s.lastId \in Nat /\ DOMAIN s.conns = 1 .. Len(s.conns)
  BY DEF SockOK, Socket
<1>2. s.pos \in DOMAIN s.conns /\ s.conns # <<>>
  BY <1>1
<1>3. /\ q \in Seq(Conn) /\ Len(q) = Len(s.conns) /\ DOMAIN q = DOMAIN s.conns /\ q # <<>>
      /\ \A i \in DOMAIN s.conns : q[i] = IF i = s.pos THEN e ELSE s.conns[i]
  BY <1>1, <1>2
<1>4. p \in Nat \ {0}
  BY <1>1
<1>5. t = [s EXCEPT !.conns = q, !.pos = p]
  BY <1>1 DEF Keeps, Socket
<1> HIDE DEF t, q, p
<1>6. t \in Socket /\ t.conns = q
  BY <1>1, <1>3, <1>4, <1>5 DEF Socket
<1>7. /\ t.on = s.on /\ t.stage = s.stage /\ t.secure = s.secure /\ t.lastId = s.lastId
      /\ t.current = s.current /\ t.made = s.made /\ t.ctx = s.ctx
  BY <1>1, <1>5 DEF Socket
<1>8. /\ t.listen = s.listen /\ t.dial = s.dial /\ t.armed = s.armed
      /\ t.scheduled = s.scheduled /\ t.count = s.count /\ t.mode = s.mode
  BY <1>1, <1>5 DEF Socket
<1>9. TurnOK(t) /\ PlugsOK(t)
  BY <1>7, <1>8 DEF SockOK, TurnOK, Pending, PlugsOK
<1>10. CountOK(t)
  BY <1>2, <1>3, <1>6, <1>7, <1>8 DEF SockOK, CountOK, Counted
<1>11. ConnsOK(t)
  <2>1. \A i \in DOMAIN q : ConnOK(s, q[i])
    BY <1>3 DEF SockOK, ConnsOK
  <2>2. \A i \in DOMAIN q : ConnOK(t, q[i])
    BY <1>7, <2>1 DEF ConnOK
  <2> QED
    BY <1>6, <1>7, <2>2 DEF SockOK, ConnsOK
<1>12. Ids(t) = Ids(s)
  <2>1. \A i \in DOMAIN s.conns : q[i].id = s.conns[i].id
    BY <1>3
  <2> QED
    BY <1>3, <1>6, <2>1 DEF Ids
<1>13. Settled(s, t)
  BY <1>1, <1>7 DEF Settled
<1> QED
  BY <1>6, <1>7, <1>9, <1>10, <1>11, <1>12, <1>13 DEF SockOK, t

\* The owner, so far `own`, is told of a connection that has gone.
Gone(s, own, r) ==
    /\ SockOK(r.sock) /\ Settled(s, r.sock)
    /\ \E m \in Msg : /\ r.own = Tell(own, m) /\ m.kind = "closed"
                      /\ Ids(r.sock) \subseteq Ids(s) /\ Ids(s) \ {m.id} \subseteq Ids(r.sock)
                      /\ Ids(r.sock) # {} => m.count # 0

\* A connection that goes is counted off, and the owner was told just before.
LEMMA DropOK ==
    ASSUME MaxConns \in Nat, NEW s, SockOK(s), s.stage = "serve", s.pos <= Len(s.conns),
           NEW e \in Conn, e.id = s.conns[s.pos].id, NEW r, r.sock = s
    PROVE  Gone(s, r.own, Drops(r, e))
<1> DEFINE u == [s EXCEPT !.current = e.id]
           m == [kind |-> "closed", id |-> e.id, peer |-> e.peer, count |-> s.count]
           q == RemoveAt(s.conns, s.pos)
           n == IF s.count > 0 THEN s.count - 1 ELSE 0
           t == [u EXCEPT !.conns = q, !.count = n]
<1>1. /\ s \in Socket /\ s.conns \in Seq(Conn) /\ Len(s.conns) \in Nat /\ s.pos \in Nat \ {0}
      /\ s.lastId \in Nat /\ DOMAIN s.conns = 1 .. Len(s.conns) /\ s.count \in Nat
      /\ e.id \in Nat /\ e.peer \in Nat
  <2>1. s \in Socket
    BY DEF SockOK
  <2>2. s.conns \in Seq(Conn) /\ s.pos \in Nat \ {0} /\ s.lastId \in Nat /\ s.count \in Nat
    BY <2>1 DEF Socket
  <2>3. e.id \in Nat /\ e.peer \in Nat
    BY DEF Conn
  <2> QED
    BY <2>1, <2>2, <2>3
<1>2. s.pos \in 1 .. Len(s.conns) /\ Len(s.conns) >= 1
  BY <1>1
<1>3. m \in Msg
  BY <1>1 DEF Msg
<1>4. Drops(r, e).sock = t /\ Drops(r, e).own = Tell(r.own, m)
  <2>1. u \in Socket /\ u.conns = s.conns /\ u.count = s.count
    BY <1>1 DEF Socket
  <2>2. Callback(r, "closed", e) = [sock |-> u, own |-> Tell(r.own, m)]
    BY Zenon DEF Callback
  <2> DEFINE o == Tell(r.own, m)
             told == [sock |-> u, own |-> o]
  <2>3. Drops(r, e) = [told EXCEPT !.sock = [told.sock EXCEPT
              !.conns = RemoveAt(told.sock.conns, s.pos),
              !.count = IF told.sock.count > 0 THEN told.sock.count - 1 ELSE 0]]
    BY <2>2, Zenon DEF Drops
  <2> HIDE DEF u, o
  <2>4. told.sock = u /\ told.own = o
    OBVIOUS
  <2>5. Drops(r, e) = [told EXCEPT !.sock = t]
    BY <2>1, <2>3, <2>4, Zenon DEF q, n
  <2> HIDE DEF t
  <2> QED
    BY <2>5 DEF o
<1>5. /\ q \in Seq(Conn) /\ Len(q) = Len(s.conns) - 1
      /\ \A j \in DOMAIN q : \E k \in DOMAIN s.conns : q[j] = s.conns[k]
      /\ \A k \in DOMAIN s.conns : k # s.pos => \E j \in DOMAIN q : q[j] = s.conns[k]
  <2> DEFINE f == s.conns
             i == s.pos
  <2>1. f \in Seq(Conn) /\ i \in 1 .. Len(f)
    BY <1>1, <1>2
  <2> HIDE DEF f, i
  <2>2. /\ RemoveAt(f, i) \in Seq(Conn) /\ Len(RemoveAt(f, i)) = Len(f) - 1
        /\ \A j \in DOMAIN RemoveAt(f, i) : \E k \in DOMAIN f : RemoveAt(f, i)[j] = f[k]
        /\ \A k \in DOMAIN f : k # i =>
               \E j \in DOMAIN RemoveAt(f, i) : RemoveAt(f, i)[j] = f[k]
    BY <2>1, RemoveAtIs
  <2> QED
    BY <2>2 DEF f, i
<1>6. m.kind = "closed" /\ m.id = e.id /\ m.count = s.count
  OBVIOUS
<1>7. n \in Nat
  BY <1>1
<1>8. /\ SockOK(u) /\ u.current = e.id /\ Ids(u) = Ids(s) /\ u.conns = s.conns /\ u.on = s.on
      /\ u.secure = s.secure /\ u.mode = s.mode /\ u.lastId = s.lastId /\ u.count = s.count
      /\ u.stage = s.stage
  <2> DEFINE k == e.id
  <2>1. k \in Nat /\ u = [s EXCEPT !.current = k]
    BY <1>1
  <2> HIDE DEF k, u
  <2>2. /\ SockOK(u) /\ u.current = k /\ Ids(u) = Ids(s) /\ u.conns = s.conns /\ u.on = s.on
        /\ u.secure = s.secure /\ u.mode = s.mode /\ u.lastId = s.lastId /\ u.count = s.count
        /\ u.stage = s.stage
    BY <2>1, CurrentFree
  <2> QED
    BY <2>2 DEF k
<1> HIDE DEF m, u, q, n
<1>9. t \in Socket /\ t.conns = q /\ t.count = n
  BY <1>5, <1>7, <1>8 DEF SockOK, Socket
<1>10. /\ t.on = s.on /\ t.stage = s.stage /\ t.secure = s.secure /\ t.lastId = s.lastId
       /\ t.made = u.made /\ t.ctx = u.ctx /\ t.mode = s.mode
  BY <1>8 DEF SockOK, Socket
<1>11. /\ t.listen = u.listen /\ t.dial = u.dial /\ t.armed = u.armed
       /\ t.scheduled = u.scheduled
  BY <1>8 DEF SockOK, Socket
<1> HIDE DEF t
<1>12. TurnOK(t) /\ PlugsOK(t)
  BY <1>8, <1>10, <1>11 DEF SockOK, TurnOK, Pending, PlugsOK
<1>13. s.on /\ (s.mode = "server" => s.count = Len(s.conns)) /\ s.count <= MaxConns
       /\ (s.mode = "client" => Len(s.conns) = 1 /\ s.count = 0 /\ ~s.dial)
  <2>0. CountOK(s) /\ Counted(s) /\ TurnOK(s)
    BY DEF SockOK, CountOK
  <2>1. s.mode = "client" => Len(s.conns) <= 1 /\ s.count = 0 /\ (s.dial => s.conns = <<>>)
    BY <2>0 DEF CountOK, Counted
  <2>2. s.conns # <<>>
    BY <1>1, <1>2
  <2>3. s.mode = "client" => Len(s.conns) = 1
    <3> DEFINE k == Len(s.conns)
    <3>1. k \in Nat /\ k >= 1 /\ (s.mode = "client" => k <= 1)
      BY <1>1, <1>2, <2>1, Zenon
    <3> HIDE DEF k
    <3>2. s.mode = "client" => k = 1
      BY <3>1
    <3> QED
      BY <3>2 DEF k
  <2> QED
    BY <2>0, <2>1, <2>2, <2>3 DEF TurnOK, Counted
<1>14. CountOK(t)
  <2>1. s.mode \in {"server", "client"}
    BY <1>1 DEF Socket
  <2>2. s.mode = "server" => n = Len(q) /\ n <= MaxConns
    BY <1>1, <1>2, <1>5, <1>13 DEF n
  <2>3. s.mode = "client" => n = 0 /\ Len(q) = 0 /\ q = <<>> /\ n <= MaxConns
    BY <1>1, <1>5, <1>13 DEF n
  <2>4. t.count = IF t.mode = "server" THEN Len(t.conns) ELSE 0
    BY <1>9, <1>10, <2>1, <2>2, <2>3
  <2> QED
    BY <1>9, <1>10, <1>13, <2>1, <2>2, <2>3, <2>4 DEF CountOK, Counted
<1>15. ConnsOK(t)
  <2>1. \A k \in DOMAIN s.conns : ConnOK(s, s.conns[k])
    BY DEF SockOK, ConnsOK
  <2>2. \A j \in DOMAIN q : ConnOK(s, q[j])
    BY <1>5, <2>1
  <2>3. \A j \in DOMAIN q : ConnOK(t, q[j])
    BY <1>10, <2>2 DEF ConnOK
  <2> QED
    BY <1>8, <1>9, <1>10, <2>3 DEF SockOK, ConnsOK
<1>16. Ids(t) \subseteq Ids(s) /\ Ids(s) \ {m.id} \subseteq Ids(t)
  <2>1. Ids(t) = {q[j].id : j \in DOMAIN q} /\ Ids(s) = {s.conns[k].id : k \in DOMAIN s.conns}
    BY <1>9 DEF Ids
  <2>2. \A k \in DOMAIN s.conns :
           s.conns[k].id = e.id \/ \E j \in DOMAIN q : q[j].id = s.conns[k].id
    BY <1>5
  <2> QED
    BY <1>5, <1>6, <2>1, <2>2
<1>17. SockOK(t)
  BY <1>9, <1>12, <1>14, <1>15 DEF SockOK
<1>18. Ids(t) # {} => m.count # 0
  <2>1. Ids(t) # {} => q # <<>>
    BY <1>9, <1>17, IdsEmpty
  <2>2. s.mode = "client" => q = <<>>
    <3>1. s.mode = "client" => Len(q) = 0
      <4>1. ASSUME NEW k, k = 1 PROVE k - 1 = 0
        BY <4>1
      <4>2. Len(q) = Len(s.conns) - 1 /\ (s.mode = "client" => Len(s.conns) = 1)
        BY <1>5, <1>13, Zenon
      <4> QED
        BY <4>1, <4>2, Zenon
    <3> QED
      BY <1>5, <3>1, EmptySeq, Zenon
  <2>3. s.mode \in {"server", "client"}
    BY <1>1 DEF Socket
  <2>4. s.mode = "server" => s.count # 0
    BY <1>2, <1>13
  <2> QED
    BY <1>6, <2>1, <2>2, <2>3, <2>4
<1>19. Settled(s, t)
  BY <1>1, <1>10 DEF Settled
<1> QED
  BY <1>3, <1>4, <1>6, <1>16, <1>17, <1>18, <1>19 DEF Gone

\* After recv: the owner has heard what arrived, or nothing did.
Heard(s, own, q) ==
    /\ SockOK(q.sock) /\ Ids(q.sock) = Ids(s) /\ q.sock.conns = s.conns
    /\ q.sock.pos = s.pos /\ q.sock.stage = s.stage /\ q.sock.on = s.on
    /\ q.sock.secure = s.secure /\ q.sock.lastId = s.lastId
    /\ \/ q.own = own /\ q.sock.current = s.current
       \/ \E m \in Says(s) : m.kind = "data" /\ q.own = Tell(own, m) /\ q.sock.current = m.id

\* What arrived is told with the number of its connection.
LEMMA HeardIs ==
    ASSUME NEW s, SockOK(s), s.pos <= Len(s.conns), NEW own, NEW c \in Conn,
           c.id = s.conns[s.pos].id, ConnOK(s, c),
           NEW q, q = Quiet(s, own) \/ q = Callback(Quiet(s, own), "data", c)
    PROVE  Heard(s, own, q)
<1>1. CASE q = Quiet(s, own)
  <2>1. q.sock = s /\ q.own = own
    BY <1>1 DEF Quiet
  <2> QED
    BY <2>1 DEF Heard
<1>2. CASE q = Callback(Quiet(s, own), "data", c)
  <2> DEFINE o == Quiet(s, own)
             m == [kind |-> "data", id |-> c.id, peer |-> c.peer, count |-> o.sock.count]
  <2>1. o.sock = s /\ o.own = own
    BY DEF Quiet
  <2>2. c.id \in Nat /\ c.peer \in Nat /\ c.id = c.peer
    BY DEF Conn, ConnOK
  <2>3. SockOK(o.sock)
    BY <2>1
  <2>4. q = Callback(o, "data", c)
    BY <1>2
  <2> HIDE DEF o
  <2>5. /\ m \in Msg /\ Callback(o, "data", c).sock = [o.sock EXCEPT !.current = c.id]
        /\ Callback(o, "data", c).own = Tell(o.own, m)
    BY <2>2, <2>3, CallbackIs
  <2>6. m.kind = "data" /\ m.id = c.id /\ m.peer = c.peer
    OBVIOUS
  <2> HIDE DEF m
  <2>7. q.sock = [s EXCEPT !.current = c.id] /\ q.own = Tell(own, m)
    BY <2>1, <2>4, <2>5
  <2>8. m \in Says(s)
    <3>1. s.conns \in Seq(Conn) /\ s.pos \in Nat \ {0}
      BY DEF SockOK, Socket
    <3>2. s.pos \in DOMAIN s.conns
      BY <3>1
    <3>3. c.id \in Ids(s)
      BY <3>2 DEF Ids
    <3> QED
      BY <2>2, <2>5, <2>6, <3>3 DEF Says
  <2> DEFINE v == q.sock
  <2>9. /\ SockOK(v) /\ v.current = c.id /\ Ids(v) = Ids(s) /\ v.conns = s.conns
        /\ v.on = s.on /\ v.secure = s.secure /\ v.lastId = s.lastId /\ v.stage = s.stage
        /\ v.pos = s.pos
    <3> DEFINE k == c.id
    <3>1. k \in Nat /\ v = [s EXCEPT !.current = k]
      BY <2>2, <2>7
    <3> HIDE DEF k, v
    <3>2. /\ SockOK(v) /\ v.current = k /\ Ids(v) = Ids(s) /\ v.conns = s.conns
          /\ v.on = s.on /\ v.secure = s.secure /\ v.lastId = s.lastId /\ v.stage = s.stage
          /\ v.pos = s.pos
      BY <3>1, CurrentFree
    <3> QED
      BY <3>2 DEF k
  <2> QED
    BY <2>6, <2>7, <2>8, <2>9 DEF Heard
<1> QED
  BY <1>1, <1>2

\* A connection that stays: the owner has heard what arrived.
LEMMA KeepGood ==
    ASSUME NEW s, SockOK(s), s.stage = "serve", s.pos <= Len(s.conns), NEW own,
           NEW q, Heard(s, own, q), NEW e \in Conn, ConnOK(s, e), e.id = s.conns[s.pos].id,
           NEW r, r.sock = Keeps(q.sock, e), r.own = q.own
    PROVE  PollGood(s, own, r)
<1> DEFINE v == q.sock
           t == r.sock
<1>1. /\ SockOK(v) /\ Ids(v) = Ids(s) /\ v.conns = s.conns /\ v.pos = s.pos
      /\ v.stage = s.stage /\ v.on = s.on /\ v.secure = s.secure /\ v.lastId = s.lastId
  BY DEF Heard
<1>2. t = Keeps(v, e)
  OBVIOUS
<1>3. \/ q.own = own /\ v.current = s.current
      \/ \E m \in Says(s) : m.kind = "data" /\ q.own = Tell(own, m) /\ v.current = m.id
  BY DEF Heard
<1> HIDE DEF v
<1>4. ConnOK(v, e)
  BY <1>1 DEF ConnOK
<1>5. SockOK(t) /\ Settled(v, t) /\ Ids(t) = Ids(v) /\ t.current = v.current
  BY <1>1, <1>2, <1>4, KeepOK
<1>6. s.on
  BY DEF SockOK, TurnOK
<1>7. Settled(s, t)
  BY <1>1, <1>5 DEF Settled
<1>8. Told(s, own, r)
  BY <1>1, <1>3, <1>5 DEF Told
<1> QED
  BY <1>5, <1>6, <1>7, <1>8 DEF PollGood

\* A connection that goes: the owner is told last of all.
LEMMA DropGood ==
    ASSUME MaxConns \in Nat, NEW s, SockOK(s), s.stage = "serve", s.pos <= Len(s.conns), NEW own,
           NEW q, Heard(s, own, q), NEW e \in Conn, e.id = s.conns[s.pos].id,
           NEW o, o = q \/ o = Error(q), NEW r, r = Drops(o, e)
    PROVE  PollGood(s, own, r)
<1> DEFINE v == q.sock
           t == r.sock
<1>1. /\ SockOK(v) /\ Ids(v) = Ids(s) /\ v.conns = s.conns /\ v.pos = s.pos
      /\ v.stage = s.stage /\ v.on = s.on /\ v.secure = s.secure /\ v.lastId = s.lastId
  BY DEF Heard
<1>2. q.own = own \/ \E m \in Says(s) : q.own = Tell(own, m)
  BY DEF Heard
<1>3. o.sock = v /\ (o.own = q.own \/ \E m \in Says(s) : o.own = Tell(q.own, m))
  <2>1. CASE o = q
    BY <2>1
  <2>2. CASE o = Error(q)
    <3>1. Error(q).sock = v /\ \E m \in Msg : m.kind = "error" /\ Error(q).own = Tell(q.own, m)
      BY <1>1, ErrorIs
    <3> QED
      BY <2>2, <3>1 DEF Says
  <2> QED
    BY <2>1, <2>2
<1>4. o.own \in Before(s, own)
  BY <1>2, <1>3 DEF Before
<1> HIDE DEF v
<1>5. Gone(v, o.own, r)
  <2>1. v.stage = "serve" /\ v.pos <= Len(v.conns) /\ e.id = v.conns[v.pos].id
    BY <1>1
  <2>2. Gone(v, o.own, Drops(o, e))
    BY <1>1, <1>3, <2>1, DropOK
  <2> QED
    BY <2>2
<1>6. s.on
  BY DEF SockOK, TurnOK
<1>7. Settled(s, t)
  BY <1>1, <1>5 DEF Gone, Settled
<1>8. Told(s, own, r)
  <2>1. PICK m \in Msg : /\ r.own = Tell(o.own, m) /\ m.kind = "closed"
                         /\ Ids(t) \subseteq Ids(v) /\ Ids(v) \ {m.id} \subseteq Ids(t)
                         /\ Ids(t) # {} => m.count # 0
    BY <1>5 DEF Gone
  <2> QED
    BY <1>1, <1>4, <2>1 DEF Told
<1> QED
  BY <1>5, <1>6, <1>7, <1>8 DEF PollGood, Gone

\* Read, then write, on one connection.
LEMMA ExchangedGood ==
    ASSUME MaxConns \in Nat, Block \in Nat, NEW s, SockOK(s), s.stage = "serve",
           s.pos <= Len(s.conns), NEW own, NEW c \in Conn, c.id = s.conns[s.pos].id,
           ConnOK(s, c), NEW r \in Exchanged(s, own, c)
    PROVE  PollGood(s, own, r)
<1> DEFINE d(h) == [c EXCEPT !.peerClosed = @ \/ h \in {"eof", "error"}]
           q(h) == IF h = "data" THEN Callback(Quiet(s, own), "data", c) ELSE Quiet(s, own)
           goes(h) == r = Drops(Error(q(h)), d(h))
           rest(h, n) == LET e == Sent(d(h), n) IN
                         IF e.peerClosed /\ e.buf = <<>> THEN Drops(q(h), e)
                         ELSE [q(h) EXCEPT !.sock = Keeps(@, e)]
<1>1. PICK h \in Hears(c) : goes(h) \/ \E n \in Takes(d(h)) : r = rest(h, n)
  <2>1. PICK h \in Hears(c) :
          r \in IF h = "error" THEN {Drops(Error(q(h)), d(h))}
                ELSE {rest(h, n) : n \in Takes(d(h))}
                     \cup (IF d(h).buf # <<>> THEN {Drops(Error(q(h)), d(h))} ELSE {})
    BY Zenon DEF Exchanged
  <2> QED
    BY <2>1, Zenon
<1> DEFINE b == d(h)
           o == q(h)
<1>2. b \in Conn /\ ConnOK(s, b) /\ b.id = s.conns[s.pos].id
  <2> DEFINE z == c.peerClosed \/ h \in {"eof", "error"}
  <2>1. z \in BOOLEAN /\ b = [c EXCEPT !.peerClosed = z]
    BY Zenon
  <2> HIDE DEF z, b
  <2>2. /\ b \in Conn /\ b.id = c.id /\ b.peer = c.peer /\ b.tls = c.tls
        /\ b.shaking = c.shaking /\ b.buf = c.buf /\ b.asked = c.asked /\ b.got = c.got
    BY <2>1 DEF Conn
  <2> QED
    BY <2>2 DEF ConnOK
<1>3. o = Quiet(s, own) \/ o = Callback(Quiet(s, own), "data", c)
  BY Zenon
<1>4. goes(h) \/ \E n \in Takes(b) : r = rest(h, n)
  BY <1>1
<1>5. DOMAIN o = {"sock", "own"} /\ o = [sock |-> o.sock, own |-> o.own]
  BY <1>3 DEF Quiet, Callback
<1>6. CASE goes(h)
  <2>1. r = Drops(Error(o), b)
    BY <1>6
  <2> HIDE DEF o, b
  <2>2. Heard(s, own, o)
    BY <1>3, HeardIs
  <2> QED
    BY <1>2, <2>1, <2>2, DropGood
<1>7. ASSUME NEW n \in Takes(b), r = rest(h, n) PROVE PollGood(s, own, r)
  <2> DEFINE e == Sent(b, n)
  <2>1. r = IF e.peerClosed /\ e.buf = <<>> THEN Drops(o, e) ELSE [o EXCEPT !.sock = Keeps(@, e)]
    BY <1>7, Zenon
  <2> HIDE DEF o, b
  <2>2. Heard(s, own, o)
    BY <1>3, HeardIs
  <2>3. e \in Conn /\ ConnOK(s, e) /\ e.id = s.conns[s.pos].id
    BY <1>2, SentOK
  <2> HIDE DEF e
  <2>4. CASE r = Drops(o, e)
    BY <2>2, <2>3, <2>4, DropGood
  <2>5. CASE r = [o EXCEPT !.sock = Keeps(@, e)]
    <3>1. r.sock = Keeps(o.sock, e) /\ r.own = o.own
      BY <1>5, <2>5
    <3> QED
      BY <2>2, <2>3, <3>1, KeepGood
  <2> QED
    BY <2>1, <2>4, <2>5
<1> QED
  BY <1>4, <1>6, <1>7

\* One turn of the service loop.
LEMMA ServeGood ==
    ASSUME MaxConns \in Nat, Block \in Nat, NEW s, SockOK(s), s.stage = "serve",
           s.pos <= Len(s.conns), NEW own, NEW r \in ServeOne(s, own)
    PROVE  PollGood(s, own, r)
<1> DEFINE c == s.conns[s.pos]
           f == [c EXCEPT !.shaking = FALSE]
           g == [c EXCEPT !.peerClosed = TRUE]
<1>1. c \in Conn /\ ConnOK(s, c)
  <2>1. s.conns \in Seq(Conn) /\ s.pos \in Nat \ {0}
    BY DEF SockOK, Socket
  <2>2. s.pos \in DOMAIN s.conns
    BY <2>1
  <2> QED
    BY <2>1, <2>2 DEF SockOK, ConnsOK
<1>2. \/ r \in Exchanged(s, own, c)
      \/ r = Quiet(Keeps(s, c), own)
      \/ r \in Exchanged(s, own, f)
      \/ r \in Exchanged(s, own, g)
  BY Zenon DEF ServeOne
<1>3. c.id = s.conns[s.pos].id
  OBVIOUS
<1> HIDE DEF c
<1>4. f \in Conn /\ ConnOK(s, f) /\ f.id = c.id
  BY <1>1 DEF Conn, ConnOK
<1>5. g \in Conn /\ ConnOK(s, g) /\ g.id = c.id
  BY <1>1 DEF Conn, ConnOK
<1> HIDE DEF f, g
<1>6. CASE r \in Exchanged(s, own, c)
  BY <1>1, <1>3, <1>6, ExchangedGood
<1>7. CASE r \in Exchanged(s, own, f)
  BY <1>3, <1>4, <1>7, ExchangedGood
<1>8. CASE r \in Exchanged(s, own, g)
  BY <1>3, <1>5, <1>8, ExchangedGood
<1>9. CASE r = Quiet(Keeps(s, c), own)
  <2> DEFINE q == Quiet(s, own)
  <2>1. q.sock = s /\ q.own = own /\ r.sock = Keeps(s, c) /\ r.own = own
    BY <1>9 DEF Quiet
  <2>2. Heard(s, own, q)
    BY <1>1, <1>3, HeardIs
  <2> HIDE DEF q
  <2>3. r.sock = Keeps(q.sock, c) /\ r.own = q.own
    BY <2>1
  <2> QED
    BY <1>1, <1>3, <2>2, <2>3, KeepGood
<1> QED
  BY <1>2, <1>6, <1>7, <1>8, <1>9

\* Whatever part of a poll it is, the socket keeps its invariant and the owner
\* is told of what happened to its peers.
THEOREM PolledGood ==
    ASSUME MaxConns \in Nat \ {0}, Block \in Nat, NEW s, SockOK(s), Polls(s), NEW own,
           NEW r \in Polled(s, own)
    PROVE  PollGood(s, own, r)
<1>1. s.stage \in {"rest", "accept", "serve"}
  BY DEF SockOK, Socket
<1>2. CASE s.stage = "rest"
  <2>1. r \in PollStart(s, own) /\ s.armed > 0
    BY <1>2 DEF Polled, Polls
  <2> QED
    BY <1>2, <2>1, PollStartGood
<1>3. CASE s.stage = "accept"
  <2>1. r \in AcceptOne(s, own)
    BY <1>3 DEF Polled
  <2> QED
    BY <1>3, <2>1, AcceptGood
<1>4. CASE s.stage = "serve"
  <2>1. r \in IF s.pos <= Len(s.conns) THEN ServeOne(s, own) ELSE PollEnd(s, own)
    BY <1>4 DEF Polled
  <2>2. CASE s.pos <= Len(s.conns)
    BY <1>4, <2>1, <2>2, ServeGood
  <2>3. CASE ~(s.pos <= Len(s.conns))
    BY <1>4, <2>1, <2>3, PollEndGood
  <2> QED
    BY <2>2, <2>3
<1> QED
  BY <1>1, <1>2, <1>3, <1>4
==============================================================================
