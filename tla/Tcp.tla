--------------------------------- MODULE Tcp ---------------------------------
(***************************************************************************)
(* The TCP object (src/objects/network/tcp.c), as operators on its         *)
(* InstanceData: the record `s` holds its variables, its poll task and its *)
(* connections, newest first.  It talks to its owner by callbacks, made in *)
(* the middle of a call; both owners (tcpport.c, tcpshim.c) only note what *)
(* they are told and come back later.  So an operator takes the owner's    *)
(* state along and answers with the set of outcomes the system calls       *)
(* allow, each a record [sock, own]: the object and its owner afterwards.  *)
(*                                                                         *)
(* The poll (Tcp_Poll) is taken connection by connection: s.stage says how *)
(* far it is, and nothing else runs before it is back at "rest".           *)
(*                                                                         *)
(* A unit is what one send message queues, named after the peer it is      *)
(* meant for; Anyone stands for a broadcast.  Three fields are history:    *)
(* `peer` tells peers apart, of whom `made` were met, `asked` lists what   *)
(* was queued for a connection and `got` what its peer was sent.           *)
(***************************************************************************)
EXTENDS Naturals, SequencesExt

CONSTANTS MaxConns,  \* TCP_MAX_CONNECTIONS_VAR
          MaxIds,    \* bound: connections ever made
          MaxAsked,  \* bound: units queued for one connection
          Block,     \* units in the largest block handed to send()
          Tell(_, _) \* what an owner, in some state, makes of a callback

TcpConstantsOK == {MaxConns, MaxIds, MaxAsked, Block} \subseteq Nat \ {0}

Anyone == 0

\* InstanceStart: a stopped server.
Fresh == [on |-> FALSE, mode |-> "server", secure |-> FALSE, ctx |-> FALSE,
          listen |-> FALSE, dial |-> FALSE, conns |-> <<>>, lastId |-> 0, made |-> 0,
          current |-> 0, count |-> 0, armed |-> 0, scheduled |-> FALSE,
          stage |-> "rest", pos |-> 1]

Quiet(s, own) == [sock |-> s, own |-> own]

\* Tcp_Callback: the connection it concerns becomes the current one.
Callback(r, kind, c) ==
    [sock |-> [r.sock EXCEPT !.current = c.id],
     own  |-> Tell(r.own, [kind |-> kind, id |-> c.id, peer |-> c.peer,
                           count |-> r.sock.count])]

\* Tcp_Error: told of no connection in particular.
Error(r) == Callback(r, "error", [id |-> r.sock.current, peer |-> Anyone])

-----------------------------------------------------------------------------
(* The verbs *)

\* Tcp_Variable: what the owner sets before a start; refused while started.
SetVars(s, mode, secure) ==
    IF s.on THEN s ELSE [s EXCEPT !.mode = mode, !.secure = secure]

\* Faulty variant: the poll is armed whether or not it is pending.
UpArmsAlways(s) ==
    [s EXCEPT !.on = TRUE, !.listen = (s.mode = "server"), !.dial = (s.mode = "client"),
              !.armed = @ + 1, !.scheduled = TRUE]

\* The end of Tcp_Start: the sockets are open and the poll is armed, unless
\* one from before a stop is still pending.
Up(s) ==
    [s EXCEPT !.on = TRUE, !.listen = (s.mode = "server"), !.dial = (s.mode = "client"),
              !.armed = IF s.scheduled THEN @ ELSE @ + 1, !.scheduled = TRUE]

\* Tcp_Start: TLS first if it was asked for, then the sockets; a start that
\* fails on the sockets keeps the context it made.
Start(s, own) ==
    LET t == [s EXCEPT !.ctx = @ \/ s.secure]
        noTls == IF s.secure THEN {s, [s EXCEPT !.ctx = FALSE]} ELSE {}
    IN  IF s.on THEN {Quiet(s, own)}
        ELSE {Quiet(Up(t), own)} \cup {Error(Quiet(u, own)) : u \in {t} \cup noTls}

\* Faulty variant: a stopped socket counts its connections from one again.
StopRestartsIds(s) ==
    IF ~s.on THEN s
    ELSE [s EXCEPT !.on = FALSE, !.listen = FALSE, !.dial = FALSE, !.ctx = FALSE,
                   !.conns = <<>>, !.count = 0, !.lastId = 0]

\* Tcp_Stop: everything is closed at once, and nobody is told.  A pending poll
\* is left to find out.
Stop(s) ==
    IF ~s.on THEN s
    ELSE [s EXCEPT !.on = FALSE, !.listen = FALSE, !.dial = FALSE, !.ctx = FALSE,
                   !.conns = <<>>, !.count = 0]

\* Tcp_SendData: to the current connection, or to every one when that is 0.
SendData(s, unit) ==
    LET queued(c) == [c EXCEPT !.buf = Append(@, unit), !.asked = Append(@, unit)]
        sent == [i \in DOMAIN s.conns |-> IF s.current \in {0, s.conns[i].id}
                                         THEN queued(s.conns[i]) ELSE s.conns[i]]
    IN  [s EXCEPT !.conns = sent]

\* Is there room, within the bound, for another unit?
Room(s) == \A i \in DOMAIN s.conns : Len(s.conns[i].asked) < MaxAsked

-----------------------------------------------------------------------------
(* The poll *)

NewConn(s) ==
    [id |-> s.lastId + 1, peer |-> s.made + 1, peerClosed |-> FALSE,
     tls |-> s.ctx, shaking |-> s.ctx, buf |-> <<>>, asked |-> <<>>, got |-> <<>>]

Joins(s, own, c) ==
    LET t == [s EXCEPT !.conns = <<c>> \o @, !.lastId = c.id, !.made = c.peer]
    IN  Callback(Quiet(t, own), "new", c)

\* The head of Tcp_Poll, and Tcp_ConnectPoll: a connect in flight has come
\* through, failed or neither.
PollStart(s, own) ==
    LET t  == [s EXCEPT !.armed = @ - 1, !.scheduled = FALSE]
        go == [t EXCEPT !.stage = IF s.listen THEN "accept" ELSE "serve"]
        no == [go EXCEPT !.dial = FALSE]
    IN  IF ~s.on THEN {Quiet(t, own)}
        ELSE IF ~s.dial THEN {Quiet(go, own)}
        ELSE {Quiet(go, own), Error(Quiet(no, own))}
             \cup (IF s.made < MaxIds THEN {Joins(no, own, NewConn(s))} ELSE {})

\* One turn of the accept loop, or its end.
AcceptOne(s, own) ==
    LET c == NewConn(s)
        t == [s EXCEPT !.count = @ + 1]
    IN  {Quiet([s EXCEPT !.stage = "serve"], own)}
        \cup IF s.count >= MaxConns THEN {Error(Quiet(s, own))}
             ELSE IF s.made = MaxIds THEN {}
             ELSE {Joins(t, own, d) : d \in IF ~c.tls THEN {c}
                                       ELSE {c, [c EXCEPT !.shaking = FALSE],
                                                  [c EXCEPT !.peerClosed = TRUE]}}

\* What recv can say of a connection: a peer that has closed says nothing
\* more, and neither does one whose handshake failed.
Hears(c) ==
    IF c.peerClosed THEN {"none", "eof", "error"} ELSE {"none", "data", "eof", "error"}

\* How many units of the first block send takes, or that it fails.
Takes(c) == 0 .. IF c.shaking THEN 0 ELSE IF Len(c.buf) < Block THEN Len(c.buf) ELSE Block

\* What send did not take goes back to the tail of the buffer.
Sent(c, n) ==
    [c EXCEPT !.got = @ \o SubSeq(c.buf, 1, n), !.buf = SubSeq(@, n + 1, Len(@))]

\* The connection at s.pos stays, as c, and the next one is looked at.
Keeps(s, c) == [s EXCEPT !.conns[s.pos] = c, !.pos = @ + 1]

\* Faulty variant: a connection that goes is not counted off.
DropsUncounted(r, c) ==
    LET told == Callback(r, "closed", c)
    IN  [told EXCEPT !.sock.conns = RemoveAt(@, r.sock.pos)]

\* It is closed and unlinked; the owner is told before it is counted off.
Drops(r, c) ==
    LET told == Callback(r, "closed", c)
        left == [told.sock EXCEPT !.conns = RemoveAt(@, r.sock.pos),
                                  !.count = IF @ > 0 THEN @ - 1 ELSE 0]
    IN  [told EXCEPT !.sock = left]

\* Read, then write: the owner hears what arrived, and an error closes at once.
\* A connection whose peer has closed goes when it has been sent everything.
Exchanged(s, own, c) ==
    UNION {LET d  == [c EXCEPT !.peerClosed = @ \/ h \in {"eof", "error"}]
               r  == IF h = "data" THEN Callback(Quiet(s, own), "data", c) ELSE Quiet(s, own)
               broken == {Drops(Error(r), d)}
           IN  IF h = "error" THEN broken
               ELSE {LET e == Sent(d, n) IN
                       IF e.peerClosed /\ e.buf = <<>> THEN Drops(r, e)
                       ELSE [r EXCEPT !.sock = Keeps(@, e)] : n \in Takes(d)}
                    \cup (IF d.buf # <<>> THEN broken ELSE {})
           : h \in Hears(c)}

\* One turn of the service loop.  While a handshake is under way nothing is
\* read or written; one that fails is a peer that has closed.
ServeOne(s, own) ==
    LET c == s.conns[s.pos]
    IN  IF ~c.shaking THEN Exchanged(s, own, c)
        ELSE (IF c.peerClosed THEN {} ELSE {Quiet(Keeps(s, c), own)})
             \cup Exchanged(s, own, [c EXCEPT !.shaking = FALSE])
             \cup Exchanged(s, own, [c EXCEPT !.peerClosed = TRUE])

\* The poll arms itself again.
PollEnd(s, own) ==
    LET t == [s EXCEPT !.stage = "rest", !.pos = 1, !.armed = @ + 1, !.scheduled = TRUE]
    IN  {Quiet(t, own)}

\* The next part of the poll of a socket whose task has fired.
Polled(s, own) ==
    CASE s.stage = "rest"   -> PollStart(s, own)
      [] s.stage = "accept" -> AcceptOne(s, own)
      [] s.stage = "serve"  -> IF s.pos <= Len(s.conns) THEN ServeOne(s, own) ELSE PollEnd(s, own)

Polls(s) == s.stage # "rest" \/ s.armed > 0

-----------------------------------------------------------------------------
(* Properties of the socket, of a state at rest *)

\* A started socket has its poll pending, once, and no socket has it pending
\* twice: a stop and a start within one tick neither lose nor double it
\* (tcp.c, Tcp_Start, Tcp_Poll, the `scheduled` flag).
Pending(s) == s.armed <= 1 /\ (s.on => s.armed = 1) /\ s.scheduled = (s.armed = 1)

\* The connections are counted for the limit, which is kept; a client counts
\* none (tcp.h, TCP_CONNECTION_COUNT_VAR).  A stopped socket has none.
Counted(s) ==
    /\ s.count = (IF s.mode = "server" THEN Len(s.conns) ELSE 0) /\ s.count <= MaxConns
    /\ s.conns # <<>> => s.on

\* With security on no connection goes without TLS, and before its handshake
\* is over nothing is sent on it (tcp.c, Tcp_Start, Tcp_SslContext).
Secured(s) ==
    s.on /\ s.secure => \A i \in DOMAIN s.conns :
        s.conns[i].tls /\ (s.conns[i].shaking => s.conns[i].got = <<>>)

\* Each peer is sent exactly what was queued for it, in order and with nothing
\* lost over short sends, and nothing meant for another peer (tcp.c,
\* Tcp_SendData, Tcp_Poll; ids are not used again after a stop).
Exact(s) ==
    \A i \in DOMAIN s.conns : LET c == s.conns[i] IN
        c.got \o c.buf = c.asked /\ ToSet(c.asked) \subseteq {Anyone, c.peer}
==============================================================================
