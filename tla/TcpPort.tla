------------------------------- MODULE TcpPort -------------------------------
(***************************************************************************)
(* The TCP Port panel (src/objects/tcpport/tcpport.c) in front of a TCP    *)
(* object of its own.  The Stream State line and the lamps are written     *)
(* together and are one value.  What is typed into the boxes, a host name, *)
(* data to send, is there or not; the Receive box is left out.             *)
(***************************************************************************)
EXTENDS Naturals, SequencesExt

CONSTANTS MaxConns, MaxIds, MaxAsked, Block

VARIABLES sock,   \* the TCP object
          panel   \* enabled, StreamState, SslEnable, AutoListen

vars == <<sock, panel>>

SetState(p, st) == [p EXCEPT !.state = st]

\* Faulty variant: a peer that goes away changes nothing.
OnSocketCallbackDeaf(p, m) ==
    CASE m.kind \in {"new", "data"} -> SetState(p, "connected")
      [] OTHER -> p

\* Everything the socket says: a peer or data light Connected, a peer that is
\* gone means back to listening, and an error ends an attempt.
OnSocketCallback(p, m) ==
    CASE m.kind \in {"new", "data"} -> SetState(p, "connected")
      [] m.kind = "closed" /\ p.enabled /\ p.state \notin {"disabled", "idling"} ->
           SetState(p, "listen")
      [] m.kind = "error" /\ p.state \in {"opening", "listen"} -> SetState(p, "idling")
      [] OTHER -> p

INSTANCE Tcp WITH Tell <- OnSocketCallback

\* InstanceStart: enabled, idling, plain, and a fresh socket.
Placed == [enabled |-> TRUE, state |-> "idling", ssl |-> FALSE, auto |-> FALSE]

Init == sock = Fresh /\ panel = Placed

TypeOK ==
    /\ panel \in [enabled : BOOLEAN, ssl : BOOLEAN, auto : BOOLEAN,
                  state : {"disabled", "idling", "listen", "opening", "connected"}]
    /\ sock.stage \in {"rest", "accept", "serve"} /\ sock.armed \in Nat

\* Nothing runs in the middle of a poll.
AtRest == sock.stage = "rest"

-----------------------------------------------------------------------------
(* The commands *)

UpAlready == panel.state \in {"listen", "connected"}

\* DoListen, on a panel in some state: the socket is set up as a server and
\* started.  Whatever the start said meanwhile, the panel then says LISTEN.
DoListen(p) ==
    \E r \in Start([SetVars(sock, "server", p.ssl) EXCEPT !.current = 0], p) :
        sock' = r.sock /\ panel' = SetState(r.own, "listen")

OnListen == AtRest /\ panel.enabled /\ ~UpAlready /\ DoListen(panel)

\* Open with a name in the Host Name box dials and says OPENING.
OnOpen(host) ==
    /\ AtRest /\ panel.enabled /\ ~UpAlready
    /\ IF host
       THEN \E r \in Start(SetVars(sock, "client", panel.ssl), panel) :
                sock' = r.sock /\ panel' = SetState(r.own, "opening")
       ELSE panel' = SetState(panel, "idling") /\ UNCHANGED sock

\* DoClose, on a panel that is enabled or just was not any more.
DoClose(enabled) ==
    /\ sock' = Stop(sock)
    /\ panel' = [panel EXCEPT !.enabled = enabled,
                              !.state = IF enabled THEN "idling" ELSE "disabled"]

OnClose == AtRest /\ DoClose(panel.enabled)

\* Disabling is a full stop; enabling shows IDLING, whatever the socket does.
OnEnable(value) ==
    /\ AtRest
    /\ \/ ~value /\ DoClose(FALSE)
       \/ value /\ panel' = [panel EXCEPT !.enabled = TRUE, !.state = "idling"] /\ UNCHANGED sock

\* Activate: settle the resting state and honour Auto Listen.
Activate ==
    /\ AtRest
    /\ \/ /\ ~panel.enabled /\ panel' = SetState(panel, "disabled") /\ UNCHANGED sock
       \/ /\ panel.enabled /\ ~panel.auto /\ panel' = SetState(panel, "idling")
          /\ UNCHANGED sock
       \/ panel.enabled /\ panel.auto /\ DoListen(SetState(panel, "idling"))

\* Send is pressed, or the Transmit box has changed with Auto Send on: what is
\* in the box goes to whoever was heard of last.
DoSend ==
    /\ AtRest /\ panel.enabled /\ panel.state = "connected" /\ Room(sock)
    /\ sock' = SendData(sock, Anyone) /\ UNCHANGED panel

\* The user works the check boxes; both are looked at later.
SetOption ==
    /\ AtRest /\ UNCHANGED sock
    /\ \/ panel' = [panel EXCEPT !.ssl = ~@]
       \/ panel' = [panel EXCEPT !.auto = ~@]

\* The panel is deleted with its socket, and another one placed.
Discard == AtRest /\ sock' = Fresh /\ panel' = Placed

Poll ==
    /\ Polls(sock)
    /\ \E r \in Polled(sock, panel) : sock' = r.sock /\ panel' = r.own

Next ==
    \/ OnListen \/ OnClose \/ Activate \/ DoSend \/ SetOption \/ Discard \/ Poll
    \/ \E v \in BOOLEAN : OnOpen(v) \/ OnEnable(v)

Spec == Init /\ [][Next]_vars

-----------------------------------------------------------------------------
(* Properties *)

\* "Status LEDs ... report the port's state" (tcpport/README.md): with the
\* Connected lamp lit there is a peer, and it is the one that Send will reach.
ConnectedReaches ==
    AtRest /\ panel.state = "connected" =>
        sock.on /\ \E i \in DOMAIN sock.conns : sock.conns[i].id = sock.current

\* "Unchecked: performs no operation and does not transmit or receive"
\* (tcpport/README.md): a disabled panel says so and its socket is stopped,
\* whatever was pending when it was disabled and whatever is pressed since.
DisabledIsSilent ==
    ~panel.enabled => panel.state = "disabled" /\ ~sock.on /\ sock.conns = <<>>
==============================================================================
