------------------------------- MODULE TcpShim -------------------------------
(***************************************************************************)
(* The old TCP class (src/objects/tcpshim/tcpshim.c) on a TCP object of    *)
(* its own: what arrives goes out with the connection's id as a tag, a     *)
(* peer that is gone is an end of content with its tag, and a message on   *)
(* In is sent to the connection its tag names.  The drivers downstream     *)
(* (HTTP, WebSocket, Router) answer whenever they like: `known` is what a  *)
(* reply can be tagged with, `open` the peers they have heard of and not   *)
(* yet seen end.                                                           *)
(***************************************************************************)
EXTENDS Naturals, SequencesExt

CONSTANTS MaxConns, MaxIds, MaxAsked, Block

VARIABLES sock,   \* the TCP object
          shim,   \* Enable, started, Connected, Secured
          open, known

vars == <<sock, shim, open, known>>

\* Faulty variant: only the last peer's end is passed on.
OnCallbackLast(v, m) ==
    CASE m.kind = "data"   -> [v EXCEPT !.open = @ \cup {m.id},
                                        !.known = @ \cup {[id |-> m.id, peer |-> m.peer]}]
      [] m.kind = "new"    -> [v EXCEPT !.shim.connected = TRUE]
      [] m.kind = "closed" -> IF m.count > 1 THEN v
                              ELSE [v EXCEPT !.open = @ \ {m.id}, !.shim.connected = @ /\ m.count # 0]
      [] m.kind = "error"  -> v

\* Everything the socket says, turned into the old events.
OnCallback(v, m) ==
    CASE m.kind = "data"   -> [v EXCEPT !.open = @ \cup {m.id},
                                        !.known = @ \cup {[id |-> m.id, peer |-> m.peer]}]
      [] m.kind = "new"    -> [v EXCEPT !.shim.connected = TRUE]
      [] m.kind = "closed" -> [v EXCEPT !.open = @ \ {m.id}, !.shim.connected = @ /\ m.count # 0]
      [] m.kind = "error"  -> v

INSTANCE Tcp WITH Tell <- OnCallback

\* InstanceStart
Placed == [enabled |-> TRUE, started |-> FALSE, connected |-> FALSE, secured |-> FALSE]

Init == sock = Fresh /\ shim = Placed /\ open = {} /\ known = {}

TypeOK ==
    /\ shim \in [enabled : BOOLEAN, started : BOOLEAN, connected : BOOLEAN, secured : BOOLEAN]
    /\ open \subseteq 1 .. MaxIds /\ known \subseteq [id : 1 .. MaxIds, peer : 1 .. MaxIds]

AtRest == sock.stage = "rest"

\* What a callback finds and changes.
Own == [shim |-> shim, open |-> open, known |-> known]

\* Activate: the socket is handed its setup and started.  Secure is only ever
\* switched on, and a start that failed counts as one.
Activate(mode, secure) ==
    /\ AtRest /\ shim.enabled /\ ~shim.started
    /\ \E r \in Start(SetVars(sock, mode, secure \/ sock.secure), Own) :
        /\ sock' = r.sock /\ open' = r.own.open /\ known' = r.own.known
        /\ shim' = [r.own.shim EXCEPT !.started = TRUE, !.secured = secure]

\* Enable: 0 is a full stop, and everyone downstream is told with one untagged
\* end of content.
OnEnable(value) ==
    /\ AtRest /\ UNCHANGED known
    /\ IF ~value /\ shim.started
       THEN /\ sock' = Stop(sock) /\ open' = {}
            /\ shim' = [shim EXCEPT !.enabled = FALSE, !.started = FALSE, !.connected = FALSE]
       ELSE shim' = [shim EXCEPT !.enabled = value] /\ UNCHANGED <<sock, open>>

\* In: a reply to a peer heard of once, or a message without a tag.
OnIn(to) ==
    /\ AtRest /\ Room(sock)
    /\ sock' = SendData([sock EXCEPT !.current = to.id], to.peer)
    /\ UNCHANGED <<shim, open, known>>

\* The shim is deleted with its socket, and another one placed.
Discard ==
    /\ AtRest
    /\ sock' = Fresh /\ shim' = Placed /\ open' = {} /\ known' = {}

Poll ==
    /\ Polls(sock)
    /\ \E r \in Polled(sock, Own) :
        /\ sock' = r.sock
        /\ shim' = r.own.shim /\ open' = r.own.open /\ known' = r.own.known

Next ==
    \/ Discard \/ Poll
    \/ \E secure \in BOOLEAN, mode \in {"server", "client"} : Activate(mode, secure)
    \/ \E value \in BOOLEAN : OnEnable(value)
    \/ \E to \in known \cup {[id |-> 0, peer |-> Anyone]} : OnIn(to)

Spec == Init /\ [][Next]_vars

-----------------------------------------------------------------------------
(* Properties *)

\* A peer the drivers downstream still hold open is one the socket has: each
\* that goes, by itself, by an error or because the shim was switched off, was
\* ended for them.  A peer that is there is shown (tcpshim.c, Shim_OnCallback,
\* Shim_OnEnable).
PeersTold ==
    AtRest => /\ open \subseteq {sock.conns[i].id : i \in DOMAIN sock.conns}
              /\ sock.conns # <<>> => shim.connected

\* While the Secured lamp is lit and the shim is started, its socket was
\* started secure.
SecuredTrue == shim.started /\ shim.secured => sock.secure
==============================================================================
