------------------------------- MODULE MCTimed -------------------------------
(***************************************************************************)
(* The objects that live on a scheduler task, for TLC: a Pulse, momentary  *)
(* buttons, a PulseGenerator, the clients of a model server, and a TCP     *)
(* object under its panel or under the old TCP class.  They share nothing, *)
(* so one of them is looked at in each behaviour and the others rest; `of` *)
(* says which.                                                             *)
(***************************************************************************)
EXTENDS Pulse, Integers

CONSTANTS Buttons, Hasty, ReArm, ReActivate, Periods, Duties, MaxInt, Kinds,
          MaxConns, MaxIds, MaxAsked, Block

VARIABLES of,
          bActive, bEnabled, down, repeats, heard, bArmed,
          period, duty, oneShot, retrig, auto, gEnabled, running, high,
          gArmed, phase, out, notOut, lit, gBuilt,
          kind, cPlaced, cBuilt, cEnabled, late, c,
          sock, panel, shim, open, known

Btn == INSTANCE MoButton WITH active <- bActive, enabled <- bEnabled, armed <- bArmed
Gen == INSTANCE PulseGenerator WITH enabled <- gEnabled, armed <- gArmed, built <- gBuilt
Client == INSTANCE PollClient WITH placed <- cPlaced, built <- cBuilt, enabled <- cEnabled
\* A panel sends one thing only: a second one would tell nothing more.
Port == INSTANCE TcpPort WITH MaxAsked <- 1
Shim == INSTANCE TcpShim

ASSUME TimedAssumption ==
    Btn!ConstantsOK /\ Gen!ConstantsOK /\ Client!ConstantsOK /\ Shim!TcpConstantsOK

bVars == <<bActive, bEnabled, down, repeats, heard, bArmed>>
gVars == <<period, duty, oneShot, retrig, auto, gEnabled, running, high, gArmed, phase,
           out, notOut, lit, gBuilt>>
cVars == <<kind, cPlaced, cBuilt, cEnabled, late, c>>
tVars == <<sock, panel, shim, open, known>>
MCVars == <<of, vars, bVars, gVars, cVars, tVars>>

MCInit ==
    /\ of \in {"pulse", "button", "generator", "client", "port", "shim"}
    /\ Init /\ Btn!Init /\ Gen!Init /\ Client!Init /\ Port!Init /\ Shim!Init
    /\ of = "generator" \/ (period = 2 /\ duty = 50)
    /\ of = "client" \/ kind = "ollama"

PulseStep  == of = "pulse" /\ Next /\ UNCHANGED <<of, bVars, gVars, cVars, tVars>>
ButtonStep == of = "button" /\ Btn!Next /\ UNCHANGED <<of, vars, gVars, cVars, tVars>>
GenStep    == of = "generator" /\ Gen!Next /\ UNCHANGED <<of, vars, bVars, cVars, tVars>>
ClientStep == of = "client" /\ Client!Next /\ UNCHANGED <<of, vars, bVars, gVars, tVars>>
PortStep   == of = "port" /\ Port!Next
              /\ UNCHANGED <<of, vars, bVars, gVars, cVars, shim, open, known>>
ShimStep   == of = "shim" /\ Shim!Next /\ UNCHANGED <<of, vars, bVars, gVars, cVars, panel>>

MCNext == PulseStep \/ ButtonStep \/ GenStep \/ ClientStep \/ PortStep \/ ShimStep

\* A resting object's tasks are not armed: its fairness asks for nothing.
MCSpec == MCInit /\ [][MCNext]_MCVars
          /\ Fairness /\ Btn!Fairness /\ Gen!Fairness /\ Client!Fairness

-----------------------------------------------------------------------------
(* The properties of the objects; a Pulse's are its module's own. *)

\* No sink of a momentary button stays latched on (mobutton.c).
ButtonNeverLatched == Btn!NeverLatched

\* A button's repeat dies out after the release (mobutton.c).
ButtonRepeatDies == Btn!RepeatDies

\* A stopped generator leaves line and lights at rest, a running one has its
\* next tick pending, and no phase is empty while the two fill the period
\* (pulsegenerator.c, PulseGen_Stop, PulseGen_Tick, PulseGen_Widths).
GenSound == Gen!RestIsLow /\ Gen!RunningTicks /\ Gen!PhasesFill

\* A single shot left alone comes to rest (pulsegenerator.c).
GenShotEnds == Gen!ShotEnds

\* What a client has under way is what its Status says, and it has a task armed
\* that will look at its deadline; a client that was unchecked has nothing under
\* way that could start again (comfyui.c, stablediffusion.c, ollama.c).
ClientTrue ==
    Client!UnderWayWakesUnlessTainted /\ Client!BusyIsTrue /\ Client!DisabledIsIdle

\* A client gives up by its deadline at the latest.
ClientGivesUp == Client!GivesUp

\* A started TCP object polls, and no two polls are ever pending (tcp.c).
SocketPolled == Shim!AtRest => Shim!Pending(sock)

\* A TCP object knows how many peers it has, and with security on none of them
\* goes without TLS, which is also what the old class's lamp says (tcp.c,
\* tcpshim.c).
PeersTrue == (Shim!AtRest => Shim!Counted(sock)) /\ Shim!Secured(sock) /\ Shim!SecuredTrue

\* Every peer gets exactly its own stream (tcp.c).
StreamsTrue == Shim!Exact(sock)

\* Of the panel's lamps, Connected and Disabled tell the truth about the socket
\* behind it.  LISTEN, OPENING and IDLING are not part of this: after a start that
\* fails they do not (tcpport.c:274, 381).
PanelTrue == Port!ConnectedReaches /\ Port!DisabledIsSilent

\* The drivers on the old class are told of every peer that goes (tcpshim.c).
PeersTold == of = "shim" => Shim!PeersTold

\* "arming an already-armed task inserts the same entry twice and corrupts the
\* scheduler's list" (udpport.c:144-149): no object arms a task that is armed,
\* or that it has given back to the scheduler.
TasksArmedOnce ==
    Gen!ArmedOnce /\ (\A b \in Buttons : bArmed[b] <= 1) /\ ~c.tainted
==============================================================================
