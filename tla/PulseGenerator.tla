---------------------------- MODULE PulseGenerator ---------------------------
(***************************************************************************)
(* One PulseGenerator (src/objects/pulsegenerator/pulsegenerator.c): a     *)
(* square wave on Out and NotOut, single shot or continuous.  `armed`      *)
(* counts the AddTaskMilli calls on its one task that have not fired.      *)
(*                                                                         *)
(* Nothing tells the handlers that a tick is still pending.  ReArm says    *)
(* whether a cycle may be started while one is (a retriggered start, or a  *)
(* start soon after a stop), and ReActivate whether the Activate port may  *)
(* be pressed after the panel was built.  Nobody presses Start or enables  *)
(* the generator before that.                                              *)
(***************************************************************************)
EXTENDS Integers

CONSTANTS ReArm, ReActivate,
          Periods, Duties,  \* what the user types into Period and DutyCycle
          MaxInt            \* the largest int of the build

ConstantsOK ==
    /\ ReArm \in BOOLEAN /\ ReActivate \in BOOLEAN
    /\ MaxInt \in Nat \ {0}
    /\ Periods \subseteq -MaxInt .. MaxInt /\ Periods # {}
    /\ Duties \subseteq -MaxInt .. MaxInt /\ Duties # {}

VARIABLES period, duty,            \* the properties Period and DutyCycle
          oneShot, retrig, auto,   \* OneShot, Retriggerable, AutoStart
          enabled, running, high,  \* InstanceData
          armed,
          phase,                   \* milliseconds from the last edge to the pending tick
          out, notOut, lit,        \* Out, NotOut and the Active light
          built                    \* the panel was built and activated

opts  == <<period, duty, oneShot, retrig, auto>>
lamps == <<out, notOut, lit>>
vars  == <<opts, enabled, running, high, armed, phase, lamps, built>>

TypeOK ==
    /\ period \in Periods /\ duty \in Duties
    /\ {oneShot, retrig, auto, enabled, running, high, lit, built} \subseteq BOOLEAN
    /\ armed \in {0, 1} /\ phase \in 0 .. MaxInt
    /\ out \in {0, 1} /\ notOut \in {0, 1}

Init ==
    /\ period \in Periods /\ duty \in Duties
    /\ oneShot = TRUE /\ retrig = FALSE /\ auto = FALSE
    /\ enabled = TRUE /\ running = FALSE /\ high = FALSE
    /\ armed = 0 /\ phase = 0
    /\ out = 0 /\ notOut = 1 /\ lit = FALSE /\ built = FALSE

-----------------------------------------------------------------------------
\* C int arithmetic of the product period * duty, which wraps.
Wrap(n) == ((n + MaxInt + 1) % (2 * (MaxInt + 1))) - (MaxInt + 1)

\* C division truncates towards zero.
Quot(a, b) == IF a < 0 THEN -((-a) \div b) ELSE a \div b

Clamp(n, lo, hi) == IF n < lo THEN lo ELSE IF n > hi THEN hi ELSE n

AtLeastOne(n) == IF n < 1 THEN 1 ELSE n

\* The two phase widths, read live at every phase.
Widths(p, d) ==
    LET per == IF p < 1 THEN 1000 ELSE p
        on  == AtLeastOne(Quot(Wrap(per * Clamp(d, 0, 100)), 100))
    IN  [on |-> on, off |-> AtLeastOne(per - on)]

Emit(level) == out' = level /\ notOut' = 1 - level

\* DoStart: begin a cycle on the rising edge.  The guards of the code's early
\* returns are DoStart's; Pending is the one the code does not have.
Pending == armed > 0
Starts  == enabled /\ (running => retrig)
DoStart(en) ==
    /\ ReArm \/ ~Pending
    /\ enabled' = en /\ running' = TRUE /\ high' = TRUE /\ lit' = TRUE
    /\ Emit(1)
    /\ armed' = armed + 1 /\ phase' = Widths(period, duty).on

\* DoStop: fall if the line is high; a pending tick is left to find out.
DoStop ==
    /\ IF high THEN Emit(0) ELSE UNCHANGED <<out, notOut>>
    /\ high' = FALSE /\ running' = FALSE /\ lit' = FALSE

OnStart ==
    /\ built /\ Starts /\ DoStart(enabled)
    /\ UNCHANGED <<opts, built>>

OnStop ==
    /\ DoStop
    /\ UNCHANGED <<opts, enabled, armed, phase, built>>

\* Disabling presses Stop; enabling honours AutoStart.
OnEnable(value) ==
    /\ value => built
    /\ \/ /\ ~value /\ enabled' = FALSE /\ DoStop /\ UNCHANGED <<armed, phase>>
       \/ /\ value /\ auto /\ (running => retrig) /\ DoStart(TRUE)
       \/ /\ value /\ ~(auto /\ (running => retrig)) /\ enabled' = TRUE
          /\ UNCHANGED <<running, high, armed, phase, lamps>>
    /\ UNCHANGED <<opts, built>>

\* The Activate hook: settle, then honour AutoStart.  Out is not written.
Activate ==
    /\ ~built \/ ReActivate
    /\ built' = TRUE
    /\ IF enabled /\ auto
       THEN DoStart(enabled)
       ELSE /\ high' = FALSE /\ running' = FALSE /\ lit' = FALSE /\ notOut' = 1
            /\ UNCHANGED <<enabled, armed, phase, out>>
    /\ UNCHANGED opts

\* A tick that finds the generator stopped or disabled.
TickIdle ==
    /\ armed > 0 /\ ~(running /\ enabled)
    /\ armed' = armed - 1
    /\ UNCHANGED <<opts, enabled, running, high, phase, lamps, built>>

\* Faulty variant: Single Shot is looked at only when the line rises.
TickFallRunsOn ==
    /\ armed > 0 /\ running /\ enabled /\ high
    /\ Emit(0) /\ high' = FALSE
    /\ phase' = Widths(period, duty).off
    /\ UNCHANGED <<opts, enabled, running, armed, lit, built>>

\* The high phase is over: a single shot halts here.
TickFall ==
    /\ armed > 0 /\ running /\ enabled /\ high
    /\ Emit(0) /\ high' = FALSE
    /\ running' = ~oneShot /\ lit' = (lit /\ ~oneShot)
    /\ armed' = armed - (IF oneShot THEN 1 ELSE 0)
    /\ phase' = IF oneShot THEN phase ELSE Widths(period, duty).off
    /\ UNCHANGED <<opts, enabled, built>>

\* Faulty variant: the rising edge does not arm the next phase.
TickRiseLost ==
    /\ armed > 0 /\ running /\ enabled /\ ~high
    /\ Emit(1) /\ high' = TRUE /\ armed' = armed - 1
    /\ UNCHANGED <<opts, enabled, running, phase, lit, built>>

\* The low phase is over: go high again.
TickRise ==
    /\ armed > 0 /\ running /\ enabled /\ ~high
    /\ Emit(1) /\ high' = TRUE
    /\ phase' = Widths(period, duty).on
    /\ UNCHANGED <<opts, enabled, running, armed, lit, built>>

PulseGen_Tick == TickIdle \/ TickFall \/ TickRise

\* The user works the panel's options; nothing handles these writes.
SetOption ==
    /\ \/ period' \in Periods /\ UNCHANGED <<duty, oneShot, retrig, auto>>
       \/ duty' \in Duties /\ UNCHANGED <<period, oneShot, retrig, auto>>
       \/ oneShot' = ~oneShot /\ UNCHANGED <<period, duty, retrig, auto>>
       \/ retrig' = ~retrig /\ UNCHANGED <<period, duty, oneShot, auto>>
       \/ auto' = ~auto /\ UNCHANGED <<period, duty, oneShot, retrig>>
    /\ UNCHANGED <<enabled, running, high, armed, phase, lamps, built>>

Next ==
    \/ OnStart \/ OnStop \/ Activate \/ PulseGen_Tick \/ SetOption
    \/ \E v \in BOOLEAN : OnEnable(v)

\* An armed task is run by a later tick of the main loop.
Fairness == WF_vars(PulseGen_Tick)

Spec == Init /\ [][Next]_vars /\ Fairness

-----------------------------------------------------------------------------
(* Properties *)

\* The tick task is in the scheduler's list at most once.
ArmedOnce == armed <= 1

\* A stopped generator leaves the line low, its inverse lit and Active dark;
\* a running one has Active lit and its line where `high` says.
RestIsLow ==
    /\ out = (IF high THEN 1 ELSE 0) /\ notOut = 1 - out
    /\ lit = running /\ (~running => out = 0)

\* No wake-up is lost: a running generator has its next tick pending.
RunningTicks == running => enabled /\ armed = 1

\* No phase has zero length, and where the product fits an int the two phases
\* fill the period to within the millisecond that is never taken away.
PhasesFill ==
    LET w == Widths(period, duty)
    IN  /\ w.on >= 1 /\ w.off >= 1
        /\ period >= 2 /\ period * Clamp(duty, 0, 100) <= MaxInt =>
               w.on + w.off \in {period, period + 1}
        /\ armed > 0 => phase >= 1

\* A single shot that is left alone comes to rest.
ShotEnds == <>[]oneShot => []<>(~running)
==============================================================================
