----------------------------- MODULE TimedProofs -----------------------------
(***************************************************************************)
(* The objects that live on a scheduler task: a Pulse, momentary buttons,  *)
(* the PulseGenerator, the clients of a model server, and the TCP object   *)
(* under its panel and under the old TCP class (what it does under any     *)
(* owner is in TcpProofs).  Each has an inductive invariant of its own,    *)
(* which the steps of the others leave alone, so what is proved of an      *)
(* object holds of it alone and of the composition that the run looks at.  *)
(***************************************************************************)
EXTENDS MCTimed, TLAPS

-----------------------------------------------------------------------------
(* Pulse keeps one tick armed and never stops mid-pulse, for every bound   *)
(* on Count and whatever kinds of message reach its Enable port.           *)

\* The line is high exactly between the two edges of a running train: what
\* makes the observer's "broken" unreachable.
EdgeAgrees == placed => (sink = "high" <=> active /\ next = 0)

\* TypeOK in parts, one for each kind of reasoning the provers are good at.
PulseFlags ==
    /\ placed \in BOOLEAN /\ active \in BOOLEAN /\ enabled \in BOOLEAN
    /\ scheduled \in BOOLEAN

\* The sink's count of pulses is the object's.
PulseNumbers ==
    /\ count \in 0 .. MaxCount /\ sent \in 0 .. MaxCount /\ got \in 0 .. MaxCount
    /\ got = sent

PulseWords ==
    /\ next \in {0, 1} /\ armed \in {0, 1}
    /\ state \in {"Starting", "Running", "Stopping"}
    /\ sink \in {"quiet", "high", "low", "ended", "broken"}

PulseSafe == FlagIsTruth /\ TrainTicks /\ NeverMidPulse /\ EdgeAgrees

PulseInv == PulseFlags /\ PulseNumbers /\ PulseWords /\ PulseSafe

\* Before anything is placed no tick is armed and the sink has heard nothing.
LEMMA PulseInit == Init => PulseInv
<1> SUFFICES ASSUME Init PROVE PulseInv
  OBVIOUS
<1>1. PulseFlags
  BY DEF Init, PulseFlags
<1>2. PulseNumbers /\ PulseWords
  BY PulseAssumption DEF PulseAssumption, Init, PulseNumbers, PulseWords
<1>3. PulseSafe
  BY DEF Init, PulseSafe, FlagIsTruth, TrainTicks, NeverMidPulse, EdgeAgrees
<1> QED
  BY <1>1, <1>2, <1>3 DEF PulseInv

\* Placing an instance and deleting it, with its task.
LEMMA PulseLife ==
    ASSUME PulseInv, InstanceStart \/ InstanceEnd
    PROVE  PulseInv'
<1> USE DEF InstanceStart, InstanceEnd, obs, PulseInv
<1>1. PulseFlags'
  BY DEF PulseFlags
<1>2. PulseNumbers' /\ PulseWords'
  BY PulseAssumption DEF PulseAssumption, PulseNumbers, PulseWords
<1>3. PulseSafe'
  BY DEF PulseWords, PulseFlags, PulseSafe, FlagIsTruth, TrainTicks, NeverMidPulse, EdgeAgrees
<1> QED
  BY <1>1, <1>2, <1>3

\* Activation finds no tick pending, since the train is over, and arms one.
LEMMA PulseActivate ==
    ASSUME PulseInv, Activate
    PROVE  PulseInv'
<1> USE DEF Activate, AddTaskMilli, PulseInv
<1>1. PulseFlags'
  BY DEF PulseFlags
<1>2. PulseNumbers'
  BY PulseAssumption DEF PulseAssumption, PulseNumbers
<1>3. PulseWords'
  BY DEF PulseWords, PulseSafe, TrainTicks
<1>4. PulseSafe'
  BY DEF PulseWords, PulseFlags, PulseSafe, FlagIsTruth, TrainTicks, NeverMidPulse, EdgeAgrees
<1> QED
  BY <1>1, <1>2, <1>3, <1>4

\* The tick of a paused train takes its entry away and says so.
LEMMA PulseHold ==
    ASSUME PulseInv, Hold
    PROVE  PulseInv'
<1> USE DEF Hold, obs, PulseInv
<1>1. PulseFlags'
  BY DEF PulseFlags
<1>2. PulseNumbers'
  BY DEF PulseNumbers
<1>3. PulseWords'
  BY DEF PulseWords
<1>4. PulseSafe'
  BY DEF PulseWords, PulseFlags, PulseSafe, FlagIsTruth, TrainTicks, NeverMidPulse, EdgeAgrees
<1> QED
  BY <1>1, <1>2, <1>3, <1>4

\* The rising edge: the line was not high, and the tick is armed again.
LEMMA PulseTickUp ==
    ASSUME PulseInv, TickUp
    PROVE  PulseInv'
<1> USE DEF TickUp, PulseInv
<1>1. armed = 1 /\ armed' = 1 /\ sink' = "high"
  BY DEF PulseWords, PulseSafe, EdgeAgrees, Rise
<1>2. PulseFlags'
  BY DEF PulseFlags
<1>3. PulseNumbers'
  BY DEF PulseNumbers
<1>4. PulseWords'
  BY <1>1 DEF PulseWords
<1>5. PulseSafe'
  BY <1>1 DEF PulseWords, PulseFlags, PulseSafe, FlagIsTruth, TrainTicks, NeverMidPulse, EdgeAgrees
<1> QED
  BY <1>2, <1>3, <1>4, <1>5

\* The falling edge: the line was high; the train goes on with a tick armed
\* or ends with none.
LEMMA PulseTickDown ==
    ASSUME PulseInv, TickDown
    PROVE  PulseInv'
<1> USE DEF TickDown, PulseInv
<1>1. armed = 1 /\ Fall(sink) = "low" /\ End(Fall(sink)) = "ended"
  BY DEF PulseWords, PulseSafe, EdgeAgrees, Fall, End
<1>2. PulseFlags'
  BY DEF PulseFlags
<1>3. PulseNumbers'
  BY PulseAssumption DEF PulseAssumption, Upto, PulseNumbers
<1>4. CASE Finished(sent + 1)
  <2>1. /\ sink' = "ended" /\ armed' = 0 /\ state' = "Stopping" /\ next' = 1
        /\ ~active' /\ ~scheduled' /\ placed' = placed
    BY <1>1, <1>4
  <2>2. PulseWords' /\ PulseSafe'
    BY <2>1 DEF PulseWords, PulseSafe, FlagIsTruth, TrainTicks, NeverMidPulse, EdgeAgrees
  <2> QED
    BY <1>2, <1>3, <2>2
<1>5. CASE ~Finished(sent + 1)
  <2>1. /\ sink' = "low" /\ armed' = 1 /\ state' = state /\ next' = 1
        /\ active' = active /\ scheduled' /\ placed' = placed /\ active /\ placed
    BY <1>1, <1>5
  <2>2. PulseWords' /\ PulseSafe'
    BY <2>1 DEF PulseWords, PulseSafe, FlagIsTruth, TrainTicks, NeverMidPulse, EdgeAgrees
  <2> QED
    BY <1>2, <1>3, <2>2
<1> QED
  BY <1>4, <1>5

\* Pausing leaves the pending tick alone; resuming arms one only if it is gone.
LEMMA PulseEnable ==
    ASSUME NEW m \in EnableMsgs, NEW v \in BOOLEAN, PulseInv, OnEnable(m, v)
    PROVE  PulseInv'
<1> USE DEF OnEnable, AddTaskMilli, obs, PulseInv
<1>1. PulseFlags'
  BY DEF PulseFlags
<1>2. PulseNumbers'
  BY DEF PulseNumbers
<1>3. PulseWords'
  BY DEF PulseWords, PulseFlags, PulseSafe, FlagIsTruth
<1>4. PulseSafe'
  BY DEF PulseWords, PulseFlags, PulseSafe, FlagIsTruth, TrainTicks, NeverMidPulse, EdgeAgrees
<1> QED
  BY <1>1, <1>2, <1>3, <1>4

\* Retuning Count touches nothing else.
LEMMA PulseSetCount ==
    ASSUME NEW n \in 0 .. MaxCount, PulseInv, SetCount(n)
    PROVE  PulseInv'
BY DEF SetCount, obs, PulseInv, PulseFlags, PulseNumbers, PulseWords,
       PulseSafe, FlagIsTruth, TrainTicks, NeverMidPulse, EdgeAgrees

\* Every step of a Pulse keeps the inductive invariant.
LEMMA PulseNext == PulseInv /\ [Next]_vars => PulseInv'
<1> SUFFICES ASSUME PulseInv, [Next]_vars PROVE PulseInv'
  OBVIOUS
<1>1. CASE UNCHANGED vars
  BY <1>1 DEF vars, PulseInv, PulseFlags, PulseNumbers, PulseWords,
              PulseSafe, FlagIsTruth, TrainTicks, NeverMidPulse, EdgeAgrees
<1>2. CASE Pulse_Tick
  BY <1>2, PulseHold, PulseTickUp, PulseTickDown DEF Pulse_Tick
<1> QED
  BY <1>1, <1>2, PulseLife, PulseActivate, PulseEnable, PulseSetCount DEF Next

\* PulseInv holds in every state of every behaviour of a Pulse.
THEOREM PulseInductive == Spec => []PulseInv
BY PulseInit, PulseNext, PTL DEF Spec

\* Types: among them, that the tick task never has two entries.
THEOREM PulseTyped == Spec => []TypeOK
<1>1. PulseInv => TypeOK
  BY DEF PulseInv, PulseFlags, PulseNumbers, PulseWords, TypeOK
<1> QED
  BY <1>1, PulseInductive, PTL

\* pulseobj.c's `scheduled` flag tells the truth, whatever order pauses, ticks
\* and activations take.
THEOREM FlagCorrect == Spec => []FlagIsTruth
<1>1. PulseInv => FlagIsTruth
  BY DEF PulseInv, PulseSafe
<1> QED
  BY <1>1, PulseInductive, PTL

\* Pulse_Tick and Pulse_OnEnable between them lose no wake-up.
THEOREM TicksKept == Spec => []TrainTicks
<1>1. PulseInv => TrainTicks
  BY DEF PulseInv, PulseSafe
<1> QED
  BY <1>1, PulseInductive, PTL

\* Pulse_Tick's promise that the falling edge is always sent before the train
\* may end.
THEOREM NoBrokenPulse == Spec => []NeverMidPulse
<1>1. PulseInv => NeverMidPulse
  BY DEF PulseInv, PulseSafe
<1> QED
  BY <1>1, PulseInductive, PTL

\* One step of a Pulse ends a train only at the Count of that moment.
LEMMA PulseEnds ==
    ASSUME PulseInv, [Next]_vars, placed', placed, active, ~active'
    PROVE  got' >= count /\ sink' = "ended"
<1>1. CASE TickDown /\ Finished(sent + 1)
  <2>1. got' >= count
    BY <1>1, PulseAssumption DEF PulseAssumption, TickDown, Finished, Upto, PulseInv, PulseNumbers
  <2>2. sink' = "ended"
    BY <1>1 DEF TickDown, Fall, End, PulseInv, PulseSafe, EdgeAgrees
  <2> QED
    BY <2>1, <2>2
<1>2. CASE TickDown /\ ~Finished(sent + 1)
  BY <1>2 DEF TickDown
<1>3. ~(InstanceStart \/ InstanceEnd \/ Activate \/ Hold \/ TickUp)
  BY DEF InstanceStart, InstanceEnd, Activate, Hold, TickUp
<1>4. ASSUME NEW m \in EnableMsgs, NEW v \in BOOLEAN PROVE ~OnEnable(m, v)
  BY DEF OnEnable
<1>5. ASSUME NEW n \in 0 .. MaxCount PROVE ~SetCount(n)
  BY DEF SetCount
<1>6. vars' # vars
  BY DEF vars
<1> QED
  BY <1>1, <1>2, <1>3, <1>4, <1>5, <1>6 DEF Next, Pulse_Tick

\* Count is read live by Pulse_Tick: lowered or raised while the train runs,
\* the train still ends with at least that many pulses at the sink.
THEOREM EndsCorrect == Spec => EndsAtCount
<1>1. PulseInv /\ [Next]_vars
      => [placed' /\ active /\ ~active' /\ placed => got' >= count /\ sink' = "ended"]_vars
  BY PulseEnds
<1> QED
  BY <1>1, PulseInductive, PTL DEF Spec, EndsAtCount

-----------------------------------------------------------------------------
(* Momentary buttons, for any number of buttons, and also for hasty hands: *)
(* a repeat task that is armed twice damages the scheduler, but it never   *)
(* sends an edge of its own.                                               *)

\* What the handlers read and write; how often a task is armed is left open.
BtnShape ==
    /\ bEnabled \in [Buttons -> BOOLEAN] /\ down \in [Buttons -> BOOLEAN]
    /\ heard \in [Buttons -> {0, 1}]

\* A button that was disabled was let go of, which is what makes the guard of
\* OnPress against a disabled button safe.
DisabledIsUp == \A b \in Buttons : down[b] => bEnabled[b]

\* The inductive invariant of the buttons.
BtnInv == BtnShape /\ DisabledIsUp /\ Btn!NeverLatched

\* A new button (InstanceStart) is up, and its sink knows of no press.
LEMMA BtnInit == Btn!Init => BtnInv
BY DEF Btn!Init, BtnInv, BtnShape, DisabledIsUp, Btn!NeverLatched

\* A repeat that fires sends the press again only to a sink that heard it.
LEMMA BtnRepeat ==
    ASSUME BtnInv, NEW b \in Buttons, Btn!Repeat(b)
    PROVE  BtnInv'
<1> USE DEF Btn!Repeat, BtnInv
<1>1. BtnShape'
  BY DEF BtnShape
<1>2. DisabledIsUp'
  BY DEF DisabledIsUp
<1>3. Btn!NeverLatched'
  BY DEF BtnShape, Btn!NeverLatched
<1> QED
  BY <1>1, <1>2, <1>3

\* An edge of an enabled button is heard as it is.
LEMMA BtnPress ==
    ASSUME BtnInv, NEW b \in Buttons, NEW v \in BOOLEAN, Btn!OnPress(b, v)
    PROVE  BtnInv'
<1> USE DEF Btn!OnPress, BtnInv
<1>1. BtnShape'
  BY DEF BtnShape
<1>2. DisabledIsUp'
  BY DEF BtnShape, DisabledIsUp
<1>3. Btn!NeverLatched'
  BY DEF BtnShape, Btn!NeverLatched
<1> QED
  BY <1>1, <1>2, <1>3

\* A button disabled while held lets go; enabling one finds it up.
LEMMA BtnEnable ==
    ASSUME BtnInv, NEW b \in Buttons, NEW v \in BOOLEAN, Btn!OnEnable(b, v)
    PROVE  BtnInv'
<1> USE DEF Btn!OnEnable, BtnInv
<1>1. BtnShape'
  BY DEF BtnShape
<1>2. DisabledIsUp'
  BY DEF BtnShape, DisabledIsUp
<1>3. Btn!NeverLatched'
  BY DEF BtnShape, DisabledIsUp, Btn!NeverLatched
<1> QED
  BY <1>1, <1>2, <1>3

\* Every handler and the task keep the invariant of the buttons.
LEMMA BtnNext == BtnInv /\ [Btn!Next]_(Btn!vars) => BtnInv'
<1> SUFFICES ASSUME BtnInv, [Btn!Next]_(Btn!vars) PROVE BtnInv'
  OBVIOUS
<1>1. ASSUME NEW b \in Buttons, Btn!Repeat(b) PROVE BtnInv'
  BY <1>1, BtnRepeat
<1>2. ASSUME NEW b \in Buttons, NEW v \in BOOLEAN, Btn!OnPress(b, v) PROVE BtnInv'
  BY <1>2, BtnPress
<1>3. ASSUME NEW b \in Buttons, NEW v \in BOOLEAN, Btn!OnEnable(b, v) PROVE BtnInv'
  BY <1>3, BtnEnable
<1>4. ASSUME NEW b \in Buttons, Btn!Activate(b) \/ Btn!SetInterval(b) PROVE BtnInv'
  BY <1>4 DEF Btn!Activate, Btn!SetInterval, BtnInv, BtnShape, DisabledIsUp, Btn!NeverLatched
<1>5. CASE UNCHANGED Btn!vars
  BY <1>5 DEF Btn!vars, BtnInv, BtnShape, DisabledIsUp, Btn!NeverLatched
<1> QED
  BY <1>1, <1>2, <1>3, <1>4, <1>5 DEF Btn!Next

\* Whatever is pending when a button is released or disabled, the last thing
\* its sink heard is the release (mobutton.c, MoButton_OnPress,
\* MoButton_OnEnable, MoButton_Repeat).
THEOREM NeverLatchedThm == Btn!Spec => []ButtonNeverLatched
<1>1. BtnInv => ButtonNeverLatched
  BY DEF BtnInv, ButtonNeverLatched
<1> QED
  BY <1>1, BtnInit, BtnNext, PTL DEF Btn!Spec

\* The same of the buttons among the other objects.
THEOREM ButtonsRelease == MCSpec => []ButtonNeverLatched
<1>1. MCInit => Btn!Init
  BY DEF MCInit
<1>2. [MCNext]_MCVars => [Btn!Next]_(Btn!vars)
  BY DEF MCNext, PulseStep, ButtonStep, GenStep, ClientStep, PortStep, ShimStep, MCVars, bVars, Btn!vars
<1>3. BtnInv => ButtonNeverLatched
  BY DEF BtnInv, ButtonNeverLatched
<1> QED
  BY <1>1, <1>2, <1>3, BtnInit, BtnNext, PTL DEF MCSpec

-----------------------------------------------------------------------------
(* The PulseGenerator, for all periods and duties and every width of an    *)
(* int, for clients that activate it once and start no cycle while a tick  *)
(* is pending.                                                             *)

\* The object's flags and the panel's lights.
GenFlags ==
    /\ gEnabled \in BOOLEAN /\ running \in BOOLEAN /\ high \in BOOLEAN
    /\ lit \in BOOLEAN /\ gBuilt \in BOOLEAN /\ oneShot \in BOOLEAN

\* At most one tick pending, and a line that is low or high.
GenLevels == gArmed \in {0, 1} /\ out \in {0, 1} /\ notOut \in {0, 1}

\* Only a running generator is high, and none runs before its panel is built:
\* what Activate relies on when it settles everything but Out.
GenQuiet == (high => running) /\ (running => gBuilt)

\* RestIsLow in its two parts, the line and the light.
LineTrue == out = (IF high THEN 1 ELSE 0) /\ notOut = 1 - out /\ (~running => out = 0)
LitTrue  == lit = running

\* The invariant the run checks is those two.
LEMMA RestParts == Gen!RestIsLow <=> LineTrue /\ LitTrue
BY DEF Gen!RestIsLow, LineTrue, LitTrue

\* The inductive invariant.
GenInv == GenFlags /\ GenLevels /\ GenQuiet /\ LineTrue /\ LitTrue /\ Gen!RunningTicks

\* A new generator is at rest: nothing pending, the line low.
LEMMA GenInit == Gen!Init => GenInv
<1> SUFFICES ASSUME Gen!Init PROVE GenInv
  OBVIOUS
<1>1. GenFlags /\ GenQuiet
  BY DEF Gen!Init, GenFlags, GenQuiet
<1>2. GenLevels /\ LineTrue /\ Gen!RunningTicks
  BY DEF Gen!Init, GenLevels, LineTrue, Gen!RunningTicks
<1>3. LitTrue
  BY DEF Gen!Init, LitTrue
<1> QED
  BY <1>1, <1>2, <1>3 DEF GenInv

\* A cycle begins with nothing pending: the tick it arms is the only one.
LEMMA GenStart ==
    ASSUME GenInv, ReArm = FALSE, NEW en, en = TRUE, Gen!DoStart(en), gBuilt' = TRUE,
           oneShot' = oneShot
    PROVE  GenInv'
<1> USE DEF Gen!DoStart, Gen!Pending, Gen!Emit, GenInv
<1>1. GenFlags'
  BY DEF GenFlags
<1>2. GenLevels'
  BY DEF GenLevels
<1>3. GenQuiet'
  BY DEF GenFlags, GenQuiet
<1>4. LineTrue'
  BY DEF GenFlags, GenLevels, GenQuiet, LineTrue
<1>5. LitTrue'
  BY DEF GenFlags, LitTrue
<1>6. Gen!RunningTicks'
  BY DEF GenLevels, Gen!RunningTicks
<1> QED
  BY <1>1, <1>2, <1>3, <1>4, <1>5, <1>6

\* A stop takes the line down and leaves the tick pending.
LEMMA GenStop ==
    ASSUME GenInv, Gen!DoStop, gEnabled' \in BOOLEAN, gArmed' = gArmed, gBuilt' = gBuilt,
           oneShot' = oneShot
    PROVE  GenInv'
<1> USE DEF Gen!DoStop, Gen!Emit, GenInv
<1>1. GenFlags'
  BY DEF GenFlags
<1>2. GenLevels'
  BY DEF GenLevels
<1>3. GenQuiet'
  BY DEF GenFlags, GenQuiet
<1>4. LineTrue'
  BY DEF GenFlags, GenLevels, GenQuiet, LineTrue
<1>5. LitTrue'
  BY DEF GenFlags, LitTrue
<1>6. Gen!RunningTicks'
  BY DEF GenLevels, Gen!RunningTicks
<1> QED
  BY <1>1, <1>2, <1>3, <1>4, <1>5, <1>6

\* A tick that finds the generator stopped takes its entry away.
LEMMA GenTickIdle ==
    ASSUME GenInv, Gen!TickIdle
    PROVE  GenInv'
<1> USE DEF Gen!TickIdle, Gen!opts, Gen!lamps, GenInv
<1>1. GenFlags'
  BY DEF GenFlags
<1>2. GenLevels'
  BY DEF GenLevels
<1>3. GenQuiet'
  BY DEF GenFlags, GenQuiet
<1>4. LineTrue'
  BY DEF GenFlags, GenLevels, GenQuiet, LineTrue
<1>5. LitTrue'
  BY DEF GenFlags, LitTrue
<1>6. Gen!RunningTicks'
  BY DEF GenLevels, Gen!RunningTicks
<1> QED
  BY <1>1, <1>2, <1>3, <1>4, <1>5, <1>6

\* The falling edge of a single shot arms nothing, any other the next phase.
LEMMA GenTickFall ==
    ASSUME GenInv, Gen!TickFall
    PROVE  GenInv'
<1> USE DEF Gen!TickFall, Gen!Emit, Gen!opts, GenInv
<1>1. GenFlags'
  BY DEF GenFlags
<1>2. GenLevels'
  BY DEF GenLevels, Gen!RunningTicks
<1>3. GenQuiet'
  BY DEF GenFlags, GenQuiet
<1>4. LineTrue'
  BY DEF GenFlags, GenLevels, GenQuiet, LineTrue
<1>5. LitTrue'
  BY DEF GenFlags, LitTrue
<1>6. Gen!RunningTicks'
  <2>1. CASE oneShot
    BY <2>1 DEF Gen!RunningTicks
  <2>2. CASE ~oneShot
    <3>1. gArmed' = gArmed /\ gArmed = 1 /\ gEnabled' = gEnabled /\ gEnabled
      BY <2>2 DEF GenLevels, Gen!RunningTicks
    <3> QED
      BY <3>1 DEF Gen!RunningTicks
  <2> QED
    BY <2>1, <2>2
<1> QED
  BY <1>1, <1>2, <1>3, <1>4, <1>5, <1>6

\* The rising edge arms the next phase.
LEMMA GenTickRise ==
    ASSUME GenInv, Gen!TickRise
    PROVE  GenInv'
<1> USE DEF Gen!TickRise, Gen!Emit, Gen!opts, GenInv
<1>1. GenFlags'
  BY DEF GenFlags
<1>2. GenLevels'
  BY DEF GenLevels
<1>3. GenQuiet'
  BY DEF GenFlags, GenQuiet
<1>4. LineTrue'
  BY DEF GenFlags, GenLevels, GenQuiet, LineTrue
<1>5. LitTrue'
  BY DEF GenFlags, LitTrue
<1>6. Gen!RunningTicks'
  BY DEF GenLevels, Gen!RunningTicks
<1> QED
  BY <1>1, <1>2, <1>3, <1>4, <1>5, <1>6

\* The one activation finds the generator at rest.
LEMMA GenActivate ==
    ASSUME GenInv, ReArm = FALSE, ReActivate = FALSE, Gen!Activate
    PROVE  GenInv'
<1>1. CASE gEnabled /\ auto
  BY <1>1, GenStart DEF Gen!Activate, Gen!opts, GenInv, GenFlags
<1>2. CASE ~(gEnabled /\ auto)
  <2> USE <1>2 DEF Gen!Activate, Gen!opts, GenInv
  <2>0. ~running /\ ~high /\ out = 0
    BY DEF GenFlags, GenQuiet, LineTrue
  <2>1. GenFlags'
    BY DEF GenFlags
  <2>2. GenLevels'
    BY DEF GenLevels
  <2>3. GenQuiet'
    BY DEF GenFlags, GenQuiet
  <2>4. LineTrue'
    BY <2>0 DEF GenLevels, LineTrue
  <2>5. LitTrue'
    BY DEF GenFlags, LitTrue
  <2>6. Gen!RunningTicks'
    BY DEF GenLevels, Gen!RunningTicks
  <2> QED
    BY <2>1, <2>2, <2>3, <2>4, <2>5, <2>6
<1> QED
  BY <1>1, <1>2

\* Enabling may start a cycle, disabling stops one.
LEMMA GenEnable ==
    ASSUME GenInv, ReArm = FALSE, NEW v \in BOOLEAN, Gen!OnEnable(v)
    PROVE  GenInv'
<1>1. CASE ~v
  <2>1. Gen!DoStop /\ gEnabled' \in BOOLEAN /\ gArmed' = gArmed /\ gBuilt' = gBuilt
        /\ oneShot' = oneShot
    BY <1>1 DEF Gen!OnEnable, Gen!opts
  <2> QED
    BY <2>1, GenStop
<1>2. CASE v /\ auto /\ (running => retrig)
  <2>1. Gen!DoStart(TRUE) /\ gBuilt' = TRUE /\ oneShot' = oneShot
    BY <1>2 DEF Gen!OnEnable, Gen!opts, GenInv, GenFlags
  <2> QED
    BY <2>1, GenStart
<1>3. CASE v /\ ~(auto /\ (running => retrig))
  <2>1. /\ gEnabled' = TRUE
        /\ UNCHANGED <<running, high, gArmed, out, notOut, lit, gBuilt, oneShot>>
    BY <1>3 DEF Gen!OnEnable, Gen!opts, Gen!lamps
  <2>2. GenFlags' /\ GenLevels' /\ GenQuiet'
    BY <2>1 DEF GenInv, GenFlags, GenLevels, GenQuiet
  <2>3. LineTrue' /\ LitTrue'
    BY <2>1 DEF GenInv, LineTrue, LitTrue
  <2>4. Gen!RunningTicks'
    BY <2>1 DEF GenInv, Gen!RunningTicks
  <2> QED
    BY <2>2, <2>3, <2>4 DEF GenInv
<1> QED
  BY <1>1, <1>2, <1>3

\* Every handler and the tick keep the invariant of the generator.
LEMMA GenNext ==
    ASSUME ReArm = FALSE, ReActivate = FALSE
    PROVE  GenInv /\ [Gen!Next]_(Gen!vars) => GenInv'
<1> SUFFICES ASSUME GenInv, [Gen!Next]_(Gen!vars) PROVE GenInv'
  OBVIOUS
<1>1. CASE Gen!OnStart
  <2>1. gEnabled = TRUE /\ Gen!DoStart(gEnabled) /\ gBuilt' = TRUE /\ oneShot' = oneShot
    BY <1>1 DEF Gen!OnStart, Gen!Starts, Gen!opts, GenInv, GenFlags
  <2> QED
    BY <2>1, GenStart
<1>2. CASE Gen!OnStop
  <2>1. Gen!DoStop /\ gEnabled' \in BOOLEAN /\ gArmed' = gArmed /\ gBuilt' = gBuilt
        /\ oneShot' = oneShot
    BY <1>2 DEF Gen!OnStop, Gen!opts, GenInv, GenFlags
  <2> QED
    BY <2>1, GenStop
<1>3. CASE Gen!Activate
  BY <1>3, GenActivate
<1>4. CASE Gen!PulseGen_Tick
  BY <1>4, GenTickIdle, GenTickFall, GenTickRise DEF Gen!PulseGen_Tick
<1>5. CASE Gen!SetOption
  <2> USE <1>5 DEF Gen!SetOption, Gen!lamps, GenInv
  <2>1. GenFlags'
    BY DEF GenFlags
  <2>2. GenLevels'
    BY DEF GenLevels
  <2>3. GenQuiet'
    BY DEF GenFlags, GenQuiet
  <2>4. LineTrue'
    BY DEF GenFlags, GenLevels, GenQuiet, LineTrue
  <2>5. LitTrue'
    BY DEF GenFlags, LitTrue
  <2>6. Gen!RunningTicks'
    BY DEF GenLevels, Gen!RunningTicks
  <2> QED
    BY <2>1, <2>2, <2>3, <2>4, <2>5, <2>6
<1>6. ASSUME NEW v \in BOOLEAN, Gen!OnEnable(v) PROVE GenInv'
  BY <1>6, GenEnable
<1>7. CASE UNCHANGED Gen!vars
  BY <1>7 DEF Gen!vars, Gen!opts, Gen!lamps, GenInv, GenFlags, GenLevels, GenQuiet, LineTrue, LitTrue, Gen!RunningTicks
<1> QED
  BY <1>1, <1>2, <1>3, <1>4, <1>5, <1>6, <1>7 DEF Gen!Next

\* A number below the modulus is its own remainder.
LEMMA ModIs == ASSUME NEW a \in Nat, NEW b \in Nat, a < b PROVE a % b = a
OBVIOUS

\* A remainder is a number.
LEMMA ModInt == ASSUME NEW a \in Int, NEW b \in Nat \ {0} PROVE a % b \in Int
OBVIOUS

\* A product that fits an int is not wrapped.
LEMMA WrapFits ==
    ASSUME NEW n \in 0 .. MaxInt
    PROVE  Gen!Wrap(n) = n
<1>1. MaxInt \in Nat \ {0}
  BY TimedAssumption DEF Gen!ConstantsOK
<1> DEFINE a == n + MaxInt + 1
           b == 2 * (MaxInt + 1)
<1>2. a \in Nat /\ b \in Nat /\ a < b
  BY <1>1
<1>3. a % b = a
  <2> HIDE DEF a, b
  <2> QED
    BY <1>2, ModIs
<1>4. a - (MaxInt + 1) = n
  BY <1>1
<1> QED
  BY <1>3, <1>4 DEF Gen!Wrap

\* C int arithmetic stays in the integers.
LEMMA WrapInt ==
    ASSUME NEW n \in Int
    PROVE  Gen!Wrap(n) \in Int
<1>1. MaxInt \in Nat \ {0}
  BY TimedAssumption DEF Gen!ConstantsOK
<1> DEFINE a == n + MaxInt + 1
           b == 2 * (MaxInt + 1)
<1>2. a \in Int /\ b \in Nat \ {0}
  BY <1>1
<1>3. a % b \in Int
  <2> HIDE DEF a, b
  <2> QED
    BY <1>2, ModInt
<1> DEFINE m == a % b
<1>4. Gen!Wrap(n) = m - (MaxInt + 1)
  BY DEF Gen!Wrap
<1> HIDE DEF m
<1> QED
  BY <1>1, <1>3, <1>4 DEF m

\* So does the truncating division of PulseGen_Widths.
LEMMA QuotInt ==
    ASSUME NEW n \in Int
    PROVE  Gen!Quot(n, 100) \in Int
BY DEF Gen!Quot

\* Whatever is typed into Period and DutyCycle, no phase is empty, and where the
\* product fits an int the two fill the period to within a millisecond.
LEMMA WidthsOK ==
    ASSUME NEW p \in Int, NEW d \in Int
    PROVE  LET w == Gen!Widths(p, d)
           IN  /\ w.on \in Int /\ w.off \in Int /\ w.on >= 1 /\ w.off >= 1
               /\ p >= 2 /\ p * Gen!Clamp(d, 0, 100) <= MaxInt => w.on + w.off \in {p, p + 1}
<1> DEFINE per == IF p < 1 THEN 1000 ELSE p
           k   == Gen!Clamp(d, 0, 100)
           x   == per * k
           q   == Gen!Quot(Gen!Wrap(x), 100)
           on  == Gen!AtLeastOne(q)
           off == Gen!AtLeastOne(per - on)
<1>1. per \in Nat /\ per >= 1 /\ k \in 0 .. 100
  BY DEF Gen!Clamp
<1>2. Gen!Widths(p, d).on = on /\ Gen!Widths(p, d).off = off
  BY DEF Gen!Widths
<1>3. x \in Int
  <2> HIDE DEF per, k
  <2> QED
    BY <1>1
<1>4. q \in Int
  <2> HIDE DEF x
  <2> QED
    BY <1>3, WrapInt, QuotInt
<1>5. on \in Int /\ on >= 1 /\ on = IF q < 1 THEN 1 ELSE q
  <2> HIDE DEF q
  <2> QED
    BY <1>4 DEF Gen!AtLeastOne
<1>6. off \in Int /\ off >= 1 /\ off = IF per - on < 1 THEN 1 ELSE per - on
  <2> HIDE DEF per, on
  <2> QED
    BY <1>1, <1>5 DEF Gen!AtLeastOne
<1>7. ASSUME p >= 2, p * k <= MaxInt PROVE on + off \in {p, p + 1}
  <2>1. per = p
    BY <1>7
  <2>2. x <= MaxInt /\ x >= 0 /\ x <= 100 * per
    <3> HIDE DEF per, k
    <3>1. x >= 0 /\ x <= 100 * per
      BY <1>1
    <3> QED
      BY <1>7, <2>1, <3>1
  <2>3. Gen!Wrap(x) = x
    <3>1. MaxInt \in Nat
      BY TimedAssumption DEF Gen!ConstantsOK
    <3> HIDE DEF x
    <3> QED
      BY <1>3, <2>2, <3>1, WrapFits
  <2>4. q \in Int /\ q <= per
    <3>1. q = Gen!Quot(x, 100)
      BY <2>3
    <3> HIDE DEF x, per, q
    <3> QED
      BY <1>1, <1>3, <1>4, <2>2, <3>1 DEF Gen!Quot
  <2>5. on <= per
    <3> HIDE DEF on, q, per
    <3> QED
      BY <1>1, <1>5, <2>4
  <2> HIDE DEF on, off, per
  <2> QED
    BY <1>1, <1>5, <1>6, <1>7, <2>1, <2>5
<1> HIDE DEF per, k, on, off
<1> QED
  BY <1>2, <1>5, <1>6, <1>7 DEF k

\* What is typed in is a number, and a pending tick is due after some time.
PhaseInv == period \in Int /\ duty \in Int /\ (gArmed > 0 => phase >= 1)

\* Nothing is pending in the beginning.
LEMMA PhaseInit == Gen!Init => PhaseInv
<1>1. Periods \subseteq Int /\ Duties \subseteq Int
  BY TimedAssumption DEF Gen!ConstantsOK
<1> QED
  BY <1>1 DEF Gen!Init, PhaseInv

\* A tick is armed for the width of the phase that begins, read at that moment.
LEMMA PhaseNext == GenInv /\ PhaseInv /\ [Gen!Next]_(Gen!vars) => PhaseInv'
<1> SUFFICES ASSUME GenInv, PhaseInv, [Gen!Next]_(Gen!vars) PROVE PhaseInv'
  OBVIOUS
<1>1. Periods \subseteq Int /\ Duties \subseteq Int
  BY TimedAssumption DEF Gen!ConstantsOK
<1> DEFINE w == Gen!Widths(period, duty)
<1>2. w.on >= 1 /\ w.off >= 1
  BY WidthsOK DEF PhaseInv
<1>3. gArmed \in {0, 1}
  BY DEF GenInv, GenLevels
<1>4. period' \in Int /\ duty' \in Int
  BY <1>1 DEF PhaseInv, Gen!Next, Gen!vars, Gen!OnStart, Gen!OnStop, Gen!Activate, Gen!PulseGen_Tick, Gen!TickIdle,
              Gen!TickFall, Gen!TickRise, Gen!SetOption, Gen!OnEnable, Gen!opts
<1>5. \/ phase' = w.on \/ phase' = w.off
      \/ phase' = phase /\ (gArmed' > 0 => gArmed > 0)
  BY <1>3 DEF Gen!Next, Gen!vars, Gen!OnStart, Gen!OnStop, Gen!Activate, Gen!PulseGen_Tick, Gen!TickIdle,
              Gen!TickFall, Gen!TickRise, Gen!SetOption, Gen!OnEnable, Gen!opts, Gen!DoStart, Gen!DoStop
<1> HIDE DEF w
<1> QED
  BY <1>2, <1>4, <1>5 DEF PhaseInv

\* The two invariants together are what the run checks.
LEMMA GenSoundIs == GenInv /\ PhaseInv => GenSound
<1> SUFFICES ASSUME GenInv, PhaseInv PROVE GenSound
  OBVIOUS
<1>1. Gen!RestIsLow /\ Gen!RunningTicks
  BY RestParts DEF GenInv
<1>2. Gen!PhasesFill
  <2> DEFINE w == Gen!Widths(period, duty)
  <2>1. /\ w.on >= 1 /\ w.off >= 1
        /\ period >= 2 /\ period * Gen!Clamp(duty, 0, 100) <= MaxInt => w.on + w.off \in {period, period + 1}
    BY WidthsOK DEF PhaseInv
  <2> QED
    BY <2>1 DEF PhaseInv, Gen!PhasesFill
<1> QED
  BY <1>1, <1>2 DEF GenSound

\* A stopped generator leaves its line low and its lights at rest, a running one
\* is enabled and has its one tick pending, due after a phase that is not empty:
\* no order of starts, stops, ticks and options loses it (pulsegenerator.c,
\* PulseGen_DoStart, PulseGen_DoStop, PulseGen_Tick, PulseGen_OnEnable,
\* PulseGen_Activate, PulseGen_Widths).
THEOREM LineAgrees ==
    ASSUME ReArm = FALSE, ReActivate = FALSE
    PROVE  Gen!Spec => []GenSound
BY GenInit, GenNext, PhaseInit, PhaseNext, GenSoundIs, PTL DEF Gen!Spec

\* The same of the generator among the other objects.
THEOREM GeneratorSound ==
    ASSUME ReArm = FALSE, ReActivate = FALSE
    PROVE  MCSpec => []GenSound
<1>1. MCInit => Gen!Init
  BY DEF MCInit
<1>2. [MCNext]_MCVars => [Gen!Next]_(Gen!vars)
  BY DEF MCNext, PulseStep, ButtonStep, GenStep, ClientStep, PortStep, ShimStep, MCVars, gVars, Gen!vars,
         Gen!opts, Gen!lamps
<1> QED
  BY <1>1, <1>2, GenInit, GenNext, PhaseInit, PhaseNext, GenSoundIs, PTL DEF MCSpec

-----------------------------------------------------------------------------
(* The clients of a model server.  A client in which a task was used after *)
(* it had been given back is tainted (that it can be is a finding); what   *)
(* is proved of Status and of Enable holds of such a client too.           *)

\* What a client keeps (InstanceData and the Status line).
ClientRec ==
    [phase : {"idle", "conn", "send", "recv"}, step : {"main", "history", "models"},
     prompt : BOOLEAN, status : {"busy", "ended"}, armed : [Client!Tasks -> BOOLEAN],
     retired : SUBSET Client!Tasks, tainted : BOOLEAN]

\* A task that was given back and is armed again has tainted the client.
ClientNoted(s) == \A t \in Client!Tasks : s.armed[t] /\ t \in s.retired => s.tainted

\* UnderWayWakes, of any record: whatever is under way has its task armed.
ClientWakes(s) ==
    s.tainted \/ /\ s.phase # "idle" => s.armed["poll"]
                 /\ s.phase = "idle" /\ s.prompt => s.armed["retry"]

\* BusyIsTrue, of any record.
ClientBusy(s) == s.status = "busy" => s.phase # "idle" \/ s.prompt

\* What every handler leaves behind, whether or not the client is placed.
ClientSound(s) == s \in ClientRec /\ ClientNoted(s) /\ ClientWakes(s) /\ ClientBusy(s)

\* Arming a task changes that task and the taint alone.
LEMMA ArmIs ==
    ASSUME NEW s \in ClientRec, NEW t \in Client!Tasks
    PROVE  LET r == Client!Arm(s, t)
           IN  /\ r \in ClientRec /\ r.armed[t] = TRUE
               /\ \A u \in Client!Tasks : u # t => r.armed[u] = s.armed[u]
               /\ r.tainted = (s.tainted \/ s.armed[t] \/ t \in s.retired)
               /\ r.phase = s.phase /\ r.step = s.step /\ r.prompt = s.prompt /\ r.status = s.status
               /\ r.retired = s.retired
BY DEF Client!Arm, ClientRec

\* Arming the retry task leaves the poll task's timer alone.
LEMMA ArmRetry ==
    ASSUME NEW s \in ClientRec
    PROVE  LET a == Client!Arm(s, "retry")
           IN  /\ a \in ClientRec /\ a.armed["retry"] = TRUE /\ a.armed["poll"] = s.armed["poll"]
               /\ a.tainted = (s.tainted \/ s.armed["retry"] \/ "retry" \in s.retired)
               /\ a.phase = s.phase /\ a.step = s.step /\ a.prompt = s.prompt
               /\ a.retired = s.retired
<1> DEFINE t == "retry"
           a == Client!Arm(s, t)
<1>1. t \in Client!Tasks /\ "poll" \in Client!Tasks /\ "poll" # t
  BY DEF Client!Tasks
<1> HIDE DEF t
<1>2. /\ a \in ClientRec /\ a.armed[t] = TRUE
      /\ \A u \in Client!Tasks : u # t => a.armed[u] = s.armed[u]
      /\ a.tainted = (s.tainted \/ s.armed[t] \/ t \in s.retired)
      /\ a.phase = s.phase /\ a.step = s.step /\ a.prompt = s.prompt
      /\ a.retired = s.retired
  BY <1>1, ArmIs
<1> HIDE DEF a
<1>3. a.armed["poll"] = s.armed["poll"]
  BY <1>1, <1>2
<1> QED
  BY <1>2, <1>3, Zenon DEF a, t

\* The poll armed: it is, and a second use of it was noted.
LEMMA ArmPoll ==
    ASSUME NEW s \in ClientRec, ClientNoted(s)
    PROVE  LET r == Client!Arm(s, "poll")
           IN  /\ r \in ClientRec /\ ClientNoted(r) /\ r.armed["poll"] = TRUE
               /\ r.step = s.step /\ r.prompt = s.prompt
<1> DEFINE r == Client!Arm(s, "poll")
<1>1. /\ r \in ClientRec /\ r.armed["poll"] = TRUE /\ r.armed["retry"] = s.armed["retry"]
      /\ r.tainted = (s.tainted \/ s.armed["poll"] \/ "poll" \in s.retired)
      /\ r.step = s.step /\ r.prompt = s.prompt /\ r.retired = s.retired
  BY ArmIs DEF Client!Tasks
<1> HIDE DEF r
<1>2. ClientNoted(r)
  BY <1>1 DEF ClientNoted, Client!Tasks
<1> QED
  BY <1>1, <1>2 DEF r

\* Retiring a task (RemoveTask).
LEMMA RemoveIs ==
    ASSUME NEW s \in ClientRec, NEW t \in Client!Tasks
    PROVE  LET r == Client!RemoveTask(s, t)
           IN  /\ r \in ClientRec /\ r.armed[t] = FALSE
               /\ \A u \in Client!Tasks : u # t => r.armed[u] = s.armed[u]
               /\ r.tainted = (s.tainted \/ t \in s.retired)
               /\ r.phase = s.phase /\ r.step = s.step /\ r.prompt = s.prompt /\ r.status = s.status
               /\ r.retired = s.retired \cup {t}
BY DEF Client!RemoveTask, ClientRec

\* A task that fires is in no list.
LEMMA FiredIs ==
    ASSUME NEW s \in ClientRec, NEW t \in Client!Tasks
    PROVE  LET r == Client!Fired(s, t)
           IN  /\ r \in ClientRec /\ r.armed[t] = FALSE
               /\ \A u \in Client!Tasks : u # t => r.armed[u] = s.armed[u]
               /\ r.tainted = s.tainted
               /\ r.phase = s.phase /\ r.step = s.step /\ r.prompt = s.prompt /\ r.status = s.status
               /\ r.retired = s.retired
BY DEF Client!Fired, ClientRec

\* Whatever state a failure (Comfy_Fail, Sd_Fail, Ollama_Fail) meets, nothing is
\* under way after it and Status says so.
LEMMA FailSound ==
    ASSUME NEW s \in ClientRec, ClientNoted(s)
    PROVE  LET r == Client!Fail(s)
           IN  ClientSound(r) /\ r.phase = "idle" /\ r.prompt = FALSE /\ r.step = s.step /\ r.status = "ended"
<1> DEFINE a == Client!RemoveTask(s, "poll")
           b == Client!RemoveTask(a, "retry")
           m == IF kind = "ollama" THEN s ELSE b
<1>0. "poll" \in Client!Tasks /\ "retry" \in Client!Tasks
  BY DEF Client!Tasks
<1>1. a \in ClientRec /\ a.armed["poll"] = FALSE /\ a.step = s.step
  BY <1>0, RemoveIs
<1> HIDE DEF a
<1>2. b \in ClientRec /\ b.armed["poll"] = FALSE /\ b.armed["retry"] = FALSE /\ b.step = s.step
  <2>1. /\ b \in ClientRec /\ b.armed["retry"] = FALSE /\ b.step = a.step
        /\ \A u \in Client!Tasks : u # "retry" => b.armed[u] = a.armed[u]
    BY <1>0, <1>1, RemoveIs
  <2> QED
    BY <1>0, <1>1, <2>1
<1>3. ClientNoted(b)
  BY <1>2 DEF ClientNoted, Client!Tasks
<1> HIDE DEF b
<1>4. m \in ClientRec /\ ClientNoted(m) /\ m.step = s.step
  BY <1>2, <1>3
<1>5. Client!Fail(s) = [[m EXCEPT !.phase = "idle"] EXCEPT !.prompt = FALSE, !.status = "ended"]
  BY DEF Client!Fail, Client!Reset, a, b
<1> HIDE DEF m
<1> DEFINE r == Client!Fail(s)
<1>6. /\ r \in ClientRec /\ r.phase = "idle" /\ r.prompt = FALSE /\ r.status = "ended"
      /\ r.armed = m.armed /\ r.retired = m.retired /\ r.tainted = m.tainted /\ r.step = m.step
  BY <1>4, <1>5 DEF ClientRec
<1> HIDE DEF r
<1>7. ClientNoted(r) /\ ClientWakes(r) /\ ClientBusy(r)
  BY <1>4, <1>6 DEF ClientNoted, ClientWakes, ClientBusy
<1> QED
  BY <1>4, <1>6, <1>7 DEF ClientSound, r

\* A request begins with its poll armed, or fails at once.
LEMMA BeginSound ==
    ASSUME NEW s \in ClientRec, ClientNoted(s), NEW st \in {"main", "history", "models"}, NEW ok \in BOOLEAN
    PROVE  LET r == Client!Begin(s, st, ok)
           IN  /\ ClientSound(r)
               /\ ok => r.phase = "conn" /\ r.prompt = s.prompt /\ r.step = st
               /\ ~ok => r.phase = "idle" /\ r.prompt = FALSE /\ r.step = s.step /\ r.status = "ended"
<1> DEFINE e == Client!Reset(s)
           a == Client!Arm(e, "poll")
           r == Client!Begin(s, st, ok)
<1>1. e \in ClientRec /\ ClientNoted(e) /\ e.prompt = s.prompt /\ e.step = s.step
  BY DEF Client!Reset, ClientRec, ClientNoted
<1> HIDE DEF e
<1>2. CASE ~ok
  <2>1. r = Client!Fail(e)
    BY <1>2 DEF Client!Begin, e
  <2> QED
    BY <1>1, <1>2, <2>1, FailSound
<1>3. CASE ok
  <2>1. r = [a EXCEPT !.phase = "conn", !.step = st, !.status = IF kind = "ollama" THEN "busy" ELSE @]
    BY <1>3 DEF Client!Begin, e
  <2>2. /\ a \in ClientRec /\ a.armed["poll"] = TRUE /\ a.armed["retry"] = e.armed["retry"]
        /\ a.tainted = (e.tainted \/ e.armed["poll"] \/ "poll" \in e.retired)
        /\ a.prompt = s.prompt /\ a.retired = e.retired
    BY <1>1, ArmIs DEF Client!Tasks
  <2>3. ClientNoted(a)
    BY <1>1, <2>2 DEF ClientNoted, Client!Tasks
  <2> HIDE DEF a, r
  <2>4. /\ r \in ClientRec /\ r.phase = "conn" /\ r.step = st /\ r.prompt = s.prompt
        /\ r.armed = a.armed /\ r.retired = a.retired /\ r.tainted = a.tainted
    BY <2>1, <2>2 DEF ClientRec
  <2>5. ClientNoted(r) /\ ClientWakes(r) /\ ClientBusy(r)
    BY <2>2, <2>3, <2>4 DEF ClientNoted, ClientWakes, ClientBusy
  <2> QED
    BY <1>3, <2>4, <2>5 DEF ClientSound, r
<1> QED
  BY <1>2, <1>3

\* The inductive invariant of a client.  Only ComfyUI has a pipeline, and a reply
\* that comes in time to its history request finds the pipeline still wanted.
ClientInv ==
    /\ kind \in Kinds /\ ClientSound(c)
    /\ kind # "comfyui" => ~c.prompt
    /\ kind = "comfyui" =>
          c.step # "models" /\ (c.step = "history" /\ c.phase # "idle" /\ ~late => c.prompt)
    /\ cEnabled \in BOOLEAN /\ late \in BOOLEAN
    /\ ~cEnabled => c.phase = "idle" /\ ~c.prompt

\* A new instance has nothing armed.
LEMMA FreshIs ==
    /\ Client!Fresh \in ClientRec
    /\ Client!Fresh.phase = "idle" /\ Client!Fresh.prompt = FALSE /\ Client!Fresh.step = "main"
    /\ Client!Fresh.status = "ended" /\ \A t \in Client!Tasks : Client!Fresh.armed[t] = FALSE
BY DEF Client!Fresh, ClientRec

\* Nothing armed and nothing under way.
LEMMA RestSound ==
    ASSUME NEW r \in ClientRec, r.phase = "idle", r.prompt = FALSE, r.status = "ended",
           \A t \in Client!Tasks : r.armed[t] = FALSE
    PROVE  ClientSound(r)
BY DEF ClientSound, ClientNoted, ClientWakes, ClientBusy

\* A new instance is sound, also where a tainted one was.
LEMMA FreshSound ==
    ASSUME NEW b \in BOOLEAN
    PROVE  LET r == [Client!Fresh EXCEPT !.tainted = b]
           IN  ClientSound(r) /\ r.phase = "idle" /\ r.prompt = FALSE /\ r.step = "main"
<1> DEFINE r == [Client!Fresh EXCEPT !.tainted = b]
<1>1. /\ r \in ClientRec /\ r.phase = "idle" /\ r.prompt = FALSE /\ r.step = "main" /\ r.status = "ended"
      /\ \A t \in Client!Tasks : r.armed[t] = FALSE
  BY FreshIs DEF ClientRec
<1> HIDE DEF r
<1> QED
  BY <1>1, RestSound DEF r

\* No instance is there in the beginning.
LEMMA ClientInit == Client!Init => ClientInv
<1> SUFFICES ASSUME Client!Init PROVE ClientInv
  OBVIOUS
<1>1. ClientSound(c) /\ c.phase = "idle" /\ c.prompt = FALSE /\ c.step = "main"
  BY FreshIs, RestSound DEF Client!Init
<1> QED
  BY <1>1 DEF Client!Init, ClientInv

\* Placing and deleting a client.
LEMMA ClientPlace ==
    ASSUME ClientInv, Client!InstanceStart \/ Client!InstanceEnd
    PROVE  ClientInv'
<1>1. c \in ClientRec
  BY DEF ClientInv, ClientSound
<1>2. PICK b \in BOOLEAN : c' = [Client!Fresh EXCEPT !.tainted = b]
  <2>1. c.tainted \in BOOLEAN /\ (c.tainted \/ c.retired # {}) \in BOOLEAN
    BY <1>1 DEF ClientRec
  <2> QED
    BY <2>1 DEF Client!InstanceStart, Client!InstanceEnd
<1>3. ClientSound(c') /\ c'.phase = "idle" /\ c'.prompt = FALSE /\ c'.step = "main"
  BY <1>2, FreshSound
<1>4. kind' = kind /\ cEnabled' \in BOOLEAN /\ late' \in BOOLEAN
  BY DEF ClientInv, Client!InstanceStart, Client!InstanceEnd
<1> QED
  BY <1>3, <1>4 DEF ClientInv

\* The panel settles, or the list of models is asked for.
LEMMA ClientBuild ==
    ASSUME ClientInv, NEW ok \in BOOLEAN, Client!BuildTask(ok) \/ Client!OnRefresh(ok)
    PROVE  ClientInv'
<1>1. kind' = kind /\ cEnabled' = cEnabled /\ late' \in BOOLEAN /\ (kind = "comfyui" => late' = late)
  BY DEF ClientInv, Client!BuildTask, Client!OnRefresh
<1>2. c' = c \/ (c' = Client!Begin(c, "models", ok) /\ cEnabled /\ kind # "comfyui")
  BY DEF Client!BuildTask, Client!OnRefresh
<1>3. c \in ClientRec /\ ClientNoted(c)
  BY DEF ClientInv, ClientSound
<1>4. CASE c' = c
  BY <1>1, <1>4 DEF ClientInv
<1>5. CASE c' = Client!Begin(c, "models", ok) /\ cEnabled /\ kind # "comfyui"
  <2>1. ClientSound(c') /\ (c'.prompt = c.prompt \/ c'.prompt = FALSE)
    BY <1>3, <1>5, BeginSound
  <2> QED
    BY <1>1, <1>5, <2>1 DEF ClientInv
<1> QED
  BY <1>2, <1>4, <1>5

\* Generate drops what was under way and begins anew.
LEMMA ClientGenerate ==
    ASSUME ClientInv, NEW ok \in BOOLEAN, Client!OnGenerate(ok)
    PROVE  ClientInv'
<1> DEFINE d == [c EXCEPT !.prompt = FALSE, !.status = IF kind = "ollama" THEN @ ELSE "busy"]
           b == Client!Begin(d, "main", ok)
<1>1. c \in ClientRec /\ ClientNoted(c)
  BY DEF ClientInv, ClientSound
<1>2. d \in ClientRec /\ ClientNoted(d) /\ d.prompt = FALSE /\ d.step = c.step
  BY <1>1 DEF ClientRec, ClientNoted
<1>3. /\ kind' = kind /\ cEnabled' = cEnabled /\ cEnabled /\ late' \in BOOLEAN
      /\ c' = IF kind = "stablediffusion" THEN Client!Arm(b, "retry") ELSE b
  BY DEF Client!OnGenerate, ClientInv
<1> HIDE DEF d
<1>4. /\ ClientSound(b) /\ b.prompt = FALSE
      /\ ok => b.step = "main"
      /\ ~ok => b.phase = "idle" /\ b.step = c.step
  BY <1>2, BeginSound
<1> HIDE DEF b
<1>5. CASE kind = "stablediffusion"
  <2>1. b \in ClientRec
    BY <1>4 DEF ClientSound
  <2>2. /\ c' \in ClientRec /\ c'.armed["retry"] = TRUE /\ c'.armed["poll"] = b.armed["poll"]
        /\ c'.tainted = (b.tainted \/ b.armed["retry"] \/ "retry" \in b.retired)
        /\ c'.phase = b.phase /\ c'.prompt = b.prompt /\ c'.status = b.status /\ c'.retired = b.retired
    BY <1>3, <1>5, <2>1, ArmIs DEF Client!Tasks
  <2>3. ClientNoted(c')
    BY <1>4, <2>2 DEF ClientSound, ClientNoted, Client!Tasks
  <2>4. ClientWakes(c') /\ ClientBusy(c')
    BY <1>4, <2>2 DEF ClientSound, ClientWakes, ClientBusy
  <2> QED
    BY <1>3, <1>4, <1>5, <2>2, <2>3, <2>4 DEF ClientInv, ClientSound
<1>6. CASE kind # "stablediffusion"
  BY <1>3, <1>4, <1>6 DEF ClientInv
<1> QED
  BY <1>5, <1>6

\* Unchecking cancels; only a resting Ollama has nothing to cancel.
LEMMA ClientEnable ==
    ASSUME ClientInv, NEW v \in BOOLEAN, Client!OnEnable(v)
    PROVE  ClientInv'
<1>1. kind' = kind /\ cEnabled' = v /\ late' = late
  BY DEF Client!OnEnable
<1>2. CASE c' = c /\ (v \/ (kind = "ollama" /\ c.phase = "idle"))
  BY <1>1, <1>2 DEF ClientInv
<1>3. CASE c' = Client!Fail(c)
  <2>1. ClientSound(c') /\ c'.phase = "idle" /\ c'.prompt = FALSE /\ c'.step = c.step
    BY <1>3, FailSound DEF ClientInv, ClientSound
  <2> QED
    BY <1>1, <2>1 DEF ClientInv
<1> QED
  BY <1>2, <1>3 DEF Client!OnEnable

\* The deadline passes.
LEMMA ClientTime ==
    ASSUME ClientInv, Client!Expire
    PROVE  ClientInv'
BY DEF ClientInv, Client!Expire

\* A message takes an entry only of a client that was tainted before.
LEMMA ClientStolen ==
    ASSUME ClientInv, NEW t \in Client!Tasks, Client!GetTask(t)
    PROVE  ClientInv'
<1>1. c \in ClientRec /\ ClientNoted(c) /\ ClientBusy(c)
  BY DEF ClientInv, ClientSound
<1>2. c' = Client!Fired(c, t) /\ c.tainted = TRUE /\ UNCHANGED <<kind, cEnabled, late>>
  BY <1>1 DEF Client!GetTask, Client!Fired, ClientNoted, ClientRec
<1> DEFINE r == Client!Fired(c, t)
<1>3. /\ r \in ClientRec /\ r.tainted = c.tainted
      /\ r.phase = c.phase /\ r.step = c.step /\ r.prompt = c.prompt /\ r.status = c.status
  BY <1>1, FiredIs
<1> HIDE DEF r
<1>4. ClientSound(r)
  BY <1>1, <1>2, <1>3 DEF ClientSound, ClientNoted, ClientWakes, ClientBusy
<1>5. c' = r
  BY <1>2 DEF r
<1> QED
  BY <1>2, <1>3, <1>4, <1>5 DEF ClientInv

\* A poll that fires: idle, late, on its way, broken, or with a whole reply.
LEMMA ClientPoll ==
    ASSUME ClientInv, Client!Poll
    PROVE  ClientInv'
<1> DEFINE s == Client!Fired(c, "poll")
<1>1. c \in ClientRec /\ ClientSound(c) /\ ClientNoted(c) /\ UNCHANGED <<kind, cEnabled, late>>
  BY DEF ClientInv, ClientSound, Client!Poll
<1>2. /\ s \in ClientRec /\ s.armed["poll"] = FALSE /\ s.armed["retry"] = c.armed["retry"]
      /\ s.tainted = c.tainted /\ s.retired = c.retired
      /\ s.phase = c.phase /\ s.step = c.step /\ s.prompt = c.prompt /\ s.status = c.status
  BY <1>1, FiredIs DEF Client!Tasks
<1>3. ClientNoted(s)
  BY <1>1, <1>2 DEF ClientNoted, Client!Tasks
<1>4. CASE Client!PollIdle
  <2>1. c' = s /\ c.phase = "idle"
    BY <1>4 DEF Client!PollIdle
  <2> HIDE DEF s
  <2>2. ClientSound(s)
    BY <1>1, <1>2, <1>3, <2>1 DEF ClientSound, ClientWakes, ClientBusy
  <2> QED
    BY <1>1, <1>2, <2>1, <2>2 DEF ClientInv
<1>5. CASE Client!PollLate \/ Client!PollBroken
  <2>1. c' = Client!Fail(s)
    BY <1>5 DEF Client!PollLate, Client!PollBroken
  <2> HIDE DEF s
  <2>2. ClientSound(c') /\ c'.phase = "idle" /\ c'.prompt = FALSE /\ c'.step = c.step
    BY <1>2, <1>3, <2>1, FailSound
  <2> QED
    BY <1>1, <2>2 DEF ClientInv
<1>6. CASE Client!PollOn
  <2> DEFINE a == Client!Arm(s, "poll")
  <2>1. PICK p \in Client!Later(c.phase) :
           c' = [a EXCEPT !.phase = p, !.status = IF p = "conn" THEN @ ELSE "busy"]
    BY <1>6 DEF Client!PollOn
  <2>2. c.phase # "idle" /\ p \in {"conn", "send", "recv"}
    BY <1>1, <1>6, <2>1 DEF Client!PollOn, Client!OnTime, Client!Later, ClientRec
  <2> HIDE DEF s
  <2>3. a \in ClientRec /\ ClientNoted(a) /\ a.armed["poll"] = TRUE /\ a.step = s.step /\ a.prompt = s.prompt
    BY <1>2, <1>3, ArmPoll
  <2> HIDE DEF a
  <2>4. /\ c' \in ClientRec /\ c'.phase = p /\ c'.step = a.step /\ c'.prompt = a.prompt
        /\ c'.armed = a.armed /\ c'.retired = a.retired /\ c'.tainted = a.tainted
    BY <2>1, <2>2, <2>3 DEF ClientRec
  <2>5. ClientSound(c')
    BY <2>2, <2>3, <2>4 DEF ClientSound, ClientNoted, ClientWakes, ClientBusy
  <2> QED
    BY <1>1, <1>2, <2>2, <2>3, <2>4, <2>5 DEF ClientInv
<1>7. ASSUME NEW good \in BOOLEAN, NEW ok \in BOOLEAN, Client!PollDone(good, ok)
      PROVE  ClientInv'
  <2>1. c.phase # "idle" /\ ~late
    BY <1>7 DEF Client!PollDone, Client!OnTime, Client!Expired
  <2> DEFINE e == Client!Reset(s)
  <2>2. CASE kind # "comfyui"
    <3>1. c' = [e EXCEPT !.status = "ended"]
      BY <1>7, <2>2 DEF Client!PollDone, Client!Publish
    <3> HIDE DEF s
    <3>2. /\ e \in ClientRec /\ e.phase = "idle" /\ e.prompt = s.prompt /\ e.armed = s.armed
          /\ e.retired = s.retired /\ e.tainted = s.tainted
      BY <1>2 DEF Client!Reset, ClientRec
    <3> HIDE DEF e
    <3>3. /\ c' \in ClientRec /\ c'.phase = "idle" /\ c'.prompt = s.prompt /\ c'.armed = s.armed
          /\ c'.retired = s.retired /\ c'.tainted = s.tainted /\ c'.status = "ended"
      BY <3>1, <3>2 DEF ClientRec
    <3>4. ~c'.prompt
      BY <1>2, <2>2, <3>3 DEF ClientInv
    <3>5. ClientSound(c')
      BY <1>3, <3>3, <3>4 DEF ClientSound, ClientNoted, ClientWakes, ClientBusy
    <3> QED
      BY <1>1, <2>2, <3>3, <3>4, <3>5 DEF ClientInv
  <2>3. CASE kind = "comfyui"
    <3>1. /\ cEnabled /\ c.step # "models"
          /\ c.step = "history" => c.prompt
      BY <2>1, <2>3 DEF ClientInv
    <3>2. c' = Client!Comfy_Complete(s, good, ok)
      BY <1>7, <2>3 DEF Client!PollDone
    <3>3. CASE c' = Client!Begin([e EXCEPT !.prompt = TRUE], "history", ok)
      <4> HIDE DEF s
      <4>1. e \in ClientRec /\ ClientNoted(e) /\ e.step = s.step
        BY <1>2, <1>3 DEF Client!Reset, ClientRec, ClientNoted
      <4> HIDE DEF e
      <4> DEFINE g == [e EXCEPT !.prompt = TRUE]
      <4>2. g \in ClientRec /\ ClientNoted(g) /\ g.prompt = TRUE /\ g.step = s.step
        BY <4>1 DEF ClientRec, ClientNoted
      <4> HIDE DEF g
      <4>3. c' = Client!Begin(g, "history", ok)
        BY <3>3 DEF g
      <4> DEFINE b == Client!Begin(g, "history", ok)
      <4>4. /\ ClientSound(b)
            /\ ok => b.prompt = g.prompt /\ b.step = "history"
            /\ ~ok => b.phase = "idle" /\ b.step = g.step
        <5>1. g \in ClientRec /\ ClientNoted(g) /\ "history" \in {"main", "history", "models"} /\ ok \in BOOLEAN
          BY <4>2
        <5> QED
          BY ONLY <5>1, BeginSound
      <4>5. c' = b
        BY <4>3
      <4> HIDE DEF b
      <4> QED
        BY <1>1, <1>2, <1>7, <2>3, <3>1, <4>2, <4>4, <4>5 DEF ClientInv
    <3>4. CASE c' = Client!Fail(s)
      <4> HIDE DEF s
      <4>1. ClientSound(c') /\ c'.phase = "idle" /\ c'.prompt = FALSE /\ c'.step = c.step
        BY <1>2, <1>3, <3>4, FailSound
      <4> QED
        BY <1>1, <4>1 DEF ClientInv
    <3>5. CASE c' = [e EXCEPT !.prompt = FALSE, !.status = "ended"]
      <4> HIDE DEF s
      <4>1. /\ e \in ClientRec /\ e.phase = "idle" /\ e.armed = s.armed /\ e.step = s.step
            /\ e.retired = s.retired /\ e.tainted = s.tainted
        BY <1>2 DEF Client!Reset, ClientRec
      <4> HIDE DEF e
      <4>2. /\ c' \in ClientRec /\ c'.phase = "idle" /\ c'.prompt = FALSE /\ c'.armed = s.armed
            /\ c'.retired = s.retired /\ c'.tainted = s.tainted /\ c'.status = "ended" /\ c'.step = s.step
        BY <3>5, <4>1 DEF ClientRec
      <4>3. ClientSound(c')
        BY <1>3, <4>2 DEF ClientSound, ClientNoted, ClientWakes, ClientBusy
      <4> QED
        BY <1>1, <1>2, <4>2, <4>3 DEF ClientInv
    <3>6. CASE c' = Client!Arm([e EXCEPT !.status = "busy"], "retry") /\ s.step # "main"
      <4>1. c.step = "history" /\ c.prompt = TRUE
        BY <1>1, <1>2, <3>1, <3>6 DEF ClientRec
      <4> HIDE DEF s
      <4>2. /\ e \in ClientRec /\ e.phase = "idle" /\ e.armed = s.armed /\ e.step = s.step
            /\ e.retired = s.retired /\ e.tainted = s.tainted /\ e.prompt = s.prompt
        BY <1>2 DEF Client!Reset, ClientRec
      <4> HIDE DEF e
      <4> DEFINE g == [e EXCEPT !.status = "busy"]
                 a == Client!Arm(g, "retry")
      <4>3. /\ g \in ClientRec /\ g.phase = "idle" /\ g.armed = s.armed /\ g.step = s.step
            /\ g.retired = s.retired /\ g.tainted = s.tainted /\ g.prompt = s.prompt
        BY <4>2 DEF ClientRec
      <4>4. ClientNoted(g)
        BY <1>3, <4>3 DEF ClientNoted
      <4>5. c' = a
        BY <3>6
      <4> HIDE DEF g
      <4>6. /\ a \in ClientRec /\ a.armed["retry"] = TRUE /\ a.armed["poll"] = g.armed["poll"]
            /\ a.tainted = (g.tainted \/ g.armed["retry"] \/ "retry" \in g.retired)
            /\ a.phase = g.phase /\ a.step = g.step /\ a.prompt = g.prompt /\ a.retired = g.retired
        BY <4>3, ArmIs DEF Client!Tasks
      <4> HIDE DEF a
      <4>7. ClientNoted(a)
        BY <4>4, <4>6 DEF ClientNoted, Client!Tasks
      <4>8. a.prompt = TRUE /\ a.step = "history"
        BY <1>2, <4>1, <4>3, <4>6
      <4>9. ClientSound(a)
        BY <4>3, <4>6, <4>7, <4>8 DEF ClientSound, ClientWakes, ClientBusy
      <4> QED
        BY <1>1, <2>3, <3>1, <4>5, <4>8, <4>9 DEF ClientInv
    <3> QED
      BY <3>2, <3>3, <3>4, <3>5, <3>6 DEF Client!Comfy_Complete
  <2> QED
    BY <2>2, <2>3
<1> QED
  BY <1>4, <1>5, <1>6, <1>7 DEF Client!Poll

\* The second task fires: the next look at the history or at the progress.
LEMMA ClientRetry ==
    ASSUME ClientInv, Client!Retry
    PROVE  ClientInv'
<1> DEFINE s == Client!Fired(c, "retry")
<1>1. c \in ClientRec /\ ClientSound(c) /\ ClientNoted(c) /\ UNCHANGED <<kind, cEnabled, late>>
  BY DEF ClientInv, ClientSound, Client!Retry
<1>2. /\ s \in ClientRec /\ s.armed["retry"] = FALSE /\ s.armed["poll"] = c.armed["poll"]
      /\ s.tainted = c.tainted /\ s.retired = c.retired
      /\ s.phase = c.phase /\ s.step = c.step /\ s.prompt = c.prompt /\ s.status = c.status
  BY <1>1, FiredIs DEF Client!Tasks
<1>3. ClientNoted(s)
  BY <1>1, <1>2 DEF ClientNoted, Client!Tasks
<1>4. CASE c' = s /\ ~c.prompt
  <2> HIDE DEF s
  <2>1. ClientSound(s)
    BY <1>1, <1>2, <1>3, <1>4 DEF ClientSound, ClientWakes, ClientBusy
  <2> QED
    BY <1>1, <1>2, <1>4, <2>1 DEF ClientInv
<1>5. CASE c' = [s EXCEPT !.prompt = FALSE, !.status = "ended"] /\ late
  <2> HIDE DEF s
  <2>1. /\ c' \in ClientRec /\ c'.phase = s.phase /\ c'.prompt = FALSE /\ c'.armed = s.armed
        /\ c'.retired = s.retired /\ c'.tainted = s.tainted /\ c'.status = "ended" /\ c'.step = s.step
    BY <1>2, <1>5 DEF ClientRec
  <2>2. ClientSound(c')
    BY <1>1, <1>2, <1>3, <2>1 DEF ClientSound, ClientNoted, ClientWakes, ClientBusy
  <2> QED
    BY <1>1, <1>2, <1>5, <2>1, <2>2 DEF ClientInv
<1>6. ASSUME NEW ok \in BOOLEAN, c' = Client!Begin(s, "history", ok), c.prompt, kind = "comfyui"
      PROVE  ClientInv'
  <2> HIDE DEF s
  <2> DEFINE b == Client!Begin(s, "history", ok)
  <2>1. /\ ClientSound(b)
        /\ ok => b.prompt = s.prompt /\ b.step = "history"
        /\ ~ok => b.phase = "idle" /\ b.step = s.step
    BY <1>2, <1>3, BeginSound
  <2>2. c' = b
    BY <1>6
  <2> HIDE DEF b
  <2> QED
    BY <1>1, <1>2, <1>6, <2>1, <2>2 DEF ClientInv
<1>7. CASE c' = Client!Fail(s)
  <2> HIDE DEF s
  <2>1. ClientSound(c') /\ c'.phase = "idle" /\ c'.prompt = FALSE /\ c'.step = c.step
    BY <1>2, <1>3, <1>7, FailSound
  <2> QED
    BY <1>1, <2>1 DEF ClientInv
<1>8. ASSUME NEW st \in {"busy", "ended"}, c' = [Client!Arm(s, "retry") EXCEPT !.status = st],
             c.phase # "idle"
      PROVE  ClientInv'
  <2> HIDE DEF s
  <2> DEFINE a == Client!Arm(s, "retry")
  <2>1. /\ a \in ClientRec /\ a.armed["retry"] = TRUE /\ a.armed["poll"] = s.armed["poll"]
        /\ a.tainted = (s.tainted \/ s.armed["retry"] \/ "retry" \in s.retired)
        /\ a.phase = s.phase /\ a.step = s.step /\ a.prompt = s.prompt /\ a.retired = s.retired
    BY <1>2, ArmRetry
  <2>2. ClientNoted(a)
    BY <1>3, <2>1 DEF ClientNoted, Client!Tasks
  <2>3. c' = [a EXCEPT !.status = st]
    BY <1>8
  <2> HIDE DEF a
  <2>4. /\ c' \in ClientRec /\ c'.phase = a.phase /\ c'.prompt = a.prompt /\ c'.armed = a.armed
        /\ c'.retired = a.retired /\ c'.tainted = a.tainted /\ c'.step = a.step
    BY <2>1, <2>3 DEF ClientRec
  <2>5. ClientSound(c')
    BY <1>1, <1>2, <1>8, <2>1, <2>2, <2>4 DEF ClientSound, ClientNoted, ClientWakes, ClientBusy
  <2> QED
    BY <1>1, <1>2, <2>1, <2>4, <2>5 DEF ClientInv
<1>9. ASSUME NEW ok \in BOOLEAN, Client!RetryHistory(ok) PROVE ClientInv'
  BY <1>4, <1>5, <1>6, <1>9 DEF Client!RetryHistory, Client!Expired
<1>10. CASE Client!RetryProgress
  <2>1. kind = "stablediffusion" /\ ~c.prompt /\ c.status \in {"busy", "ended"}
    BY <1>1, <1>10 DEF Client!RetryProgress, ClientInv, ClientRec
  <2> QED
    BY <1>4, <1>7, <1>8, <1>10, <2>1 DEF Client!RetryProgress
<1> QED
  BY <1>9, <1>10 DEF Client!Retry

\* Every handler, both tasks and the clock keep the invariant of a client.
LEMMA ClientNext == ClientInv /\ [Client!Next]_(Client!vars) => ClientInv'
<1> SUFFICES ASSUME ClientInv, [Client!Next]_(Client!vars) PROVE ClientInv'
  OBVIOUS
<1>1. CASE Client!InstanceStart \/ Client!InstanceEnd
  BY <1>1, ClientPlace
<1>2. CASE Client!Build \/ Client!Press
  BY <1>2, ClientBuild, ClientGenerate DEF Client!Build, Client!Press
<1>3. CASE Client!Poll \/ Client!Retry \/ Client!Expire
  BY <1>3, ClientPoll, ClientRetry, ClientTime
<1>4. ASSUME NEW v \in BOOLEAN, Client!OnEnable(v) PROVE ClientInv'
  BY <1>4, ClientEnable
<1>5. ASSUME NEW t \in Client!Tasks, Client!GetTask(t) PROVE ClientInv'
  BY <1>5, ClientStolen
<1>6. CASE UNCHANGED Client!vars
  BY <1>6 DEF Client!vars, ClientInv
<1> QED
  BY <1>1, <1>2, <1>3, <1>4, <1>5, <1>6 DEF Client!Next

\* The invariant is stronger than what the run checks.
LEMMA ClientTrueIs == ClientInv => ClientTrue
<1> SUFFICES ASSUME ClientInv PROVE ClientTrue
  OBVIOUS
<1>1. Client!UnderWayWakesUnlessTainted
  BY DEF ClientInv, ClientSound, ClientWakes, Client!UnderWayWakesUnlessTainted, Client!UnderWayWakes
<1>2. Client!BusyIsTrue /\ Client!DisabledIsIdle
  BY DEF ClientInv, ClientSound, ClientBusy, Client!BusyIsTrue, Client!DisabledIsIdle, Client!UnderWay
<1> QED
  BY <1>1, <1>2 DEF ClientTrue

\* What a client has under way is what its Status says, with a task armed that
\* will look at the deadline (unless a task was used after it was given back), and
\* an unchecked client has nothing under way that a poll, a retry or a late reply
\* could start again (comfyui.c, stablediffusion.c, ollama.c).
THEOREM ClientTruth == Client!Spec => []ClientTrue
BY ClientInit, ClientNext, ClientTrueIs, PTL DEF Client!Spec

\* The same of the clients among the other objects.
THEOREM ClientsTrue == MCSpec => []ClientTrue
<1>1. MCInit => Client!Init
  BY DEF MCInit
<1>2. [MCNext]_MCVars => [Client!Next]_(Client!vars)
  BY DEF MCNext, PulseStep, ButtonStep, GenStep, ClientStep, PortStep, ShimStep, MCVars, cVars, Client!vars
<1> QED
  BY <1>1, <1>2, ClientInit, ClientNext, ClientTrueIs, PTL DEF MCSpec
-----------------------------------------------------------------------------
(* The TCP object and its owners.  TcpProofs says what a poll, a start, a  *)
(* stop and a send leave of the socket under any owner; here its owner is  *)
(* the panel or the old class, and `Tell` is what they make of a callback. *)

PT == INSTANCE TcpProofs WITH Tell <- Port!OnSocketCallback, MaxAsked <- 1
ST == INSTANCE TcpProofs WITH Tell <- Shim!OnCallback

\* The limits are positive.
LEMMA TcpLimits == MaxConns \in Nat \ {0} /\ Block \in Nat
BY TimedAssumption DEF TimedAssumption, Shim!TcpConstantsOK

\* The panel's socket is the one TcpProofs is about, told the panel's way.
LEMMA PortVerbs ==
    ASSUME NEW s, NEW p
    PROVE  /\ Port!Fresh = PT!Fresh /\ Port!Stop(s) = PT!Stop(s) /\ (Port!Polls(s) <=> PT!Polls(s))
           /\ \A mode, secure : Port!SetVars(s, mode, secure) = PT!SetVars(s, mode, secure)
           /\ \A unit : Port!SendData(s, unit) = PT!SendData(s, unit)
           /\ Port!Start(s, p) = PT!Start(s, p)
<1>1. Port!Fresh = PT!Fresh
  BY DEF Port!Fresh, PT!Fresh
<1>2. Port!Stop(s) = PT!Stop(s)
  BY DEF Port!Stop, PT!Stop
<1>3. Port!Polls(s) <=> PT!Polls(s)
  BY DEF Port!Polls, PT!Polls
<1>4. \A mode, secure : Port!SetVars(s, mode, secure) = PT!SetVars(s, mode, secure)
  BY DEF Port!SetVars, PT!SetVars
<1>5. \A unit : Port!SendData(s, unit) = PT!SendData(s, unit)
  BY DEF Port!SendData, PT!SendData
<1>6. Port!Start(s, p) = PT!Start(s, p)
  BY DEF Port!Start, PT!Start, Port!Up, PT!Up, Port!Error, PT!Error, Port!Callback, PT!Callback,
         Port!Quiet, PT!Quiet, Port!Anyone, PT!Anyone
<1> QED
  BY <1>1, <1>2, <1>3, <1>4, <1>5, <1>6

\* So is its poll.
LEMMA PortPolled ==
    ASSUME NEW s, NEW p
    PROVE  Port!Polled(s, p) = PT!Polled(s, p)
<1> USE DEF Port!Error, PT!Error, Port!Callback, PT!Callback, Port!Quiet, PT!Quiet,
            Port!Anyone, PT!Anyone
<1>1. Port!PollStart(s, p) = PT!PollStart(s, p)
  BY DEF Port!PollStart, PT!PollStart, Port!Joins, PT!Joins, Port!NewConn, PT!NewConn
<1>2. Port!AcceptOne(s, p) = PT!AcceptOne(s, p)
  BY DEF Port!AcceptOne, PT!AcceptOne, Port!Joins, PT!Joins, Port!NewConn, PT!NewConn
<1>3. ASSUME NEW x PROVE Port!Exchanged(s, p, x) = PT!Exchanged(s, p, x)
  BY DEF Port!Exchanged, PT!Exchanged, Port!Drops, PT!Drops, Port!Keeps, PT!Keeps,
         Port!Sent, PT!Sent, Port!Takes, PT!Takes, Port!Hears, PT!Hears,
         Port!RemoveAt, PT!RemoveAt
<1>4. Port!ServeOne(s, p) = PT!ServeOne(s, p)
  <2> DEFINE x == s.conns[s.pos]
             f == [x EXCEPT !.shaking = FALSE]
             g == [x EXCEPT !.peerClosed = TRUE]
  <2>1. /\ Port!Exchanged(s, p, x) = PT!Exchanged(s, p, x)
        /\ Port!Exchanged(s, p, f) = PT!Exchanged(s, p, f)
        /\ Port!Exchanged(s, p, g) = PT!Exchanged(s, p, g)
    BY <1>3, Zenon
  <2>2. Port!Quiet(Port!Keeps(s, x), p) = PT!Quiet(PT!Keeps(s, x), p)
    BY DEF Port!Keeps, PT!Keeps
  <2> QED
    BY <2>1, <2>2, Zenon DEF Port!ServeOne, PT!ServeOne
<1>5. Port!PollEnd(s, p) = PT!PollEnd(s, p)
  BY DEF Port!PollEnd, PT!PollEnd
<1> QED
  BY <1>1, <1>2, <1>4, <1>5 DEF Port!Polled, PT!Polled

\* What the panel can be.
PanelRec ==
    [enabled : BOOLEAN, ssl : BOOLEAN, auto : BOOLEAN,
     state : {"disabled", "idling", "listen", "opening", "connected"}]

\* With Connected lit, also in the middle of a poll, the socket is started and its
\* current connection is there; a disabled panel has its socket stopped.
PanelOK(p, s) ==
    /\ p \in PanelRec
    /\ p.state = "connected" => s.on /\ s.current \in PT!Ids(s)
    /\ ~p.enabled => p.state = "disabled" /\ ~s.on

PortInv == PT!SockOK(sock) /\ PanelOK(panel, sock)

\* What a callback makes of the panel.
LEMMA PanelHears ==
    ASSUME NEW p \in PanelRec, NEW m \in PT!Msg, NEW q, q = Port!OnSocketCallback(p, m)
    PROVE  /\ q \in PanelRec /\ q.enabled = p.enabled
           /\ m.kind \in {"new", "data"} => q.state = "connected"
           /\ m.kind = "closed" /\ p.enabled => q.state # "connected"
           /\ m.kind = "error" => q.state \in {p.state, "idling"}
<1>1. ASSUME NEW st \in {"listen", "idling", "connected"}
      PROVE  LET u == Port!SetState(p, st)
             IN  u \in PanelRec /\ u.enabled = p.enabled /\ u.state = st
  BY DEF Port!SetState, PanelRec
<1>2. m.kind \in {"new", "data", "closed", "error"}
  BY DEF PT!Msg
<1> QED
  BY <1>1, <1>2 DEF Port!OnSocketCallback

\* A part of a poll, and the panel it was told to.
LEMMA PanelTold ==
    ASSUME NEW s, NEW p, PT!SockOK(s), PanelOK(p, s), NEW r, PT!PollGood(s, p, r)
    PROVE  PT!SockOK(r.sock) /\ PanelOK(r.own, r.sock)
<1> DEFINE t == r.sock
<1>1. PT!SockOK(t) /\ PT!Told(s, p, r) /\ t.on = s.on /\ (~s.on => r.own = p)
  BY DEF PT!PollGood, PT!Settled
<1>2. p \in PanelRec /\ s.on \in BOOLEAN
  BY DEF PanelOK, PT!SockOK, PT!Socket
<1>3. CASE ~s.on
  BY <1>1, <1>2, <1>3 DEF PanelOK
<1>4. CASE s.on
  <2>1. p.enabled = TRUE
    BY <1>2, <1>4 DEF PanelOK, PanelRec
  <2>2. CASE r.own = p /\ PT!Ids(t) = PT!Ids(s) /\ t.current = s.current
    BY <1>1, <2>2 DEF PanelOK
  <2>3. ASSUME NEW m \in PT!Msg, r.own = Port!OnSocketCallback(p, m), m.kind = "new",
               PT!Ids(t) = PT!Ids(s) \cup {m.id}, t.current = m.id
        PROVE  PanelOK(r.own, t)
    <3>1. r.own \in PanelRec /\ r.own.enabled = TRUE
      BY <1>2, <2>1, <2>3, PanelHears
    <3> QED
      BY <1>1, <1>4, <2>3, <3>1 DEF PanelOK
  <2>4. ASSUME NEW m \in PT!Says(s), r.own = Port!OnSocketCallback(p, m),
               PT!Ids(t) = PT!Ids(s), t.current = IF m.kind = "data" THEN m.id ELSE s.current
        PROVE  PanelOK(r.own, t)
    <3>1. m \in PT!Msg /\ (m.kind = "error" \/ (m.kind = "data" /\ m.id \in PT!Ids(s)))
      BY DEF PT!Says
    <3>2. /\ r.own \in PanelRec /\ r.own.enabled = TRUE
          /\ m.kind = "error" => r.own.state \in {p.state, "idling"}
      BY <1>2, <2>1, <2>4, <3>1, PanelHears
    <3>3. r.own.state = "connected" => t.current \in PT!Ids(t)
      BY <2>4, <3>1, <3>2 DEF PanelOK
    <3> QED
      BY <1>1, <1>4, <3>2, <3>3 DEF PanelOK
  <2>5. ASSUME NEW o \in PT!Before(s, p), NEW m \in PT!Msg, r.own = Port!OnSocketCallback(o, m),
               m.kind = "closed"
        PROVE  PanelOK(r.own, t)
    <3>1. ASSUME NEW u \in PanelRec, u.enabled = TRUE, NEW n \in PT!Says(s)
          PROVE  /\ Port!OnSocketCallback(u, n) \in PanelRec
                 /\ Port!OnSocketCallback(u, n).enabled = TRUE
      BY <3>1, PanelHears DEF PT!Says
    <3>2. o \in PanelRec /\ o.enabled = TRUE
      <4>1. \/ o = p
            \/ \E n \in PT!Says(s) : o = Port!OnSocketCallback(p, n)
            \/ \E n \in PT!Says(s), k \in PT!Says(s) :
                  o = Port!OnSocketCallback(Port!OnSocketCallback(p, n), k)
        BY DEF PT!Before
      <4>2. ASSUME NEW n \in PT!Says(s), NEW k \in PT!Says(s)
            PROVE  LET u == Port!OnSocketCallback(p, n)
                       w == Port!OnSocketCallback(u, k)
                   IN  u \in PanelRec /\ u.enabled = TRUE /\ w \in PanelRec /\ w.enabled = TRUE
        <5> DEFINE u == Port!OnSocketCallback(p, n)
        <5>1. u \in PanelRec /\ u.enabled = TRUE
          BY <1>2, <2>1, <3>1
        <5> HIDE DEF u
        <5>2. /\ Port!OnSocketCallback(u, k) \in PanelRec
              /\ Port!OnSocketCallback(u, k).enabled = TRUE
          BY <3>1, <5>1
        <5> QED
          BY <5>1, <5>2 DEF u
      <4> QED
        BY <1>2, <2>1, <4>1, <4>2
    <3>3. r.own \in PanelRec /\ r.own.enabled = TRUE /\ r.own.state # "connected"
      BY <2>5, <3>2, PanelHears
    <3> QED
      BY <3>3 DEF PanelOK
  <2>6. PanelOK(r.own, t)
    BY <1>1, <2>2, <2>3, <2>4, <2>5 DEF PT!Told
  <2> QED
    BY <1>1, <2>6
<1> QED
  BY <1>2, <1>3, <1>4

\* A new panel idles in front of a stopped socket.
LEMMA PortPlaced ==
    ASSUME NEW s, NEW p, s = Port!Fresh, p = Port!Placed
    PROVE  PT!SockOK(s) /\ PanelOK(p, s)
<1>1. PT!SockOK(s)
  BY TcpLimits, PortVerbs, PT!FreshOK
<1>2. PanelOK(p, s)
  BY DEF Port!Placed, PanelOK, PanelRec
<1> QED
  BY <1>1, <1>2

\* DoListen: LISTEN is what the panel says, whatever the start said before.
LEMMA PortListen ==
    ASSUME PT!SockOK(sock), NEW p \in PanelRec, p.enabled = TRUE, Port!DoListen(p)
    PROVE  PortInv'
<1> DEFINE w == Port!SetVars(sock, "server", p.ssl)
           s == [w EXCEPT !.current = 0]
<1>1. PICK r \in Port!Start(s, p) : sock' = r.sock /\ panel' = Port!SetState(r.own, "listen")
  BY DEF Port!DoListen
<1>2. PT!SockOK(w)
  <2>1. w = PT!SetVars(sock, "server", p.ssl) /\ p.ssl \in BOOLEAN
    BY PortVerbs DEF PanelRec
  <2> HIDE DEF w
  <2> QED
    BY <2>1, PT!SetVarsOK
<1> HIDE DEF w
<1>3. PT!SockOK(s)
  BY <1>2, PT!CurrentFree
<1> HIDE DEF s
<1>4. r \in PT!Start(s, p)
  BY <1>1, PortVerbs
<1>5. /\ PT!SockOK(r.sock)
      /\ r.own = p \/ \E m \in PT!Msg : m.kind = "error" /\ r.own = Port!OnSocketCallback(p, m)
  BY <1>3, <1>4, PT!StartOK
<1>6. r.own \in PanelRec /\ r.own.enabled = TRUE
  BY <1>5, PanelHears
<1>7. panel' \in PanelRec /\ panel'.enabled = TRUE /\ panel'.state = "listen"
  BY <1>1, <1>6 DEF Port!SetState, PanelRec
<1> QED
  BY <1>1, <1>5, <1>7 DEF PortInv, PanelOK

\* Open: with a name in the box the panel dials and says OPENING.
LEMMA PortOpen ==
    ASSUME PortInv, NEW host \in BOOLEAN, Port!OnOpen(host)
    PROVE  PortInv'
<1>1. PT!SockOK(sock) /\ panel \in PanelRec /\ panel.enabled = TRUE
  BY DEF Port!OnOpen, PortInv, PanelOK, PanelRec
<1>2. CASE host
  <2> DEFINE w == Port!SetVars(sock, "client", panel.ssl)
  <2>1. PICK r \in Port!Start(w, panel) :
           sock' = r.sock /\ panel' = Port!SetState(r.own, "opening")
    BY <1>2 DEF Port!OnOpen
  <2>2. PT!SockOK(w)
    <3>1. w = PT!SetVars(sock, "client", panel.ssl) /\ panel.ssl \in BOOLEAN
      BY <1>1, PortVerbs DEF PanelRec
    <3> HIDE DEF w
    <3> QED
      BY <1>1, <3>1, PT!SetVarsOK
  <2> HIDE DEF w
  <2>3. r \in PT!Start(w, panel)
    BY <2>1, PortVerbs
  <2>4. /\ PT!SockOK(r.sock)
        /\ \/ r.own = panel
           \/ \E m \in PT!Msg : m.kind = "error" /\ r.own = Port!OnSocketCallback(panel, m)
    BY <2>2, <2>3, PT!StartOK
  <2>5. r.own \in PanelRec /\ r.own.enabled = TRUE
    BY <1>1, <2>4, PanelHears
  <2>6. panel' \in PanelRec /\ panel'.enabled = TRUE /\ panel'.state = "opening"
    BY <2>1, <2>5 DEF Port!SetState, PanelRec
  <2> QED
    BY <2>1, <2>4, <2>6 DEF PortInv, PanelOK
<1>3. CASE ~host
  <2>1. sock' = sock /\ panel' = Port!SetState(panel, "idling")
    BY <1>3 DEF Port!OnOpen
  <2>2. panel' \in PanelRec /\ panel'.enabled = TRUE /\ panel'.state = "idling"
    BY <1>1, <2>1 DEF Port!SetState, PanelRec
  <2> QED
    BY <1>1, <2>1, <2>2 DEF PortInv, PanelOK
<1> QED
  BY <1>2, <1>3

\* Close stops the socket, and the panel idles or is disabled.
LEMMA PortClose ==
    ASSUME PortInv, Port!AtRest, NEW on \in BOOLEAN, Port!DoClose(on)
    PROVE  PortInv'
<1>1. PT!SockOK(sock) /\ panel \in PanelRec /\ sock.stage = "rest"
  BY DEF Port!AtRest, PortInv, PanelOK
<1>2. PT!SockOK(sock') /\ sock'.on = FALSE
  <2>1. sock' = PT!Stop(sock)
    BY PortVerbs DEF Port!DoClose
  <2> QED
    BY <1>1, <2>1, TcpLimits, PT!StopOK
<1>3. /\ panel' \in PanelRec /\ panel'.enabled = on
      /\ panel'.state = IF on THEN "idling" ELSE "disabled"
  BY <1>1 DEF Port!DoClose, PanelRec
<1> QED
  BY <1>2, <1>3 DEF PortInv, PanelOK

\* The socket alone is left as it is, and the panel is not lit Connected.
LEMMA PortQuiet ==
    ASSUME PortInv, sock' = sock, panel' \in PanelRec, panel'.state # "connected",
           ~panel'.enabled => panel'.state = "disabled" /\ ~panel.enabled
    PROVE  PortInv'
BY DEF PortInv, PanelOK

\* Enabling, and activation.
LEMMA PortEnable ==
    ASSUME PortInv, (\E v \in BOOLEAN : Port!OnEnable(v)) \/ Port!Activate
    PROVE  PortInv'
<1>1. PT!SockOK(sock) /\ panel \in PanelRec
  BY DEF PortInv, PanelOK
<1>2. CASE \E v \in BOOLEAN : Port!OnEnable(v)
  <2>1. CASE Port!AtRest /\ Port!DoClose(FALSE)
    BY <2>1, PortClose
  <2>2. CASE panel' = [panel EXCEPT !.enabled = TRUE, !.state = "idling"] /\ UNCHANGED sock
    <3>1. panel' \in PanelRec /\ panel'.enabled = TRUE /\ panel'.state = "idling"
      BY <1>1, <2>2 DEF PanelRec
    <3> QED
      BY <2>2, <3>1, PortQuiet
  <2> QED
    BY <1>2, <2>1, <2>2 DEF Port!OnEnable
<1>3. CASE Port!Activate
  <2>1. CASE ~panel.enabled /\ panel' = Port!SetState(panel, "disabled") /\ UNCHANGED sock
    <3>1. panel' \in PanelRec /\ panel'.enabled = panel.enabled /\ panel'.state = "disabled"
      BY <1>1, <2>1 DEF Port!SetState, PanelRec
    <3> QED
      BY <2>1, <3>1, PortQuiet
  <2>2. CASE panel.enabled /\ panel' = Port!SetState(panel, "idling") /\ UNCHANGED sock
    <3>1. panel' \in PanelRec /\ panel'.enabled = panel.enabled /\ panel'.state = "idling"
      BY <1>1, <2>2 DEF Port!SetState, PanelRec
    <3> QED
      BY <2>2, <3>1, PortQuiet
  <2>3. CASE panel.enabled /\ Port!DoListen(Port!SetState(panel, "idling"))
    <3> DEFINE p == Port!SetState(panel, "idling")
    <3>1. p \in PanelRec /\ p.enabled = TRUE
      BY <1>1, <2>3 DEF Port!SetState, PanelRec
    <3> HIDE DEF p
    <3> QED
      BY <1>1, <2>3, <3>1, PortListen DEF p
  <2> QED
    BY <1>3, <2>1, <2>2, <2>3 DEF Port!Activate
<1> QED
  BY <1>2, <1>3

\* Send queues one unit, for everyone or for the peer that was heard of last.
LEMMA PortSend ==
    ASSUME PortInv, Port!DoSend
    PROVE  PortInv'
<1>1. PT!SockOK(sock) /\ PanelOK(panel, sock)
  BY DEF PortInv
<1>2. sock' = PT!SendData(sock, 0) /\ panel' = panel
  BY PortVerbs DEF Port!DoSend, Port!Anyone
<1>3. /\ PT!SockOK(sock') /\ PT!Ids(sock') = PT!Ids(sock) /\ sock'.on = sock.on
      /\ sock'.current = sock.current
  BY <1>1, <1>2, PT!SendOK DEF PT!Unit, PT!Anyone
<1> QED
  BY <1>1, <1>2, <1>3 DEF PortInv, PanelOK

\* Every command, the check boxes and the poll keep the invariant of a panel.
LEMMA PortNext == PortInv /\ [Port!Next]_(Port!vars) => PortInv'
<1> SUFFICES ASSUME PortInv, [Port!Next]_(Port!vars) PROVE PortInv'
  OBVIOUS
<1>1. PT!SockOK(sock) /\ PanelOK(panel, sock) /\ panel \in PanelRec
  BY DEF PortInv, PanelOK
<1>2. CASE Port!OnListen
  BY <1>1, <1>2, PortListen DEF Port!OnListen, PanelRec
<1>3. CASE Port!OnClose
  BY <1>1, <1>3, PortClose DEF Port!OnClose, PanelRec
<1>4. CASE Port!SetOption
  <2>1. panel' \in PanelRec /\ panel'.enabled = panel.enabled /\ panel'.state = panel.state
    BY <1>1, <1>4 DEF Port!SetOption, PanelRec
  <2>2. sock' = sock
    BY <1>4 DEF Port!SetOption
  <2> QED
    BY <1>1, <2>1, <2>2 DEF PortInv, PanelOK
<1>5. CASE Port!Discard
  BY <1>5, PortPlaced DEF Port!Discard, PortInv
<1>6. CASE Port!Poll
  <2>1. PICK r \in Port!Polled(sock, panel) : sock' = r.sock /\ panel' = r.own
    BY <1>6 DEF Port!Poll
  <2>2. PT!Polls(sock) /\ r \in PT!Polled(sock, panel)
    BY <1>6, <2>1, PortVerbs, PortPolled DEF Port!Poll
  <2>3. PT!PollGood(sock, panel, r)
    BY <1>1, <2>2, TcpLimits, PT!PolledGood
  <2> QED
    BY <1>1, <2>1, <2>3, PanelTold DEF PortInv
<1>7. CASE UNCHANGED Port!vars
  BY <1>7 DEF Port!vars, PortInv
<1> QED
  BY <1>2, <1>3, <1>4, <1>5, <1>6, <1>7, PortOpen, PortEnable, PortSend DEF Port!Next

\* The invariant says what the lamps say, and more.
LEMMA PanelTrueIs == PortInv => PanelTrue
<1> SUFFICES ASSUME PortInv PROVE PanelTrue
  OBVIOUS
<1>1. Port!ConnectedReaches
  BY DEF PortInv, PanelOK, PT!Ids, Port!ConnectedReaches
<1>2. Port!DisabledIsSilent
  BY PT!OffIsEmpty DEF PortInv, PanelOK, Port!DisabledIsSilent
<1> QED
  BY <1>1, <1>2 DEF PanelTrue

\* Whatever the socket says and whenever, a panel lit Connected has a peer, the one
\* that Send will reach, and a disabled one has its socket stopped, for any limit of
\* connections, any block and any number of peers (tcpport.c).
THEOREM PanelTruth == Port!Spec => []PanelTrue
<1>1. Port!Init => PortInv
  BY PortPlaced DEF Port!Init, PortInv
<1> QED
  BY <1>1, PortNext, PanelTrueIs, PTL DEF Port!Spec

-----------------------------------------------------------------------------
(* The old TCP class *)

\* The old class's socket is the one TcpProofs is about, told its way.
LEMMA ShimVerbs ==
    ASSUME NEW s, NEW p
    PROVE  /\ Shim!Fresh = ST!Fresh /\ Shim!Stop(s) = ST!Stop(s) /\ (Shim!Polls(s) <=> ST!Polls(s))
           /\ \A mode, secure : Shim!SetVars(s, mode, secure) = ST!SetVars(s, mode, secure)
           /\ \A unit : Shim!SendData(s, unit) = ST!SendData(s, unit)
           /\ Shim!Start(s, p) = ST!Start(s, p)
<1>1. Shim!Fresh = ST!Fresh
  BY DEF Shim!Fresh, ST!Fresh
<1>2. Shim!Stop(s) = ST!Stop(s)
  BY DEF Shim!Stop, ST!Stop
<1>3. Shim!Polls(s) <=> ST!Polls(s)
  BY DEF Shim!Polls, ST!Polls
<1>4. \A mode, secure : Shim!SetVars(s, mode, secure) = ST!SetVars(s, mode, secure)
  BY DEF Shim!SetVars, ST!SetVars
<1>5. \A unit : Shim!SendData(s, unit) = ST!SendData(s, unit)
  BY DEF Shim!SendData, ST!SendData
<1>6. Shim!Start(s, p) = ST!Start(s, p)
  BY DEF Shim!Start, ST!Start, Shim!Up, ST!Up, Shim!Error, ST!Error, Shim!Callback, ST!Callback,
         Shim!Quiet, ST!Quiet, Shim!Anyone, ST!Anyone
<1> QED
  BY <1>1, <1>2, <1>3, <1>4, <1>5, <1>6

\* So is its poll.
LEMMA ShimPolled ==
    ASSUME NEW s, NEW p
    PROVE  Shim!Polled(s, p) = ST!Polled(s, p)
<1> USE DEF Shim!Error, ST!Error, Shim!Callback, ST!Callback, Shim!Quiet, ST!Quiet,
            Shim!Anyone, ST!Anyone
<1>1. Shim!PollStart(s, p) = ST!PollStart(s, p)
  BY DEF Shim!PollStart, ST!PollStart, Shim!Joins, ST!Joins, Shim!NewConn, ST!NewConn
<1>2. Shim!AcceptOne(s, p) = ST!AcceptOne(s, p)
  BY DEF Shim!AcceptOne, ST!AcceptOne, Shim!Joins, ST!Joins, Shim!NewConn, ST!NewConn
<1>3. ASSUME NEW x PROVE Shim!Exchanged(s, p, x) = ST!Exchanged(s, p, x)
  BY DEF Shim!Exchanged, ST!Exchanged, Shim!Drops, ST!Drops, Shim!Keeps, ST!Keeps,
         Shim!Sent, ST!Sent, Shim!Takes, ST!Takes, Shim!Hears, ST!Hears,
         Shim!RemoveAt, ST!RemoveAt
<1>4. Shim!ServeOne(s, p) = ST!ServeOne(s, p)
  <2> DEFINE x == s.conns[s.pos]
             f == [x EXCEPT !.shaking = FALSE]
             g == [x EXCEPT !.peerClosed = TRUE]
  <2>1. /\ Shim!Exchanged(s, p, x) = ST!Exchanged(s, p, x)
        /\ Shim!Exchanged(s, p, f) = ST!Exchanged(s, p, f)
        /\ Shim!Exchanged(s, p, g) = ST!Exchanged(s, p, g)
    BY <1>3, Zenon
  <2>2. Shim!Quiet(Shim!Keeps(s, x), p) = ST!Quiet(ST!Keeps(s, x), p)
    BY DEF Shim!Keeps, ST!Keeps
  <2> QED
    BY <2>1, <2>2, Zenon DEF Shim!ServeOne, ST!ServeOne
<1>5. Shim!PollEnd(s, p) = ST!PollEnd(s, p)
  BY DEF Shim!PollEnd, ST!PollEnd
<1> QED
  BY <1>1, <1>2, <1>4, <1>5 DEF Shim!Polled, ST!Polled

\* What the old class keeps, and the drivers behind it.
ShimRec == [enabled : BOOLEAN, started : BOOLEAN, connected : BOOLEAN, secured : BOOLEAN]

OwnRec == [shim : ShimRec, open : SUBSET Nat, known : SUBSET [id : Nat, peer : Nat]]

\* A peer held open is there; where there are peers the lamp is lit; a started
\* socket was started by the shim, with the security it shows; and what a reply can
\* be tagged with names the peer it came from, of those met so far.
ShimOK(v, s) ==
    /\ v \in OwnRec
    /\ v.open \subseteq ST!Ids(s) /\ (ST!Ids(s) # {} => v.shim.connected)
    /\ s.on => v.shim.started
    /\ v.shim.started /\ v.shim.secured => s.secure
    /\ \A k \in v.known : k.id = k.peer /\ k.id \in 1 .. s.lastId

ShimInv == ST!SockOK(sock) /\ ShimOK(Shim!Own, sock)

\* What a callback makes of the shim and of the drivers.
ShimNotes(v, m, q) ==
    /\ q \in OwnRec /\ q.shim.started = v.shim.started /\ q.shim.secured = v.shim.secured
    /\ m.kind = "error" => q = v
    /\ m.kind = "new" => q.open = v.open /\ q.known = v.known /\ q.shim.connected = TRUE
    /\ m.kind = "data" => /\ q.open = v.open \cup {m.id} /\ q.shim = v.shim
                          /\ q.known = v.known \cup {[id |-> m.id, peer |-> m.peer]}
    /\ m.kind = "closed" => /\ q.open = v.open \ {m.id} /\ q.known = v.known
                            /\ q.shim.connected = (v.shim.connected /\ m.count # 0)

\* Each of the four kinds of callback changes that much and no more.
LEMMA ShimHears ==
    ASSUME NEW v \in OwnRec, NEW m \in ST!Msg, NEW q, q = Shim!OnCallback(v, m)
    PROVE  ShimNotes(v, m, q)
<1>1. /\ m.kind \in {"new", "data", "closed", "error"} /\ m.id \in Nat /\ m.peer \in Nat
      /\ v.shim \in ShimRec /\ v.open \in SUBSET Nat
      /\ v.known \in SUBSET [id : Nat, peer : Nat]
  BY DEF ST!Msg, OwnRec
<1>2. CASE m.kind = "data"
  <2> DEFINE o == v.open \cup {m.id}
             k == v.known \cup {[id |-> m.id, peer |-> m.peer]}
  <2>1. q = [v EXCEPT !.open = o, !.known = k]
    BY <1>2 DEF Shim!OnCallback
  <2>2. o \in SUBSET Nat /\ k \in SUBSET [id : Nat, peer : Nat]
    BY <1>1
  <2> HIDE DEF o, k
  <2>3. q \in OwnRec /\ q.shim = v.shim /\ q.open = o /\ q.known = k
    BY <2>1, <2>2 DEF OwnRec
  <2> QED
    BY <1>2, <2>3 DEF o, k, ShimNotes
<1>3. CASE m.kind = "new"
  <2> DEFINE h == [v.shim EXCEPT !.connected = TRUE]
  <2>1. q = [v EXCEPT !.shim = h]
    BY <1>3 DEF Shim!OnCallback
  <2>2. /\ h \in ShimRec /\ h.connected = TRUE /\ h.started = v.shim.started
        /\ h.secured = v.shim.secured
    BY <1>1 DEF ShimRec
  <2> HIDE DEF h
  <2>3. q \in OwnRec /\ q.shim = h /\ q.open = v.open /\ q.known = v.known
    BY <2>1, <2>2 DEF OwnRec
  <2> QED
    BY <1>3, <2>2, <2>3 DEF ShimNotes
<1>4. CASE m.kind = "closed"
  <2> DEFINE o == v.open \ {m.id}
             z == v.shim.connected /\ m.count # 0
             h == [v.shim EXCEPT !.connected = z]
  <2>1. q = [v EXCEPT !.open = o, !.shim = h]
    BY <1>4 DEF Shim!OnCallback
  <2>2. o \in SUBSET Nat /\ z \in BOOLEAN
    BY <1>1
  <2> HIDE DEF o, z
  <2>3. /\ h \in ShimRec /\ h.connected = z /\ h.started = v.shim.started
        /\ h.secured = v.shim.secured
    BY <1>1, <2>2 DEF ShimRec
  <2> HIDE DEF h
  <2>4. q \in OwnRec /\ q.shim = h /\ q.open = o /\ q.known = v.known
    BY <2>1, <2>2, <2>3 DEF OwnRec
  <2> QED
    BY <1>4, <2>3, <2>4 DEF o, z, ShimNotes
<1>5. CASE m.kind = "error"
  BY <1>5 DEF Shim!OnCallback, ShimNotes
<1> QED
  BY <1>1, <1>2, <1>3, <1>4, <1>5

\* A peer the socket has was met.
LEMMA IdsMet ==
    ASSUME NEW s, ST!SockOK(s), NEW i \in ST!Ids(s)
    PROVE  i \in 1 .. s.lastId
BY DEF ST!SockOK, ST!ConnsOK, ST!ConnOK, ST!Ids

\* What is said while the peers stay as they are.
LEMMA ShimSays ==
    ASSUME NEW s, NEW v, ST!SockOK(s), ShimOK(v, s), NEW m \in ST!Says(s), NEW q,
           q = Shim!OnCallback(v, m)
    PROVE  ShimOK(q, s)
<1>1. v \in OwnRec /\ m \in ST!Msg
  BY DEF ShimOK, ST!Says
<1>2. CASE m.kind = "error"
  <2>1. ShimNotes(v, m, q)
    BY <1>1, ShimHears
  <2> QED
    BY <1>2, <2>1 DEF ShimNotes
<1>3. CASE m.kind = "data"
  <2>1. m.id = m.peer /\ m.id \in ST!Ids(s)
    BY <1>3 DEF ST!Says
  <2>2. m.id \in 1 .. s.lastId
    BY <2>1, IdsMet
  <2>3. /\ q \in OwnRec /\ q.shim = v.shim /\ q.open = v.open \cup {m.id}
        /\ q.known = v.known \cup {[id |-> m.id, peer |-> m.peer]}
    <3>1. ShimNotes(v, m, q)
      BY <1>1, ShimHears
    <3> QED
      BY <1>3, <3>1 DEF ShimNotes
  <2>4. \A k \in q.known : k.id = k.peer /\ k.id \in 1 .. s.lastId
    BY <2>1, <2>2, <2>3 DEF ShimOK
  <2> QED
    BY <2>1, <2>3, <2>4 DEF ShimOK
<1> QED
  BY <1>2, <1>3 DEF ST!Says

\* A part of a poll, and the shim and the drivers it was told to.
LEMMA ShimTold ==
    ASSUME NEW s, NEW v, ST!SockOK(s), ShimOK(v, s), NEW r, ST!PollGood(s, v, r)
    PROVE  ST!SockOK(r.sock) /\ ShimOK(r.own, r.sock)
<1> DEFINE t == r.sock
<1>1. /\ ST!SockOK(t) /\ ST!Told(s, v, r) /\ t.on = s.on /\ t.secure = s.secure
      /\ t.lastId >= s.lastId
  BY DEF ST!PollGood, ST!Settled
<1>2. v \in OwnRec /\ s.lastId \in Nat /\ t.lastId \in Nat
  BY <1>1 DEF ShimOK, ST!SockOK, ST!Socket
<1>3. ASSUME NEW u \in OwnRec, ShimOK(u, s), NEW w \in OwnRec,
             w.shim.started = u.shim.started, w.shim.secured = u.shim.secured,
             w.known = u.known, w.open \subseteq ST!Ids(t), ST!Ids(t) # {} => w.shim.connected
      PROVE  ShimOK(w, t)
  <2>1. \A k \in 1 .. s.lastId : k \in 1 .. t.lastId
    BY <1>1, <1>2
  <2>2. \A k \in w.known : k.id = k.peer /\ k.id \in 1 .. t.lastId
    BY <1>3, <2>1 DEF ShimOK
  <2> QED
    BY <1>1, <1>3, <2>2 DEF ShimOK
<1>4. ASSUME NEW u, ShimOK(u, s), ST!Ids(t) = ST!Ids(s) PROVE ShimOK(u, t)
  BY <1>3, <1>4 DEF ShimOK
<1> HIDE DEF t
<1>5. ASSUME r.own = v, ST!Ids(t) = ST!Ids(s) PROVE ShimOK(r.own, t)
  BY <1>4, <1>5
<1>6. ASSUME NEW m \in ST!Msg, r.own = Shim!OnCallback(v, m), m.kind = "new",
             ST!Ids(t) = ST!Ids(s) \cup {m.id}
      PROVE  ShimOK(r.own, t)
  <2>1. /\ r.own \in OwnRec /\ r.own.shim.started = v.shim.started
        /\ r.own.shim.secured = v.shim.secured /\ r.own.open = v.open
        /\ r.own.known = v.known /\ r.own.shim.connected = TRUE
    <3>1. ShimNotes(v, m, r.own)
      BY <1>2, <1>6, ShimHears
    <3> QED
      BY <1>6, <3>1 DEF ShimNotes
  <2>2. r.own.open \subseteq ST!Ids(t)
    BY <1>6, <2>1 DEF ShimOK
  <2> QED
    BY <1>2, <1>3, <2>1, <2>2
<1>7. ASSUME NEW m \in ST!Says(s), r.own = Shim!OnCallback(v, m), ST!Ids(t) = ST!Ids(s)
      PROVE  ShimOK(r.own, t)
  BY <1>4, <1>7, ShimSays
<1>8. ASSUME NEW o \in ST!Before(s, v), NEW m \in ST!Msg, r.own = Shim!OnCallback(o, m),
             m.kind = "closed", ST!Ids(t) \subseteq ST!Ids(s), ST!Ids(s) \ {m.id} \subseteq ST!Ids(t),
             ST!Ids(t) # {} => m.count # 0
      PROVE  ShimOK(r.own, t)
  <2>1. ShimOK(o, s)
    <3>1. \/ o = v
          \/ \E n \in ST!Says(s) : o = Shim!OnCallback(v, n)
          \/ \E n \in ST!Says(s), k \in ST!Says(s) :
                o = Shim!OnCallback(Shim!OnCallback(v, n), k)
      BY DEF ST!Before
    <3>2. ASSUME NEW n \in ST!Says(s), NEW k \in ST!Says(s)
          PROVE  LET u == Shim!OnCallback(v, n)
                 IN  ShimOK(u, s) /\ ShimOK(Shim!OnCallback(u, k), s)
      <4> DEFINE u == Shim!OnCallback(v, n)
      <4>1. ShimOK(u, s)
        BY ShimSays
      <4> HIDE DEF u
      <4>2. ShimOK(Shim!OnCallback(u, k), s)
        BY <4>1, ShimSays
      <4> QED
        BY <4>1, <4>2 DEF u
    <3> QED
      BY <3>1, <3>2
  <2>2. o \in OwnRec
    BY <2>1 DEF ShimOK
  <2>3. /\ r.own \in OwnRec /\ r.own.shim.started = o.shim.started
        /\ r.own.shim.secured = o.shim.secured /\ r.own.open = o.open \ {m.id}
        /\ r.own.known = o.known /\ r.own.shim.connected = (o.shim.connected /\ m.count # 0)
    <3>1. ShimNotes(o, m, r.own)
      BY <1>8, <2>2, ShimHears
    <3> QED
      BY <1>8, <3>1 DEF ShimNotes
  <2>4. r.own.open \subseteq ST!Ids(t)
    BY <1>8, <2>1, <2>3 DEF ShimOK
  <2>5. ST!Ids(t) # {} => r.own.shim.connected
    BY <1>8, <2>1, <2>3 DEF ShimOK
  <2> QED
    BY <1>3, <2>1, <2>2, <2>3, <2>4, <2>5
<1>9. ShimOK(r.own, t)
  BY <1>1, <1>5, <1>6, <1>7, <1>8 DEF ST!Told, t
<1> QED
  BY <1>1, <1>9 DEF t

\* What a callback finds are the variables.
LEMMA OwnIs ==
    /\ Shim!Own.shim = shim /\ Shim!Own.open = open /\ Shim!Own.known = known
    /\ Shim!Own' = [shim |-> shim', open |-> open', known |-> known']
BY DEF Shim!Own

\* What a callback leaves are the variables afterwards.
LEMMA OwnThen ==
    ASSUME NEW v \in OwnRec, shim' = v.shim, open' = v.open, known' = v.known
    PROVE  Shim!Own' = v
BY DEF Shim!Own, OwnRec

\* A new shim has heard of nobody.
LEMMA ShimPlaced ==
    ASSUME NEW s, NEW v, s = Shim!Fresh,
           v = [shim |-> Shim!Placed, open |-> {}, known |-> {}]
    PROVE  ST!SockOK(s) /\ ShimOK(v, s)
<1>1. ST!SockOK(s) /\ ST!Ids(s) = {} /\ s.on = FALSE
  BY TcpLimits, ShimVerbs, ST!FreshOK
<1>2. v \in OwnRec /\ v.open = {} /\ v.known = {} /\ v.shim.started = FALSE
  BY DEF Shim!Placed, OwnRec, ShimRec
<1> QED
  BY <1>1, <1>2 DEF ShimOK

\* Activate, and a start that failed: the shim counts itself started, and shows
\* the security the socket was given.
LEMMA ShimActivate ==
    ASSUME ShimInv, NEW mode \in {"server", "client"}, NEW secure \in BOOLEAN,
           Shim!Activate(mode, secure)
    PROVE  ShimInv'
<1> DEFINE z == secure \/ sock.secure
           w == Shim!SetVars(sock, mode, z)
           v == Shim!Own
<1>1. PICK r \in Shim!Start(w, v) :
        /\ sock' = r.sock /\ open' = r.own.open /\ known' = r.own.known
        /\ shim' = [r.own.shim EXCEPT !.started = TRUE, !.secured = secure]
  BY DEF Shim!Activate
<1>2. /\ ST!SockOK(sock) /\ ShimOK(v, sock) /\ v \in OwnRec /\ v.shim = shim
      /\ shim.started = FALSE /\ sock.on = FALSE /\ sock.secure \in BOOLEAN
  <2>1. ST!SockOK(sock) /\ ShimOK(v, sock) /\ v \in OwnRec /\ v.shim = shim
    BY OwnIs DEF ShimInv, ShimOK
  <2>2. shim \in ShimRec /\ ~shim.started /\ sock.on \in BOOLEAN /\ sock.secure \in BOOLEAN
    BY <2>1 DEF Shim!Activate, OwnRec, ST!SockOK, ST!Socket
  <2> QED
    BY <2>1, <2>2 DEF ShimOK, ShimRec
<1>3. /\ ST!SockOK(w) /\ w.on = sock.on /\ w.conns = sock.conns /\ w.lastId = sock.lastId
      /\ w.secure = z
  <2>1. w = ST!SetVars(sock, mode, z) /\ z \in BOOLEAN
    BY <1>2, ShimVerbs
  <2> HIDE DEF w, z
  <2> QED
    BY <1>2, <2>1, ST!SetVarsOK
<1>4. r \in ST!Start(w, v)
  BY <1>1, ShimVerbs
<1> HIDE DEF w, v
<1>5. /\ ST!SockOK(r.sock) /\ r.sock.conns = w.conns /\ r.sock.lastId = w.lastId
      /\ r.sock.secure = w.secure
      /\ r.own = v \/ \E m \in ST!Msg : m.kind = "error" /\ r.own = Shim!OnCallback(v, m)
  BY <1>3, <1>4, ST!StartOK
<1>6. r.own = v
  <2>1. ASSUME NEW m \in ST!Msg, m.kind = "error" PROVE Shim!OnCallback(v, m) = v
    BY <2>1 DEF Shim!OnCallback
  <2> QED
    BY <1>5, <2>1
<1>7. ST!Ids(sock') = ST!Ids(sock)
  BY <1>1, <1>3, <1>5 DEF ST!Ids
<1>8. /\ shim' \in ShimRec /\ shim'.started = TRUE /\ shim'.secured = secure
      /\ shim'.connected = shim.connected
  BY <1>1, <1>2, <1>6 DEF OwnRec, ShimRec
<1> DEFINE y == [shim |-> shim', open |-> open', known |-> known']
<1>9. y \in OwnRec /\ y.shim = shim' /\ y.open = v.open /\ y.known = v.known
  BY <1>1, <1>2, <1>6, <1>8 DEF OwnRec
<1>10. Shim!Own' = y
  BY OwnIs
<1> HIDE DEF y
<1>11. ShimOK(y, sock')
  <2>1. sock'.secure = z /\ sock'.lastId = sock.lastId
    BY <1>1, <1>3, <1>5
  <2> QED
    BY <1>2, <1>7, <1>8, <1>9, <2>1 DEF ShimOK, z
<1> QED
  BY <1>1, <1>5, <1>10, <1>11 DEF ShimInv

\* Enable: 0 stops the socket, and the drivers hold nobody open any more.
LEMMA ShimEnable ==
    ASSUME ShimInv, NEW value \in BOOLEAN, Shim!OnEnable(value)
    PROVE  ShimInv'
<1> DEFINE v == Shim!Own
           y == [shim |-> shim', open |-> open', known |-> known']
<1>1. /\ ST!SockOK(sock) /\ ShimOK(v, sock) /\ v \in OwnRec /\ shim \in ShimRec
      /\ v.shim = shim /\ v.open = open /\ v.known = known
  BY OwnIs DEF ShimInv, ShimOK, OwnRec
<1>2. Shim!Own' = y /\ known' = known /\ sock.stage = "rest"
  BY OwnIs DEF Shim!OnEnable, Shim!AtRest
<1>3. CASE ~value /\ shim.started
  <2>1. /\ sock' = Shim!Stop(sock) /\ open' = {}
        /\ shim' = [shim EXCEPT !.enabled = FALSE, !.started = FALSE, !.connected = FALSE]
    BY <1>3 DEF Shim!OnEnable
  <2>2. sock' = ST!Stop(sock)
    BY <2>1, ShimVerbs
  <2>3. ST!SockOK(sock') /\ sock'.on = FALSE /\ ST!Ids(sock') = {} /\ sock'.lastId = sock.lastId
    BY <1>1, <1>2, <2>2, TcpLimits, ST!StopOK
  <2>4. shim' \in ShimRec /\ shim'.started = FALSE
    BY <1>1, <2>1 DEF ShimRec
  <2>5. y \in OwnRec /\ y.shim = shim' /\ y.open = {} /\ y.known = v.known
    BY <1>1, <1>2, <2>1, <2>4 DEF OwnRec
  <2> HIDE DEF y, v
  <2>6. ShimOK(y, sock')
    BY <1>1, <2>3, <2>4, <2>5 DEF ShimOK
  <2> QED
    BY <1>2, <2>3, <2>6 DEF ShimInv
<1>4. CASE ~(~value /\ shim.started)
  <2>1. sock' = sock /\ open' = open /\ shim' = [shim EXCEPT !.enabled = value]
    BY <1>4 DEF Shim!OnEnable
  <2>2. /\ shim' \in ShimRec /\ shim'.started = shim.started /\ shim'.secured = shim.secured
        /\ shim'.connected = shim.connected
    BY <1>1, <2>1 DEF ShimRec
  <2>3. y \in OwnRec /\ y.shim = shim' /\ y.open = v.open /\ y.known = v.known
    BY <1>1, <1>2, <2>1, <2>2 DEF OwnRec
  <2> HIDE DEF y, v
  <2>4. ShimOK(y, sock)
    BY <1>1, <2>2, <2>3 DEF ShimOK
  <2> QED
    BY <1>1, <1>2, <2>1, <2>4 DEF ShimInv
<1> QED
  BY <1>3, <1>4

\* A reply goes to the connection its tag names, which is the peer it came from:
\* ids are not used again, so a peer that has gone has no successor.
LEMMA ShimIn ==
    ASSUME ShimInv, NEW to \in known \cup {[id |-> 0, peer |-> Shim!Anyone]}, Shim!OnIn(to)
    PROVE  ShimInv'
<1> DEFINE v == Shim!Own
           s == [sock EXCEPT !.current = to.id]
<1>1. /\ ST!SockOK(sock) /\ ShimOK(v, sock) /\ v \in OwnRec /\ v.known = known
  BY OwnIs DEF ShimInv, ShimOK
<1>2. to.id \in Nat /\ to.peer \in Nat /\ to.id = to.peer
  <2>1. CASE to \in known
    BY <1>1, <2>1 DEF ShimOK, OwnRec
  <2>2. CASE to = [id |-> 0, peer |-> Shim!Anyone]
    BY <2>2 DEF Shim!Anyone
  <2> QED
    BY <2>1, <2>2
<1>3. /\ ST!SockOK(s) /\ s.current = to.id /\ ST!Ids(s) = ST!Ids(sock) /\ s.on = sock.on
      /\ s.secure = sock.secure /\ s.lastId = sock.lastId
  <2> DEFINE k == to.id
  <2>1. k \in Nat /\ s = [sock EXCEPT !.current = k]
    BY <1>2
  <2> HIDE DEF s, k
  <2>2. /\ ST!SockOK(s) /\ s.current = k /\ ST!Ids(s) = ST!Ids(sock) /\ s.on = sock.on
        /\ s.secure = sock.secure /\ s.lastId = sock.lastId
    BY <1>1, <2>1, ST!CurrentFree
  <2> QED
    BY <2>2 DEF k
<1>4. sock' = ST!SendData(s, to.peer) /\ Shim!Own' = v
  <2>1. sock' = Shim!SendData(s, to.peer) /\ shim' = shim /\ open' = open /\ known' = known
    BY DEF Shim!OnIn
  <2>2. Shim!Own' = v
    BY <2>1 DEF Shim!Own
  <2> QED
    BY <2>1, <2>2, ShimVerbs
<1> HIDE DEF s, v
<1>5. \A i \in DOMAIN s.conns :
        s.current \in {0, s.conns[i].id} => to.peer \in {ST!Anyone, s.conns[i].peer}
  <2>1. \A i \in DOMAIN s.conns : s.conns[i].id = s.conns[i].peer
    BY <1>3 DEF ST!SockOK, ST!ConnsOK, ST!ConnOK
  <2> QED
    BY <1>2, <1>3, <2>1 DEF ST!Anyone
<1>6. /\ ST!SockOK(sock') /\ ST!Ids(sock') = ST!Ids(s) /\ sock'.on = s.on
      /\ sock'.secure = s.secure /\ sock'.lastId = s.lastId
  <2> DEFINE u == to.peer
  <2>1. u \in ST!Unit /\ sock' = ST!SendData(s, u)
    BY <1>2, <1>4 DEF ST!Unit
  <2>2. \A i \in DOMAIN s.conns :
          s.current \in {0, s.conns[i].id} => u \in {ST!Anyone, s.conns[i].peer}
    BY <1>5
  <2> HIDE DEF u
  <2> QED
    BY <1>3, <2>1, <2>2, ST!SendOK
<1>7. ShimOK(v, sock')
  BY <1>1, <1>3, <1>6 DEF ShimOK
<1> QED
  BY <1>4, <1>6, <1>7 DEF ShimInv

\* Every port and the poll keep the invariant of a shim.
LEMMA ShimNext == ShimInv /\ [Shim!Next]_(Shim!vars) => ShimInv'
<1> SUFFICES ASSUME ShimInv, [Shim!Next]_(Shim!vars) PROVE ShimInv'
  OBVIOUS
<1>1. ST!SockOK(sock) /\ ShimOK(Shim!Own, sock)
  BY DEF ShimInv
<1>2. CASE Shim!Discard
  <2>1. Shim!Own' = [shim |-> Shim!Placed, open |-> {}, known |-> {}] /\ sock' = Shim!Fresh
    BY <1>2, OwnIs DEF Shim!Discard
  <2> QED
    BY <2>1, ShimPlaced DEF ShimInv
<1>3. CASE Shim!Poll
  <2>1. PICK r \in Shim!Polled(sock, Shim!Own) :
          /\ sock' = r.sock
          /\ shim' = r.own.shim /\ open' = r.own.open /\ known' = r.own.known
    BY <1>3 DEF Shim!Poll
  <2>2. ST!Polls(sock) /\ r \in ST!Polled(sock, Shim!Own)
    BY <1>3, <2>1, ShimVerbs, ShimPolled DEF Shim!Poll
  <2>3. ST!PollGood(sock, Shim!Own, r)
    BY <1>1, <2>2, TcpLimits, ST!PolledGood
  <2>4. ST!SockOK(r.sock) /\ ShimOK(r.own, r.sock)
    BY <1>1, <2>3, ShimTold
  <2>5. Shim!Own' = r.own
    BY <2>1, <2>4, OwnThen DEF ShimOK
  <2> QED
    BY <2>1, <2>4, <2>5 DEF ShimInv
<1>4. CASE UNCHANGED Shim!vars
  BY <1>4 DEF Shim!vars, Shim!Own, ShimInv
<1> QED
  BY <1>2, <1>3, <1>4, ShimActivate, ShimEnable, ShimIn DEF Shim!Next

\* The invariant says what the drivers and the lamps are told, and more.
LEMMA PeersToldIs == ShimInv => Shim!PeersTold /\ Shim!SecuredTrue
<1> SUFFICES ASSUME ShimInv PROVE Shim!PeersTold /\ Shim!SecuredTrue
  OBVIOUS
<1>1. /\ ST!SockOK(sock) /\ open \subseteq ST!Ids(sock) /\ (ST!Ids(sock) # {} => shim.connected)
      /\ (shim.started /\ shim.secured => sock.secure)
  BY OwnIs DEF ShimInv, ShimOK
<1>2. ST!Ids(sock) = {sock.conns[i].id : i \in DOMAIN sock.conns}
  BY DEF ST!Ids
<1>3. sock.conns # <<>> => shim.connected
  BY <1>1, ST!IdsEmpty
<1> QED
  BY <1>1, <1>2, <1>3 DEF Shim!PeersTold, Shim!SecuredTrue

\* Whoever goes, and whatever was said before, the drivers on the old class hold
\* open only peers that are there, and its lamps tell of every peer and of security,
\* for any limit of connections, any block and any number of peers (tcpshim.c).
THEOREM ShimTruth == Shim!Spec => [](Shim!PeersTold /\ Shim!SecuredTrue)
<1>1. Shim!Init => ShimInv
  BY ShimPlaced DEF Shim!Init, Shim!Own, ShimInv
<1> QED
  BY <1>1, ShimNext, PeersToldIs, PTL DEF Shim!Spec

-----------------------------------------------------------------------------
(* Both owners in the composition.  One of them is looked at, and the      *)
(* other is as it was placed.                                              *)

TcpInv ==
    /\ of # "shim" => PortInv /\ shim = Shim!Placed /\ open = {} /\ known = {}
    /\ of = "shim" => ShimInv /\ panel = Port!Placed

\* At first both owners are as they were placed.
LEMMA TcpInit == MCInit => TcpInv
<1> SUFFICES ASSUME MCInit PROVE TcpInv
  OBVIOUS
<1>1. /\ sock = Port!Fresh /\ sock = Shim!Fresh /\ panel = Port!Placed
      /\ shim = Shim!Placed /\ open = {} /\ known = {}
  BY DEF MCInit, Port!Init, Shim!Init
<1>2. PortInv
  BY <1>1, PortPlaced DEF PortInv
<1>3. ShimInv
  BY <1>1, ShimPlaced DEF Shim!Own, ShimInv
<1> QED
  BY <1>1, <1>2, <1>3 DEF TcpInv

\* The steps of the object that is looked at.
LEMMA TcpNext == TcpInv /\ [MCNext]_MCVars => TcpInv'
<1> SUFFICES ASSUME TcpInv, [MCNext]_MCVars PROVE TcpInv'
  OBVIOUS
<1>1. CASE PortStep
  <2>1. of' = of /\ of # "shim" /\ shim' = shim /\ open' = open /\ known' = known /\ Port!Next
    BY <1>1 DEF PortStep
  <2>2. PortInv'
    BY <2>1, PortNext DEF TcpInv
  <2> QED
    BY <2>1, <2>2 DEF TcpInv
<1>2. CASE ShimStep
  <2>1. of' = of /\ of = "shim" /\ panel' = panel /\ Shim!Next
    BY <1>2 DEF ShimStep
  <2>2. ShimInv'
    BY <2>1, ShimNext DEF TcpInv
  <2> QED
    BY <2>1, <2>2 DEF TcpInv
<1>3. CASE of' = of /\ UNCHANGED tVars
  <2>1. sock' = sock /\ panel' = panel /\ shim' = shim /\ open' = open /\ known' = known
    BY <1>3 DEF tVars
  <2>2. PortInv' <=> PortInv
    BY <2>1 DEF PortInv
  <2>3. ShimInv' <=> ShimInv
    BY <2>1 DEF ShimInv, Shim!Own
  <2> QED
    BY <1>3, <2>1, <2>2, <2>3 DEF TcpInv
<1>4. PulseStep \/ ButtonStep \/ GenStep \/ ClientStep \/ UNCHANGED MCVars
      => of' = of /\ UNCHANGED tVars
  BY DEF PulseStep, ButtonStep, GenStep, ClientStep, MCVars
<1> QED
  BY <1>1, <1>2, <1>3, <1>4 DEF MCNext

\* Whichever owner it is, the socket is as the run checks it.
LEMMA SocketIs ==
    ASSUME NEW s, PT!SockOK(s) \/ ST!SockOK(s)
    PROVE  /\ s.stage = "rest" => Shim!Pending(s)
           /\ Shim!Counted(s) /\ Shim!Secured(s) /\ Shim!Exact(s)
<1>1. CASE PT!SockOK(s)
  <2>1. PT!TurnOK(s) /\ PT!CountOK(s) /\ PT!ConnsOK(s)
    BY <1>1 DEF PT!SockOK
  <2>2. s.stage = "rest" => Shim!Pending(s)
    BY <2>1 DEF PT!TurnOK, PT!Pending, Shim!Pending
  <2>3. Shim!Counted(s)
    BY <2>1 DEF PT!CountOK, PT!Counted, Shim!Counted
  <2>4. Shim!Secured(s)
    BY <2>1 DEF PT!ConnsOK, PT!ConnOK, Shim!Secured
  <2>5. Shim!Exact(s)
    BY <2>1 DEF PT!ConnsOK, PT!ConnOK, Shim!Exact, PT!ToSet, Shim!ToSet, PT!Anyone, Shim!Anyone
  <2> QED
    BY <2>2, <2>3, <2>4, <2>5
<1>2. CASE ST!SockOK(s)
  <2>1. ST!TurnOK(s) /\ ST!CountOK(s) /\ ST!ConnsOK(s)
    BY <1>2 DEF ST!SockOK
  <2>2. s.stage = "rest" => Shim!Pending(s)
    BY <2>1 DEF ST!TurnOK, ST!Pending, Shim!Pending
  <2>3. Shim!Counted(s)
    BY <2>1 DEF ST!CountOK, ST!Counted, Shim!Counted
  <2>4. Shim!Secured(s)
    BY <2>1 DEF ST!ConnsOK, ST!ConnOK, Shim!Secured
  <2>5. Shim!Exact(s)
    BY <2>1 DEF ST!ConnsOK, ST!ConnOK, Shim!Exact, ST!ToSet, Shim!ToSet, ST!Anyone, Shim!Anyone
  <2> QED
    BY <2>2, <2>3, <2>4, <2>5
<1> QED
  BY <1>1, <1>2

\* What the run checks of the socket and of its owners.
LEMMA TcpTrueIs == TcpInv => SocketPolled /\ PeersTrue /\ StreamsTrue /\ PanelTrue /\ PeersTold
<1> SUFFICES ASSUME TcpInv PROVE SocketPolled /\ PeersTrue /\ StreamsTrue /\ PanelTrue /\ PeersTold
  OBVIOUS
<1>1. PT!SockOK(sock) \/ ST!SockOK(sock)
  BY DEF TcpInv, PortInv, ShimInv
<1>2. /\ sock.stage = "rest" => Shim!Pending(sock)
      /\ Shim!Counted(sock) /\ Shim!Secured(sock) /\ Shim!Exact(sock)
  BY <1>1, SocketIs
<1>3. CASE of # "shim"
  <2>1. PanelTrue /\ PeersTold
    BY <1>3, PanelTrueIs DEF TcpInv, PeersTold
  <2>2. Shim!SecuredTrue
    BY <1>3 DEF TcpInv, Shim!Placed, Shim!SecuredTrue
  <2> QED
    BY <1>2, <2>1, <2>2 DEF SocketPolled, PeersTrue, StreamsTrue, Shim!AtRest
<1>4. CASE of = "shim"
  <2>1. Shim!PeersTold /\ Shim!SecuredTrue
    BY <1>4, PeersToldIs DEF TcpInv
  <2>2. PanelTrue
    BY <1>4 DEF TcpInv, Port!Placed, PanelTrue, Port!ConnectedReaches, Port!DisabledIsSilent
  <2> QED
    BY <1>2, <2>1, <2>2 DEF SocketPolled, PeersTrue, StreamsTrue, PeersTold, Shim!AtRest
<1> QED
  BY <1>3, <1>4

\* The socket's invariant, under either owner, at every moment of a poll.
LEMMA TcpInductive == MCSpec => []TcpInv
BY TcpInit, TcpNext, PTL DEF MCSpec

\* A stop and a start within one tick neither lose the poll nor arm it twice
\* (tcp.c, Tcp_Start, Tcp_Poll).
THEOREM PollsOnce == MCSpec => []SocketPolled
BY TcpInductive, TcpTrueIs, PTL

\* The count is the number of peers, within the limit, and with security on no
\* connection goes without TLS (tcp.c, Tcp_Poll, Tcp_SslContext).
THEOREM PeersCounted == MCSpec => []PeersTrue
BY TcpInductive, TcpTrueIs, PTL

\* Short sends, late replies and stops notwithstanding, each peer is sent what was
\* queued for it, in order, and nothing meant for another (tcp.c, Tcp_SendData).
THEOREM StreamsExact == MCSpec => []StreamsTrue
BY TcpInductive, TcpTrueIs, PTL

\* The panel's Connected and Disabled lamps among the other objects (tcpport.c).
THEOREM PanelsTrue == MCSpec => []PanelTrue
BY TcpInductive, TcpTrueIs, PTL

\* The drivers on the old class among the other objects (tcpshim.c).
THEOREM DriversTold == MCSpec => []PeersTold
BY TcpInductive, TcpTrueIs, PTL
==============================================================================
